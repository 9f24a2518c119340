---------------------------- MODULE Records_proofs ----------------------------
(***************************************************************************)
(* RowKept, AnswersAreRecent, RowTellsRun and SumsSurvive: the rows of     *)
(* sessions, what is shown of them to others, the runs of their chats,     *)
(* and the sums that outlive the rows of runs, for every number of         *)
(* requests, viewers, chats, runs and days.                                *)
(***************************************************************************)
EXTENDS SessionMetadata, SessionShares, ChatRun, UsageRollup, TLAPS

-----------------------------------------------------------------------------
(* The row of a session.  A deletion sticks because copies are never       *)
(* ahead of the row (Behind) and the runtime's session is gone before it   *)
(* begins (Gone); a name sticks because, while titles are written one at   *)
(* a time, the one who writes holds the title of the row (Titled).         *)

MetaRows == [exists : BOOLEAN, title : Title, data : Nat, task : BOOLEAN, state : {"", "running", "deleted"},
         settings : Setting, deleted : BOOLEAN]
MetaRequests == {IdleRequest}
              \cup [at : {"find", "write"}, op : Ops, meta : [title : Title, data : Nat], copy : MetaRows]

MetaTypeOK ==
    /\ stored \in MetaRows /\ live \in BOOLEAN
    /\ request \in [Handler -> MetaRequests] /\ writes \in Nat
    /\ savedSettings \in Setting
    /\ named \in BOOLEAN /\ gone \in BOOLEAN /\ overlapped \in BOOLEAN

Busy(w) == request[w].at # "idle"

\* A copy is the row of now or of earlier: deletions are in the row first.
Behind == \A w \in Handler : Busy(w) /\ request[w].copy.deleted => stored.deleted

\* A deletion begins when the runtime has deleted its session.
Gone ==
    /\ \A w \in Handler : Busy(w) /\ request[w].op.op = "delete" => ~live
    /\ gone => stored.deleted /\ ~live

\* While at most one request carries a title, it holds the row's, and will write its own.
Lone == \A v, w \in Handler : Titles(v) /\ Titles(w) => v = w
Holds(w) ==
    /\ request[w].copy.title = stored.title
    /\ request[w].meta.title = IF request[w].op.title = "" THEN stored.title
                               ELSE request[w].op.title
Titled ==
    ~overlapped =>
        /\ Lone
        /\ \A w \in Handler : Titles(w) => Holds(w)
        /\ named => stored.title # ""

Settled == stored.settings = savedSettings

MetaIInv == MetaTypeOK /\ Behind /\ Gone /\ Titled /\ Settled

-----------------------------------------------------------------------------
\* Every operation is one of the five forms, with a title and settings of its own.
LEMMA OpTypes ==
    ASSUME NEW op \in Ops
    PROVE  /\ op.op \in {"publish", "rename", "save", "delete"}
           /\ op.title \in Title /\ op.settings \in Setting /\ op.task \in BOOLEAN
           /\ op.op = "rename" => op.title # ""
BY SessionMetadataAssumption DEF Ops, Publishes, Renames, Saves, Deletions

\* What a request makes of a row is a row.
LEMMA AppliedIsRow ==
    ASSUME NEW op \in Ops, NEW meta \in [title : Title, data : Nat], NEW copy \in MetaRows
    PROVE  Applied(op, meta, copy) \in MetaRows
<1> DEFINE new == Applied(op, meta, copy)
<1>0. op.op \in {"publish", "rename", "save", "delete"} /\ op.settings \in Setting /\ op.task \in BOOLEAN
  BY OpTypes
<1>1. CASE op.op = "publish"
  <2>1. new = [copy EXCEPT !.exists = TRUE, !.title = meta.title, !.data = meta.data, !.task = op.task,
                           !.state = "running"]
    BY <1>1 DEF Applied
  <2>2. meta.title \in Title /\ meta.data \in Nat
    OBVIOUS
  <2>3. QED BY <1>0, <2>1, <2>2 DEF MetaRows
<1>2. CASE op.op = "rename"
  BY <1>0, <1>2 DEF Applied, MetaRows
<1>3. CASE op.op = "save"
  BY <1>0, <1>3 DEF Applied, MetaRows
<1>4. CASE op.op = "delete"
  <2>1. new = [copy EXCEPT !.exists = TRUE, !.deleted = TRUE,
                           !.state = IF copy.deleted THEN @ ELSE "deleted"]
    BY <1>4 DEF Applied
  <2>2. QED BY <2>1 DEF MetaRows
<1>5. QED BY <1>0, <1>1, <1>2, <1>3, <1>4

\* Only the columns that differ are written; the others stay as they are now.
LEMMA WrittenColumns ==
    ASSUME NEW w, NEW new \in MetaRows, request[w].copy \in MetaRows, stored \in MetaRows
    PROVE  /\ Written(w, new) \in MetaRows
           /\ \A c \in MetaColumns :
                 Written(w, new)[c] = IF new[c] # request[w].copy[c] THEN new[c] ELSE stored[c]
BY DEF Written, MetaRows, MetaColumns

\* The request of a handler that is not idle.
LEMMA RequestTypes ==
    ASSUME MetaTypeOK, NEW w \in Handler, Busy(w)
    PROVE  request[w] \in [at : {"find", "write"}, op : Ops, meta : [title : Title, data : Nat], copy : MetaRows]
BY DEF MetaTypeOK, Busy, MetaRequests, IdleRequest

LEMMA MetaInitIInv == MetaInit => MetaIInv
<1> SUFFICES ASSUME MetaInit PROVE MetaIInv
  OBVIOUS
<1>1. NoRow \in MetaRows
  BY SessionMetadataAssumption DEF NoRow, MetaRows
<1>2. MetaTypeOK
  BY <1>1, SessionMetadataAssumption DEF MetaInit, MetaTypeOK, MetaRequests
<1>3. \A w \in Handler : ~Busy(w)
  BY DEF MetaInit, IdleRequest, Busy
<1>4. \A w \in Handler : ~Titles(w)
  BY <1>3 DEF Busy, Titles
<1>5. Behind /\ Gone
  BY <1>3 DEF MetaInit, Behind, Gone
<1>6. Titled
  BY <1>4 DEF MetaInit, Titled, Lone
<1>7. Settled
  BY DEF MetaInit, Settled, NoRow
<1>8. QED BY <1>2, <1>5, <1>6, <1>7 DEF MetaIInv

\* A request begins with what the row says now.
LEMMA BeginKeeps ==
    ASSUME MetaIInv, NEW w \in Handler, NEW op \in Ops, BeginRequest(w, op)
    PROVE  MetaIInv'
<1> DEFINE r == [at |-> "find", op |-> op, meta |-> Metadata(op, stored), copy |-> stored]
<1>0. MetaTypeOK /\ Behind /\ Gone /\ Titled /\ Settled
  BY DEF MetaIInv
<1>1. /\ request[w].at = "idle" /\ writes' = writes + 1
      /\ op.op = "delete" => ~live
      /\ request' = [request EXCEPT ![w] = r]
      /\ overlapped' = (overlapped \/ (op.op \in {"publish", "rename"} /\ \E v \in Handler : Titles(v)))
      /\ UNCHANGED <<stored, live, savedSettings, named, gone>>
  BY DEF BeginRequest, Become
<1>2. /\ op.op \in {"publish", "rename", "save", "delete"} /\ op.title \in Title
      /\ op.op = "rename" => op.title # ""
  BY OpTypes
<1>3. stored \in MetaRows /\ writes \in Nat /\ request \in [Handler -> MetaRequests]
  BY <1>0 DEF MetaTypeOK
<1>4. /\ Metadata(op, stored) \in [title : Title, data : Nat]
      /\ op.op \in {"publish", "rename"} =>
           Metadata(op, stored).title = IF op.title = "" THEN stored.title ELSE op.title
  BY <1>2, <1>3 DEF Metadata, Kept, MetaRows
<1>5. r \in MetaRequests /\ request'[w] = r /\ \A v \in Handler \ {w} : request'[v] = request[v]
  BY <1>1, <1>3, <1>4 DEF MetaRequests
<1>6. MetaTypeOK'
  BY <1>0, <1>1, <1>5 DEF MetaTypeOK
<1>7. \A v \in Handler : /\ v # w => Busy(v)' = Busy(v) /\ Titles(v)' = Titles(v)
                         /\ v = w => ~Titles(v) /\ (Titles(v)' => op.op \in {"publish", "rename"})
  BY <1>1, <1>5 DEF Busy, Titles
<1>8. Behind'
  BY <1>0, <1>1, <1>5, <1>7 DEF Behind
<1>9. Gone'
  BY <1>0, <1>1, <1>5, <1>7 DEF Gone
<1>10. Titled'
  <2> SUFFICES ASSUME ~overlapped'
               PROVE  Lone' /\ (\A v \in Handler : Titles(v)' => Holds(v)') /\ (named' => stored'.title # "")
    BY DEF Titled
  <2>1. ~overlapped /\ ~(op.op \in {"publish", "rename"} /\ \E v \in Handler : Titles(v))
    BY <1>1
  <2>2. Lone /\ (\A v \in Handler : Titles(v) => Holds(v)) /\ (named => stored.title # "")
    BY <1>0, <2>1 DEF Titled
  <2>3. Lone'
    BY <1>7, <2>1, <2>2 DEF Lone
  <2>4. ASSUME NEW v \in Handler, Titles(v)' PROVE Holds(v)'
    <3>1. CASE v = w
      <4>1. /\ r.copy = stored /\ r.meta = Metadata(op, stored) /\ r.op = op
            /\ op.op \in {"publish", "rename"}
        BY <1>7, <2>4, <3>1
      <4>2. request'[v] = r /\ stored' = stored
        BY <1>1, <1>5, <3>1
      <4>3. r.copy.title = stored.title
        BY <4>1
      <4>4. r.meta.title = IF r.op.title = "" THEN stored.title ELSE r.op.title
        BY <1>4, <4>1
      <4>5. QED BY <4>2, <4>3, <4>4 DEF Holds
    <3>2. CASE v # w
      <4>1. Holds(v) /\ request'[v] = request[v] /\ stored' = stored
        BY <1>1, <1>5, <1>7, <2>2, <2>4, <3>2
      <4>2. QED BY <4>1 DEF Holds
    <3>3. QED BY <3>1, <3>2
  <2>5. QED BY <1>1, <2>2, <2>3, <2>4
<1>11. QED BY <1>0, <1>1, <1>6, <1>8, <1>9, <1>10 DEF MetaIInv, Settled

\* Steps that move a request and leave the row and its history alone: a copy is the one
\* it was or the row.
LEMMA CopyKeeps ==
    ASSUME MetaIInv, NEW w \in Handler, Busy(w), Find(w) \/ (Conflict(w) /\ request[w].op.op # "delete")
    PROVE  MetaIInv'
<1>0. MetaTypeOK /\ Behind /\ Gone /\ Titled /\ Settled
  BY DEF MetaIInv
<1>1. PICK at \in {"find", "write"}, copy \in {request[w].copy, stored} :
         request' = [request EXCEPT ![w] = [request[w] EXCEPT !.at = at, !.copy = copy]]
  <2>1. request[w] = [request[w] EXCEPT !.at = request[w].at] /\ request[w].at \in {"find", "write"}
    BY <1>0, RequestTypes
  <2>2. CASE Find(w)
    BY <2>2 DEF Find, Become
  <2>3. CASE Conflict(w) /\ request[w].op.op # "delete"
    <3>1. request' = [request EXCEPT ![w] = [request[w] EXCEPT !.copy = stored]]
      BY <2>3 DEF Conflict, Become
    <3>2. [request[w] EXCEPT !.copy = stored] = [request[w] EXCEPT !.at = request[w].at, !.copy = stored]
      BY <1>0, RequestTypes
    <3>3. QED BY <2>1, <3>1, <3>2
  <2>4. QED BY <2>2, <2>3
<1>2. UNCHANGED <<stored, live, writes, savedSettings, named, gone, overlapped>>
  BY DEF Find, Conflict
<1>3. request[w] \in [at : {"find", "write"}, op : Ops, meta : [title : Title, data : Nat], copy : MetaRows]
  BY <1>0, RequestTypes
<1>4. /\ request'[w] = [request[w] EXCEPT !.at = at, !.copy = copy]
      /\ \A v \in Handler \ {w} : request'[v] = request[v]
  BY <1>0, <1>1 DEF MetaTypeOK
<1>5. /\ request'[w] \in [at : {"find", "write"}, op : Ops, meta : [title : Title, data : Nat], copy : MetaRows]
      /\ request'[w].op = request[w].op /\ request'[w].meta = request[w].meta
      /\ request'[w].copy \in {request[w].copy, stored}
  BY <1>0, <1>3, <1>4 DEF MetaTypeOK
<1>6. MetaTypeOK'
  BY <1>0, <1>1, <1>2, <1>5 DEF MetaTypeOK, MetaRequests
<1>7. \A v \in Handler : Busy(v)' = Busy(v) /\ Titles(v)' = Titles(v)
  BY <1>3, <1>4, <1>5 DEF Busy, Titles
<1>8. Behind' /\ Gone'
  <2>1. ASSUME NEW v \in Handler, Busy(v)', request'[v].copy.deleted PROVE stored'.deleted
    <3>1. Busy(v) /\ (request[v].copy.deleted => stored.deleted)
      BY <1>0, <1>7, <2>1 DEF Behind
    <3>2. request'[v].copy \in {request[v].copy, stored}
      BY <1>4, <1>5
    <3>3. QED BY <1>2, <2>1, <3>1, <3>2
  <2>2. ASSUME NEW v \in Handler, Busy(v)', request'[v].op.op = "delete" PROVE ~live'
    <3>1. request'[v].op = request[v].op /\ Busy(v)
      BY <1>4, <1>5, <1>7, <2>2
    <3>2. QED BY <1>0, <1>2, <2>2, <3>1 DEF Gone
  <2>3. gone' => stored'.deleted /\ ~live'
    BY <1>0, <1>2 DEF Gone
  <2>4. QED BY <2>1, <2>2, <2>3 DEF Behind, Gone
<1>9. Titled'
  <2>1. ASSUME ~overlapped, NEW v \in Handler, Titles(v)' PROVE Holds(v)'
    <3>1. Titles(v) /\ Holds(v)
      BY <1>0, <1>7, <2>1 DEF Titled
    <3>2. /\ request'[v].op = request[v].op /\ request'[v].meta = request[v].meta
          /\ request'[v].copy \in {request[v].copy, stored}
      BY <1>4, <1>5
    <3>3. QED BY <1>2, <3>1, <3>2 DEF Holds
  <2>2. ~overlapped => Lone'
    BY <1>0, <1>7 DEF Titled, Lone
  <2>3. QED BY <1>0, <1>2, <2>1, <2>2 DEF Titled
<1>10. QED BY <1>0, <1>2, <1>6, <1>8, <1>9 DEF MetaIInv, Settled

\* A request that ends without a write.
LEMMA FailKeeps ==
    ASSUME MetaIInv, NEW w \in Handler, Busy(w), Conflict(w), request[w].op.op = "delete"
    PROVE  MetaIInv'
<1>0. MetaTypeOK /\ Behind /\ Gone /\ Titled /\ Settled
  BY DEF MetaIInv
<1>1. /\ request' = [request EXCEPT ![w] = IdleRequest]
      /\ UNCHANGED <<stored, live, writes, savedSettings, named, gone, overlapped>>
  BY DEF Conflict, Become
<1>2. request'[w] = IdleRequest /\ \A v \in Handler \ {w} : request'[v] = request[v]
  BY <1>0, <1>1 DEF MetaTypeOK
<1>3. /\ ~Busy(w)' /\ ~Titles(w)'
      /\ \A v \in Handler \ {w} : Busy(v)' = Busy(v) /\ Titles(v)' = Titles(v)
  BY <1>2 DEF Busy, Titles, IdleRequest
<1>4. MetaTypeOK'
  BY <1>0, <1>1 DEF MetaTypeOK, MetaRequests
<1>5. Behind' /\ Gone'
  BY <1>0, <1>1, <1>2, <1>3 DEF Behind, Gone
<1>6. Titled'
  BY <1>0, <1>1, <1>2, <1>3 DEF Titled, Lone, Holds
<1>7. QED BY <1>0, <1>1, <1>4, <1>5, <1>6 DEF MetaIInv, Settled

\* A write: the columns that differ from the copy, and the history of what it says.
LEMMA WriteKeeps ==
    ASSUME MetaIInv, NEW w \in Handler, WriteRow(w)
    PROVE  MetaIInv'
<1> DEFINE q == request[w]
           new == Applied(q.op, q.meta, q.copy)
<1>0. MetaTypeOK /\ Behind /\ Gone /\ Titled /\ Settled
  BY DEF MetaIInv
<1>1. /\ q.at = "write" /\ stored' = Written(w, new)
      /\ request' = [request EXCEPT ![w] = IdleRequest]
      /\ savedSettings' = IF q.op.op = "save" /\ q.op.settings # q.copy.settings THEN q.op.settings ELSE savedSettings
      /\ named' = (named \/ (q.op.op \in {"publish", "rename"} /\ q.op.title # ""))
      /\ gone' = (gone \/ q.op.op = "delete")
      /\ UNCHANGED <<live, writes, overlapped>>
  BY DEF WriteRow, Done, Become
<1>2. Busy(w)
  BY <1>1 DEF Busy
<1>3. q \in [at : {"find", "write"}, op : Ops, meta : [title : Title, data : Nat], copy : MetaRows]
  BY <1>0, <1>2, RequestTypes
<1>4. q.op \in Ops /\ q.meta \in [title : Title, data : Nat] /\ q.copy \in MetaRows /\ stored \in MetaRows
  BY <1>0, <1>3 DEF MetaTypeOK
<1>5. /\ q.op.op \in {"publish", "rename", "save", "delete"}
      /\ q.op.title \in Title /\ q.op.settings \in Setting
      /\ q.op.op = "rename" => q.op.title # ""
  BY <1>4, OpTypes
<1>6. new \in MetaRows
  BY <1>4, AppliedIsRow
<1>7. /\ stored' \in MetaRows
      /\ \A c \in MetaColumns : stored'[c] = IF new[c] # q.copy[c] THEN new[c] ELSE stored[c]
  <2>1. \A x \in MetaRows : /\ Written(w, x) \in MetaRows
                        /\ \A c \in MetaColumns :
                              Written(w, x)[c] = IF x[c] # request[w].copy[c] THEN x[c] ELSE stored[c]
    BY <1>4, WrittenColumns
  <2>2. QED BY <1>1, <1>6, <2>1
<1>8. /\ stored'.title = IF new.title # q.copy.title THEN new.title ELSE stored.title
      /\ stored'.settings = IF new.settings # q.copy.settings THEN new.settings ELSE stored.settings
      /\ stored'.deleted = IF new.deleted # q.copy.deleted THEN new.deleted ELSE stored.deleted
  BY <1>7 DEF MetaColumns
<1>9. /\ new.title = IF q.op.op \in {"publish", "rename"} THEN q.meta.title ELSE q.copy.title
      /\ new.settings = IF q.op.op = "save" THEN q.op.settings ELSE q.copy.settings
      /\ new.deleted = (q.op.op = "delete" \/ q.copy.deleted)
  BY <1>4, <1>5 DEF Applied, MetaRows
<1>10. request'[w] = IdleRequest /\ \A v \in Handler \ {w} : request'[v] = request[v]
  BY <1>0, <1>1 DEF MetaTypeOK
<1>11. /\ ~Busy(w)' /\ ~Titles(w)'
       /\ \A v \in Handler \ {w} : Busy(v)' = Busy(v) /\ Titles(v)' = Titles(v)
  BY <1>10 DEF Busy, Titles, IdleRequest
<1>12. MetaTypeOK'
  <2>1. request' \in [Handler -> MetaRequests]
    BY <1>0, <1>1 DEF MetaTypeOK, MetaRequests
  <2>2. savedSettings' \in Setting /\ named' \in BOOLEAN /\ gone' \in BOOLEAN
    BY <1>0, <1>1, <1>5 DEF MetaTypeOK
  <2>3. live' \in BOOLEAN /\ writes' \in Nat /\ overlapped' \in BOOLEAN
    BY <1>0, <1>1 DEF MetaTypeOK
  <2>4. QED BY <1>7, <2>1, <2>2, <2>3 DEF MetaTypeOK
<1>13. stored.deleted => stored'.deleted
  BY <1>4, <1>8, <1>9 DEF MetaRows
<1>14. Behind'
  BY <1>0, <1>10, <1>11, <1>13 DEF Behind
<1>15. Gone'
  <2>1. q.op.op = "delete" => ~live /\ stored'.deleted
    BY <1>0, <1>2, <1>4, <1>8, <1>9 DEF Gone, Behind, MetaRows
  <2>2. gone' => stored'.deleted /\ ~live'
    BY <1>0, <1>1, <1>13, <2>1 DEF Gone
  <2>3. \A v \in Handler : Busy(v)' /\ request'[v].op.op = "delete" => ~live'
    BY <1>0, <1>1, <1>10, <1>11 DEF Gone
  <2>4. QED BY <2>2, <2>3 DEF Gone
<1>16. Titled'
  <2> SUFFICES ASSUME ~overlapped
               PROVE  Lone' /\ (\A v \in Handler : Titles(v)' => Holds(v)') /\ (named' => stored'.title # "")
    BY <1>1 DEF Titled
  <2>1. Lone /\ (\A v \in Handler : Titles(v) => Holds(v)) /\ (named => stored.title # "")
    BY <1>0 DEF Titled
  <2>2. Lone'
    BY <1>11, <2>1 DEF Lone
  <2>3. CASE q.op.op \in {"publish", "rename"}
    <3>1. Titles(w) /\ Holds(w)
      BY <1>2, <2>1, <2>3 DEF Busy, Titles
    <3>2. \A v \in Handler : ~Titles(v)'
      BY <1>11, <2>1, <3>1 DEF Lone
    <3>3. stored'.title = IF q.op.title = "" THEN stored.title ELSE q.op.title
      BY <1>8, <1>9, <2>3, <3>1 DEF Holds
    <3>4. QED BY <1>1, <2>1, <2>2, <3>2, <3>3
  <2>4. CASE q.op.op \notin {"publish", "rename"}
    <3>1. stored'.title = stored.title /\ named' = named
      BY <1>0, <1>1, <1>8, <1>9, <2>4 DEF MetaTypeOK
    <3>2. ASSUME NEW v \in Handler, Titles(v)' PROVE Holds(v)'
      <4>1. v # w /\ Titles(v) /\ Holds(v) /\ request'[v] = request[v]
        BY <1>10, <1>11, <2>1, <3>2
      <4>2. QED BY <3>1, <4>1 DEF Holds
    <3>3. QED BY <2>1, <2>2, <3>1, <3>2
  <2>5. QED BY <2>3, <2>4
<1>17. Settled'
  BY <1>0, <1>1, <1>5, <1>8, <1>9 DEF Settled
<1>18. QED BY <1>12, <1>14, <1>15, <1>16, <1>17 DEF MetaIInv

LEMMA RuntimeKeeps == ASSUME MetaIInv, RuntimeDeletes PROVE MetaIInv'
<1>0. MetaTypeOK /\ Behind /\ Gone /\ Titled /\ Settled
  BY DEF MetaIInv
<1>1. ~live' /\ UNCHANGED <<stored, request, writes, savedSettings, named, gone, overlapped>> /\ live' = FALSE
  BY DEF RuntimeDeletes
<1>2. MetaTypeOK'
  BY <1>0, <1>1 DEF MetaTypeOK
<1>3. Behind' /\ Gone'
  BY <1>0, <1>1 DEF Behind, Gone, Busy
<1>4. Titled'
  BY <1>0, <1>1 DEF Titled, Lone, Titles, Holds
<1>5. QED BY <1>0, <1>1, <1>2, <1>3, <1>4 DEF MetaIInv, Settled

LEMMA MetaNextKeeps == MetaIInv /\ [MetaNext]_metaVars => MetaIInv'
<1> SUFFICES ASSUME MetaIInv, [MetaNext]_metaVars PROVE MetaIInv'
  OBVIOUS
<1>1. CASE MetaNext
  <2>1. CASE RuntimeDeletes
    BY <2>1, RuntimeKeeps
  <2>2. ASSUME NEW w \in Handler, NEW op \in Ops, BeginRequest(w, op) PROVE MetaIInv'
    BY <2>2, BeginKeeps
  <2>3. ASSUME NEW w \in Handler, WriteRow(w) PROVE MetaIInv'
    BY <2>3, WriteKeeps
  <2>4. ASSUME NEW w \in Handler, Find(w) PROVE MetaIInv'
    <3>1. Busy(w)
      BY <2>4 DEF Find, Busy
    <3>2. QED BY <2>4, <3>1, CopyKeeps
  <2>5. ASSUME NEW w \in Handler, Conflict(w) PROVE MetaIInv'
    <3>1. Busy(w)
      BY <2>5 DEF Conflict, Busy
    <3>2. QED BY <2>5, <3>1, CopyKeeps, FailKeeps
  <2>6. QED BY <1>1, <2>1, <2>2, <2>3, <2>4, <2>5 DEF MetaNext
<1>2. CASE UNCHANGED metaVars
  <2>1. UNCHANGED <<stored, live, request, writes, savedSettings, named, gone, overlapped>>
    BY <1>2 DEF metaVars
  <2>2. QED BY <2>1 DEF MetaIInv, MetaTypeOK, Behind, Gone, Titled, Lone, Holds, Titles, Busy, Settled
<1>3. QED BY <1>1, <1>2

LEMMA MetaGivesRowKept == MetaIInv => RowKept
<1> SUFFICES ASSUME MetaIInv PROVE RowKept
  OBVIOUS
<1>1. Gone /\ Titled /\ Settled /\ stored.title \in Title
  BY DEF MetaIInv, MetaTypeOK, MetaRows
<1>2. gone => stored.deleted /\ ~InPanel
  BY <1>1 DEF Gone, InPanel, OnRecord
<1>3. ~overlapped /\ named => stored.title # ""
  BY <1>1 DEF Titled
<1>4. ~overlapped /\ named /\ InPanel /\ OnRecord => PanelName # "untitled"
  BY <1>1, <1>3, SessionMetadataAssumption DEF PanelName, OnRecord
<1>5. QED BY <1>1, <1>2, <1>3, <1>4 DEF RowKept, Settled

\* MetaRequests of any number, on any number of threads: what RowKept says of the row of a
\* session holds throughout.
THEOREM RowIsKept == MetaSpec => []RowKept
<1>1. MetaInit => MetaIInv
  BY MetaInitIInv
<1>2. MetaIInv /\ [MetaNext]_metaVars => MetaIInv'
  BY MetaNextKeeps
<1>3. MetaIInv => RowKept
  BY MetaGivesRowKept
<1>4. QED BY <1>1, <1>2, <1>3, PTL DEF MetaSpec

-----------------------------------------------------------------------------
(* Shared sessions.  A read under way began at most the patience ago;      *)
(* what a viewer is about to be shown is no older than the cache and one   *)
(* read can make it; who waits, waits for somebody who reads.              *)

Scopes     == {"members", "anyone"}
Messages   == {Projected(n) : n \in Int}
FileSets   == {FileIds(msgs) : msgs \in Messages}
AnswerSet  == [status : {"none", "stopped", "unreachable", "missing", "failed"}]
                \cup [status : {"ok"}, messages : Messages, files : FileSets, read : Nat]
ViewerRow  == [at : {"idle", "reading", "answered", "waiting", "loaded", "file", "done"}, token : 0..MaxTokens,
               since : Nat, awaits : Viewer \cup {Nobody}, answer : AnswerSet, shared : Scopes]
Link       == [token : 0..MaxTokens, scope : Scopes]
Entry      == [until : Nat, answer : AnswerSet]

ShareTypeOK ==
    /\ share \in Link /\ tokens \in 0..MaxTokens /\ share.token <= tokens
    /\ assistant \in {"running", "stopped", "deleted"} /\ said \in Int /\ instant \in Nat
    /\ asks \in [Owner -> [token : -1..MaxTokens, scope : Scopes]]
    /\ cached \in [Token -> Entry]
    /\ inflight \in [Token -> Viewer \cup {Nobody}]
    /\ viewer \in [Viewer -> ViewerRow]

Ok(answer)   == answer.status = "ok"
Under(r)     == r.at \in {"reading", "answered"}
Refreshing(v) == v \in Refreshes \cap Insiders

\* A read under way began at most the Portal's patience ago, and its answer is no older than it.
ReadIsRecent(r) ==
    Under(r) =>
        /\ r.since <= instant /\ instant <= r.since + Patience
        /\ r.at = "answered" /\ Ok(r.answer) => r.since <= r.answer.read /\ r.answer.read <= instant
\* What is about to be shown is no older than the cache and one read may make it.
LoadIsRecent(v, r) ==
    r.at = "loaded" /\ Ok(r.answer) =>
        /\ instant < r.answer.read + TTL + Patience
        /\ Refreshing(v) => r.answer.read >= r.since
\* A member's Refresh reads by itself; past the gate are insiders, and visitors while the
\* link was open to anyone.
ViewerHolds(v, r) ==
    /\ ReadIsRecent(r) /\ LoadIsRecent(v, r)
    /\ r.at = "waiting" => ~Refreshing(v)
    /\ r.at \notin {"idle", "done"} => v \in Insiders \/ r.shared = "anyone"
ViewersHold == \A v \in Viewer : ViewerHolds(v, viewer[v])

\* A transcript kept expires before the cache and one read have made it too old.
CacheIsRecent ==
    \A t \in Token : Ok(cached[t].answer) => cached[t].until <= cached[t].answer.read + Patience + TTL

\* Whoever waits for a read waits for one that is under way: the safety half of ViewersAnswered.
SomeoneReads ==
    /\ \A t \in Token : inflight[t] # Nobody => Under(viewer[inflight[t]])
    /\ \A v \in Viewer : viewer[v].at = "waiting" =>
          viewer[v].awaits \in Viewer /\ Under(viewer[viewer[v].awaits])

ShareIInv == ShareTypeOK /\ ViewersHold /\ CacheIsRecent /\ SomeoneReads

ShareSpec == ShareInit /\ [][ShareNext]_shareVars

-----------------------------------------------------------------------------
\* Where the requests of owners, members and assistants change nothing a viewer reads.
LEMMA BesideViewers ==
    ASSUME ShareIInv, ShareTypeOK', CacheIsRecent', UNCHANGED <<instant, inflight, viewer>>
    PROVE  ShareIInv'
BY DEF ShareIInv, ViewersHold, ViewerHolds, ReadIsRecent, LoadIsRecent, SomeoneReads

LEMMA OwnersAsk ==
    ASSUME ShareIInv, NEW o \in Owner, WriteShare(o) \/ \E scope \in Scopes : AskShare(o, scope)
    PROVE  ShareIInv'
<1>1. ShareTypeOK'
  <2>1. CASE WriteShare(o)
    BY <2>1, SharesAssumption DEF WriteShare, ShareIInv, ShareTypeOK, Link, NoAsk, Scopes
  <2>2. CASE \E scope \in Scopes : AskShare(o, scope)
    BY <2>2, SharesAssumption DEF AskShare, ShareIInv, ShareTypeOK, Link, NoAsk
  <2>3. QED
    BY <2>1, <2>2
<1>2. UNCHANGED <<instant, inflight, viewer, cached>>
  BY DEF WriteShare, AskShare
<1>3. QED
  BY <1>1, <1>2, BesideViewers DEF CacheIsRecent, ShareIInv

\* An entry is dropped or stays.
LEMMA Drops ==
    ASSUME ShareIInv
    PROVE  /\ Dropped \in [Token -> Entry]
           /\ \A t \in Token : Dropped[t] \in {cached[t], NoEntry}
BY DEF Dropped, NoEntry, ShareIInv, ShareTypeOK, Entry, AnswerSet

LEMMA LinksGo ==
    ASSUME ShareIInv, Revoke \/ DeleteSession \/ DeleteAgent \/ StopAssistant \/ Say
    PROVE  ShareIInv'
<1>1. cached' \in [Token -> Entry] /\ \A t \in Token : cached'[t] \in {cached[t], NoEntry}
  BY Drops DEF Revoke, DeleteSession, DeleteAgent, StopAssistant, Say, ShareIInv, ShareTypeOK
<1>2. UNCHANGED <<instant, inflight, viewer, tokens, asks>>
  BY DEF Revoke, DeleteSession, DeleteAgent, StopAssistant, Say
<1>3. /\ share' \in {share, NoShare} /\ assistant' \in {"running", "stopped", "deleted"}
      /\ said' \in Int
  BY DEF Revoke, DeleteSession, DeleteAgent, StopAssistant, Say, ShareIInv, ShareTypeOK
<1>4. ShareTypeOK'
  BY <1>1, <1>2, <1>3, SharesAssumption DEF ShareIInv, ShareTypeOK, NoShare, Link, Scopes
<1>5. CacheIsRecent'
  BY <1>1 DEF CacheIsRecent, ShareIInv, NoEntry, Ok
<1>6. QED
  BY <1>2, <1>4, <1>5, BesideViewers

-----------------------------------------------------------------------------
\* A step of one viewer's request that ends no read.
LEMMA OneGoesOn ==
    ASSUME ShareIInv, NEW v \in Viewer, NEW r \in ViewerRow,
           UNCHANGED <<share, tokens, asks, assistant, said, instant, cached>>,
           viewer' = [viewer EXCEPT ![v] = r],
           inflight' = inflight \/ (Under(r) /\ \E t \in Token : inflight' = [inflight EXCEPT ![t] = v]),
           Under(viewer[v]) => Under(r),
           ViewerHolds(v, r),
           r.at = "waiting" => r.awaits \in Viewer /\ Under(viewer[r.awaits])
    PROVE  ShareIInv'
<1>1. ShareTypeOK'
  BY DEF ShareIInv, ShareTypeOK
<1>2. \A w \in Viewer : viewer'[w] = IF w = v THEN r ELSE viewer[w]
  BY DEF ShareIInv, ShareTypeOK
<1>3. ViewersHold'
  BY <1>2 DEF ShareIInv, ViewersHold, ViewerHolds, ReadIsRecent, LoadIsRecent
<1>4. \A w \in Viewer : Under(viewer[w]) => Under(viewer'[w])
  BY <1>2
<1>5. \A t \in Token : inflight'[t] # Nobody => inflight'[t] \in Viewer /\ Under(viewer'[inflight'[t]])
  BY <1>2, <1>4 DEF ShareIInv, ShareTypeOK, SomeoneReads
<1>6. \A w \in Viewer : viewer'[w].at = "waiting" => viewer'[w].awaits \in Viewer /\ Under(viewer'[viewer'[w].awaits])
  BY <1>2, <1>4 DEF ShareIInv, SomeoneReads
<1>7. SomeoneReads'
  BY <1>5, <1>6 DEF SomeoneReads, Under
<1>8. QED
  BY <1>1, <1>3, <1>7 DEF ShareIInv, CacheIsRecent

LEMMA EmptyAnswers ==
    /\ \A at \in {"idle", "done"} : Request(at) \in ViewerRow
    /\ \A why \in {"stopped", "unreachable", "missing", "failed"} : Unavailable(why) \in AnswerSet /\ ~Ok(Unavailable(why))
    /\ \A at \in {"idle", "done"} : ~Ok(Request(at).answer) /\ Request(at).at = at
BY SharesAssumption DEF Request, Unavailable, ViewerRow, AnswerSet, Scopes, Ok

LEMMA ViewerEnds ==
    ASSUME ShareIInv, NEW v \in Viewer, Denied(v) \/ ServeFile(v) \/ (viewer[v].at = "loaded" /\ Serve(v))
    PROVE  ShareIInv'
<1> DEFINE r == Request("done")
<1>1. r \in ViewerRow /\ ViewerHolds(v, r) /\ r.at = "done"
  BY EmptyAnswers DEF ViewerHolds, ReadIsRecent, LoadIsRecent, Under
<1>2. CASE viewer' = Ends(v)
  <2>1. viewer' = [viewer EXCEPT ![v] = r]
    BY <1>2 DEF Ends
  <2>2. ~Under(viewer[v]) /\ inflight' = inflight /\ UNCHANGED <<share, tokens, asks, assistant, said, instant, cached>>
    BY <1>2 DEF Denied, ServeFile, Serve, Under
  <2>3. QED
    BY <1>1, <2>1, <2>2, OneGoesOn
<1>3. CASE viewer[v].at = "loaded" /\ viewer' = [viewer EXCEPT ![v].at = "file"] /\ Serve(v)
  <2> DEFINE q == [viewer[v] EXCEPT !.at = "file"]
  <2>1. viewer' = [viewer EXCEPT ![v] = q] /\ q \in ViewerRow /\ viewer[v] \in ViewerRow
    BY <1>3 DEF ShareIInv, ShareTypeOK, ViewerRow
  <2>2. ViewerHolds(v, q)
    BY <1>3, <2>1 DEF ShareIInv, ViewersHold, ViewerHolds, ReadIsRecent, LoadIsRecent, Under, ViewerRow
  <2>3. ~Under(viewer[v]) /\ q.at = "file" /\ inflight' = inflight /\ UNCHANGED <<share, tokens, asks, assistant, said, instant, cached>>
    BY <1>3, <2>1 DEF Serve, Under, ViewerRow
  <2>4. PICK row \in ViewerRow : row = q
    BY <2>1
  <2>5. QED
    BY <2>1, <2>2, <2>3, <2>4, OneGoesOn
<1>4. QED
  BY <1>2, <1>3 DEF Denied, ServeFile, Serve

\* The transcript of now is one, read now.
LEMMA TranscriptRead ==
    ASSUME ShareIInv
    PROVE  Transcript(said) \in AnswerSet /\ Ok(Transcript(said)) /\ Transcript(said).read = instant
BY DEF Transcript, AnswerSet, Ok, Messages, FileSets, ShareIInv, ShareTypeOK

LEMMA AnswerComes ==
    ASSUME ShareIInv, NEW v \in Viewer, RuntimeAnswers(v)
    PROVE  ShareIInv'
<1>1. PICK a \in AnswerSet : /\ viewer' = [viewer EXCEPT ![v].at = "answered", ![v].answer = a]
                             /\ Ok(a) => a.read = instant
  BY TranscriptRead, EmptyAnswers DEF RuntimeAnswers
<1>2. PICK r \in ViewerRow : r = [viewer[v] EXCEPT !.at = "answered", !.answer = a]
  BY DEF ShareIInv, ShareTypeOK, ViewerRow
<1>3. /\ viewer' = [viewer EXCEPT ![v] = r] /\ viewer[v] \in ViewerRow
      /\ r.at = "answered" /\ r.answer = a /\ r.since = viewer[v].since /\ r.shared = viewer[v].shared
  BY <1>1, <1>2 DEF ShareIInv, ShareTypeOK, ViewerRow
<1>4. viewer[v].at = "reading" /\ inflight' = inflight /\ UNCHANGED <<share, tokens, asks, assistant, said, instant, cached>>
  BY DEF RuntimeAnswers
<1>5. ViewerHolds(v, viewer[v]) /\ instant \in Nat /\ Patience \in Nat
  BY SharesAssumption DEF ShareIInv, ViewersHold, ShareTypeOK
<1>6. ViewerHolds(v, r)
  BY <1>1, <1>3, <1>4, <1>5 DEF ViewerHolds, ReadIsRecent, LoadIsRecent, Under, ViewerRow
<1>7. QED
  BY <1>3, <1>4, <1>6, OneGoesOn DEF Under

LEMMA LinkOpens ==
    ASSUME ShareIInv, NEW v \in Viewer, Open(v)
    PROVE  ShareIInv'
<1>1. PICK t \in Token : t = share.token
  BY SharesAssumption DEF Open, Token, ShareIInv, ShareTypeOK, Link
<1>2. PICK r \in ViewerRow : r = [viewer[v] EXCEPT !.token = t, !.shared = EffectiveScope]
  BY <1>1 DEF ShareIInv, ShareTypeOK, ViewerRow, EffectiveScope, Scopes, Link, Token
<1>3. /\ r.at = viewer[v].at /\ r.shared = EffectiveScope /\ viewer[v].at = "idle" /\ viewer[v] \in ViewerRow
      /\ v \in Insiders \/ r.shared = "anyone"
  BY <1>2 DEF Open, ShareIInv, ShareTypeOK, ViewerRow, MayOpen
<1>4. UNCHANGED <<share, tokens, asks, assistant, said, instant, cached>> /\ ~Under(viewer[v])
  BY <1>3 DEF Open, Under
<1>5. instant \in Nat /\ Patience \in Nat /\ TTL \in Nat /\ cached[t] \in Entry /\ inflight[t] \in Viewer \cup {Nobody}
  BY SharesAssumption DEF ShareIInv, ShareTypeOK
<1>6. CASE /\ inflight' = inflight
           /\ \E a \in AnswerSet :
                /\ viewer' = [viewer EXCEPT ![v] = [r EXCEPT !.at = "loaded", !.answer = a]]
                /\ Ok(a) => ~Refreshing(v) /\ Live(t) /\ a = cached[t].answer
  <2>1. PICK a \in AnswerSet : /\ viewer' = [viewer EXCEPT ![v] = [r EXCEPT !.at = "loaded", !.answer = a]]
                               /\ Ok(a) => ~Refreshing(v) /\ Live(t) /\ a = cached[t].answer
    BY <1>6
  <2>2. PICK q \in ViewerRow : q = [r EXCEPT !.at = "loaded", !.answer = a]
    BY DEF ViewerRow
  <2>3. q.at = "loaded" /\ q.answer = a /\ q.shared = r.shared
    BY <2>2 DEF ViewerRow
  <2>4. Ok(a) => instant < a.read + TTL + Patience /\ a.read \in Nat
    BY <2>1, <1>5 DEF ShareIInv, CacheIsRecent, Live, Ok, AnswerSet, Entry
  <2>5. ViewerHolds(v, q)
    BY <1>3, <2>1, <2>3, <2>4 DEF ViewerHolds, ReadIsRecent, LoadIsRecent, Under
  <2>6. QED
    BY <1>4, <1>6, <2>1, <2>2, <2>3, <2>5, OneGoesOn
<1>7. CASE /\ ~Refreshing(v) /\ inflight[t] # Nobody /\ inflight' = inflight
           /\ viewer' = [viewer EXCEPT ![v] = [r EXCEPT !.at = "waiting", !.awaits = inflight[t]]]
  <2>1. PICK q \in ViewerRow : q = [r EXCEPT !.at = "waiting", !.awaits = inflight[t]]
    BY <1>5 DEF ViewerRow
  <2>2. q.at = "waiting" /\ q.awaits = inflight[t] /\ q.shared = r.shared
    BY <2>1 DEF ViewerRow
  <2>3. ViewerHolds(v, q)
    BY <1>3, <1>7, <2>2 DEF ViewerHolds, ReadIsRecent, LoadIsRecent, Under
  <2>4. q.awaits \in Viewer /\ Under(viewer[q.awaits])
    BY <1>5, <1>7, <2>2 DEF ShareIInv, SomeoneReads
  <2>5. QED
    BY <1>4, <1>7, <2>1, <2>3, <2>4, OneGoesOn
<1>8. CASE /\ inflight' = [inflight EXCEPT ![t] = v]
           /\ viewer' = [viewer EXCEPT ![v] = [r EXCEPT !.at = "reading", !.since = instant]]
  <2>1. PICK q \in ViewerRow : q = [r EXCEPT !.at = "reading", !.since = instant]
    BY <1>5 DEF ViewerRow
  <2>2. q.at = "reading" /\ q.since = instant /\ q.shared = r.shared
    BY <2>1 DEF ViewerRow
  <2>3. ViewerHolds(v, q)
    BY <1>3, <1>5, <2>2 DEF ViewerHolds, ReadIsRecent, LoadIsRecent, Under
  <2>4. QED
    BY <1>4, <1>8, <2>1, <2>2, <2>3, OneGoesOn DEF Under
<1>9. \/ inflight' = inflight /\ viewer' = [viewer EXCEPT ![v] = [r EXCEPT !.at = "loaded", !.answer = Unavailable("stopped")]]
      \/ /\ ~Refreshing(v) /\ Live(t) /\ inflight' = inflight
         /\ viewer' = [viewer EXCEPT ![v] = [r EXCEPT !.at = "loaded", !.answer = cached[t].answer]]
      \/ /\ ~Refreshing(v) /\ inflight[t] # Nobody /\ inflight' = inflight
         /\ viewer' = [viewer EXCEPT ![v] = [r EXCEPT !.at = "waiting", !.awaits = inflight[t]]]
      \/ /\ inflight' = [inflight EXCEPT ![t] = v]
         /\ viewer' = [viewer EXCEPT ![v] = [r EXCEPT !.at = "reading", !.since = instant]]
  BY <1>1, <1>2 DEF Open, Refreshing
<1>10. QED
  BY <1>5, <1>6, <1>7, <1>8, <1>9, EmptyAnswers DEF Entry

-----------------------------------------------------------------------------
\* The end of a read: the one who read and those who waited for it get what came, no
\* older than the patience they had.
LEMMA ReadEnds ==
    ASSUME ShareIInv, NEW v \in Viewer, NEW a \in AnswerSet, Under(viewer[v]),
           Ok(a) => viewer[v].at = "answered" /\ a = viewer[v].answer,
           viewer' = Release(v, a), Landed(v),
           cached' \in [Token -> Entry], CacheIsRecent',
           UNCHANGED <<share, tokens, asks, assistant, said, instant>>
    PROVE  ShareIInv'
<1>1. /\ instant \in Nat /\ Patience \in Nat /\ TTL \in Nat \ {0} /\ Nobody \notin Viewer
      /\ viewer \in [Viewer -> ViewerRow] /\ inflight \in [Token -> Viewer \cup {Nobody}]
  BY SharesAssumption DEF ShareIInv, ShareTypeOK
<1>2. \A w \in Viewer : Since(w) \in Nat
  BY <1>1 DEF Since, ViewerRow
<1>3. \A w \in Viewer : IF w = v \/ (viewer[w].at = "waiting" /\ viewer[w].awaits = v)
                        THEN /\ viewer'[w] = [viewer[w] EXCEPT !.at = "loaded", !.answer = a, !.awaits = Nobody, !.since = Since(w)]
                             /\ viewer'[w] \in ViewerRow
                        ELSE viewer'[w] = viewer[w]
  BY <1>1, <1>2 DEF Release, ViewerRow
<1>4. viewer' \in [Viewer -> ViewerRow]
  BY <1>1, <1>3 DEF Release
<1>5. inflight' \in [Token -> Viewer \cup {Nobody}] /\ \A t \in Token : inflight'[t] = IF inflight[t] = v THEN Nobody ELSE inflight[t]
  BY <1>1 DEF Landed
<1>6. ShareTypeOK'
  BY <1>4, <1>5 DEF ShareIInv, ShareTypeOK
<1>7. Ok(a) => viewer[v].since <= a.read /\ a.read <= instant /\ instant <= viewer[v].since + Patience /\ a.read \in Nat /\ viewer[v].since \in Nat
  BY <1>1 DEF ShareIInv, ViewersHold, ViewerHolds, ReadIsRecent, Ok, AnswerSet, ViewerRow
<1>8. Ok(a) => instant < a.read + TTL + Patience
  BY <1>1, <1>7
<1>9. ASSUME NEW w \in Viewer
      PROVE  ViewerHolds(w, viewer[w])'
  <2>1. CASE w = v \/ (viewer[w].at = "waiting" /\ viewer[w].awaits = v)
    <3> viewer[w].at \notin {"idle", "done"}
      BY <2>1 DEF Under
    <3>1. /\ viewer'[w].at = "loaded" /\ viewer'[w].answer = a /\ viewer'[w].since = Since(w) /\ viewer'[w].shared = viewer[w].shared
      <4>1. viewer'[w] = [viewer[w] EXCEPT !.at = "loaded", !.answer = a, !.awaits = Nobody, !.since = Since(w)]
        BY <1>3, <2>1
      <4>2. viewer[w] \in ViewerRow
        BY <1>1
      <4>3. QED
        BY <4>1, <4>2 DEF ViewerRow
    <3>2. Refreshing(w) => w = v /\ Since(w) = viewer[v].since
      BY <2>1 DEF ShareIInv, ViewersHold, ViewerHolds, Refreshing, Since
    <3>3. w \in Insiders \/ viewer[w].shared = "anyone"
      BY <3>1 DEF ShareIInv, ViewersHold, ViewerHolds
    <3>4. QED
      BY <1>7, <1>8, <3>1, <3>2, <3>3 DEF ViewerHolds, ReadIsRecent, LoadIsRecent, Under
  <2>2. CASE ~(w = v \/ (viewer[w].at = "waiting" /\ viewer[w].awaits = v))
    <3>1. viewer'[w] = viewer[w]
      BY <1>3, <2>2
    <3>2. QED
      BY <3>1 DEF ShareIInv, ViewersHold, ViewerHolds, ReadIsRecent, LoadIsRecent
  <2>3. QED
    BY <2>1, <2>2
<1>10. ViewersHold'
  BY <1>9 DEF ViewersHold
<1>11. \A w \in Viewer : Under(viewer[w]) /\ w # v => Under(viewer'[w])
  BY <1>1, <1>3 DEF Under
<1>12. \A t \in Token : inflight'[t] # Nobody => Under(viewer'[inflight'[t]])
  BY <1>1, <1>5, <1>11 DEF ShareIInv, SomeoneReads
<1>13. ASSUME NEW w \in Viewer, viewer'[w].at = "waiting"
       PROVE  viewer'[w].awaits \in Viewer /\ Under(viewer'[viewer'[w].awaits])
  <2>1. CASE w = v \/ (viewer[w].at = "waiting" /\ viewer[w].awaits = v)
    <3>1. viewer'[w] = [viewer[w] EXCEPT !.at = "loaded", !.answer = a, !.awaits = Nobody, !.since = Since(w)]
      BY <1>3, <2>1
    <3>2. QED
      BY <1>1, <1>13, <3>1 DEF ViewerRow
  <2>2. CASE ~(w = v \/ (viewer[w].at = "waiting" /\ viewer[w].awaits = v))
    <3>1. viewer'[w] = viewer[w]
      BY <1>3, <2>2
    <3>2. QED
      BY <1>11, <1>13, <2>2, <3>1 DEF ShareIInv, SomeoneReads
  <2>3. QED
    BY <2>1, <2>2
<1>14. SomeoneReads'
  BY <1>12, <1>13 DEF SomeoneReads, Under
<1>15. QED
  BY <1>6, <1>10, <1>14 DEF ShareIInv

LEMMA ReadKept ==
    ASSUME ShareIInv, NEW v \in Viewer, Keep(v)
    PROVE  ShareIInv'
<1>1. PICK a \in AnswerSet : a = viewer[v].answer
  BY DEF ShareIInv, ShareTypeOK, ViewerRow
<1>2. /\ instant \in Nat /\ Patience \in Nat /\ TTL \in Nat /\ cached \in [Token -> Entry] /\ viewer[v] \in ViewerRow
  BY SharesAssumption DEF ShareIInv, ShareTypeOK
<1>3. /\ cached' = [t \in Token |-> IF t = viewer[v].token THEN [until |-> instant + TTL, answer |-> a]
                                    ELSE IF Live(t) THEN cached[t] ELSE NoEntry]
      /\ viewer[v].at = "answered"
      /\ viewer' = Release(v, a) /\ Landed(v) /\ UNCHANGED <<share, tokens, asks, assistant, said, instant>>
  BY <1>1 DEF Keep
<1>4. NoEntry \in Entry /\ ~Ok(NoEntry.answer)
  BY DEF NoEntry, Entry, AnswerSet, Ok
<1>5. cached' \in [Token -> Entry]
  BY <1>2, <1>3, <1>4 DEF Entry
<1>6. Ok(a) => instant <= a.read + Patience /\ a.read \in Nat
  BY <1>1, <1>2, <1>3 DEF ShareIInv, ViewersHold, ViewerHolds, ReadIsRecent, Under, Ok, AnswerSet, ViewerRow
<1>7. \A t \in Token : Ok(cached'[t].answer) => cached'[t].until <= cached'[t].answer.read + Patience + TTL
  BY <1>2, <1>3, <1>4, <1>6 DEF ShareIInv, CacheIsRecent
<1>8. CacheIsRecent'
  BY <1>7 DEF CacheIsRecent, Ok
<1>9. QED
  BY <1>1, <1>3, <1>5, <1>8, ReadEnds DEF Under

LEMMA ReadCancelled ==
    ASSUME ShareIInv, NEW v \in Viewer, Cancelled(v)
    PROVE  ShareIInv'
<1>1. PICK a \in AnswerSet : a = Unavailable("failed") /\ ~Ok(a)
  BY EmptyAnswers
<1>2. /\ Under(viewer[v]) /\ viewer' = Release(v, a) /\ Landed(v)
      /\ UNCHANGED <<share, tokens, asks, assistant, said, instant, cached>>
  BY <1>1 DEF Cancelled, Under
<1>3. cached' \in [Token -> Entry] /\ CacheIsRecent'
  BY <1>2 DEF ShareIInv, ShareTypeOK, CacheIsRecent
<1>4. QED
  BY <1>1, <1>2, <1>3, ReadEnds

LEMMA InstantPasses ==
    ASSUME ShareIInv, TimeGoesOn
    PROVE  ShareIInv'
<1>1. /\ instant \in Nat /\ Patience \in Nat /\ TTL \in Nat /\ viewer \in [Viewer -> ViewerRow]
      /\ instant' = instant + 1
      /\ UNCHANGED <<share, tokens, asks, assistant, said, cached, inflight, viewer>>
  BY SharesAssumption DEF TimeGoesOn, ShareIInv, ShareTypeOK
<1>2. ShareTypeOK' /\ CacheIsRecent' /\ SomeoneReads'
  BY <1>1 DEF ShareIInv, ShareTypeOK, CacheIsRecent, SomeoneReads
<1>3. ASSUME NEW v \in Viewer
      PROVE  ViewerHolds(v, viewer[v])'
  <2>1. viewer[v].at # "loaded" /\ (Under(viewer[v]) => instant < viewer[v].since + Patience) /\ viewer[v].since \in Nat
    BY <1>1 DEF TimeGoesOn, Under, ViewerRow
  <2>2. Ok(viewer[v].answer) => viewer[v].answer.read \in Nat
    BY <1>1 DEF Ok, AnswerSet, ViewerRow
  <2>3. QED
    BY <1>1, <2>1, <2>2 DEF ShareIInv, ViewersHold, ViewerHolds, ReadIsRecent, LoadIsRecent
<1>4. QED
  BY <1>2, <1>3 DEF ShareIInv, ViewersHold

-----------------------------------------------------------------------------
LEMMA ShareInitIInv == ShareInit => ShareIInv
<1> SUFFICES ASSUME ShareInit PROVE ShareIInv
  OBVIOUS
<1>1. Request("idle") \in ViewerRow /\ NoEntry \in Entry /\ ~Ok(NoEntry.answer)
  BY EmptyAnswers DEF NoEntry, Entry, AnswerSet, Ok
<1>2. share \in Link /\ tokens \in 0..MaxTokens /\ share.token <= tokens
  BY SharesAssumption DEF ShareInit, NoShare, Link, Scopes
<1>3. asks \in [Owner -> [token : -1..MaxTokens, scope : Scopes]]
  BY SharesAssumption DEF ShareInit, NoAsk, Scopes
<1>4. ShareTypeOK
  BY <1>1, <1>2, <1>3 DEF ShareInit, ShareTypeOK
<1>5. \A v \in Viewer : viewer[v] = Request("idle") /\ viewer[v].at = "idle"
  BY EmptyAnswers DEF ShareInit
<1>6. ViewersHold /\ SomeoneReads
  BY <1>5 DEF ShareInit, ViewersHold, ViewerHolds, ReadIsRecent, LoadIsRecent, Under, SomeoneReads
<1>7. CacheIsRecent
  BY <1>1 DEF ShareInit, CacheIsRecent
<1>8. QED
  BY <1>4, <1>6, <1>7 DEF ShareIInv

LEMMA ShareNextIInv == ShareIInv /\ [ShareNext]_shareVars => ShareIInv'
<1> SUFFICES ASSUME ShareIInv, [ShareNext]_shareVars PROVE ShareIInv'
  OBVIOUS
<1>1. CASE \E o \in Owner : WriteShare(o) \/ \E scope \in Scopes : AskShare(o, scope)
  BY <1>1, OwnersAsk
<1>2. CASE Revoke \/ DeleteSession \/ DeleteAgent \/ StopAssistant \/ Say
  BY <1>2, LinksGo
<1>3. CASE \E v \in Viewer : Open(v)
  BY <1>3, LinkOpens
<1>4. CASE \E v \in Viewer : Denied(v) \/ Serve(v) \/ ServeFile(v)
  <2>1. \A v \in Viewer : Serve(v) => viewer[v].at = "loaded"
    BY DEF Serve
  <2>2. QED
    BY <1>4, <2>1, ViewerEnds
<1>5. CASE \E v \in Viewer : RuntimeAnswers(v)
  BY <1>5, AnswerComes
<1>6. CASE \E v \in Viewer : Keep(v)
  BY <1>6, ReadKept
<1>7. CASE \E v \in Viewer : Cancelled(v)
  BY <1>7, ReadCancelled
<1>8. CASE TimeGoesOn
  BY <1>8, InstantPasses
<1>9. CASE UNCHANGED shareVars
  BY <1>9, BesideViewers DEF shareVars, ShareIInv, ShareTypeOK, CacheIsRecent
<1>10. QED
  BY <1>1, <1>2, <1>3, <1>4, <1>5, <1>6, <1>7, <1>8, <1>9 DEF ShareNext, Loads, Scopes

LEMMA ShareInductive == ShareSpec => []ShareIInv
BY ShareInitIInv, ShareNextIInv, PTL DEF ShareSpec

\* Every state is of its type: a viewer's request is at one of its places with an answer of
\* a known form, and a link's token is one that was given.
THEOREM ShareTypes == ShareSpec => []ShareTypeOK
<1>1. ShareIInv => ShareTypeOK
  BY DEF ShareIInv
<1>2. QED
  BY <1>1, ShareInductive, PTL

\* What a viewer is shown is never older than the cache and one read make it, a member's
\* Refresh shows what the runtime had after the click, and visitors get in by open links only.
THEOREM SharesRecent == ShareSpec => []AnswersAreRecent
<1>1. ShareIInv => AnswersAreRecent
  <2> SUFFICES ASSUME ShareIInv, NEW v \in Viewer, viewer[v].at = "loaded", Ok(viewer[v].answer)
               PROVE  /\ instant - viewer[v].answer.read < TTL + Patience
                      /\ v \in Refreshes \cap Insiders => viewer[v].answer.read >= viewer[v].since
                      /\ v \in Insiders \/ viewer[v].shared = "anyone"
    BY DEF AnswersAreRecent, Ok
  <2>1. instant \in Nat /\ TTL \in Nat /\ Patience \in Nat /\ viewer[v].answer.read \in Nat /\ ViewerHolds(v, viewer[v])
    BY SharesAssumption DEF ShareIInv, ShareTypeOK, ViewerRow, AnswerSet, Ok, ViewersHold
  <2>2. QED
    BY <2>1 DEF ViewerHolds, LoadIsRecent, Refreshing
<1>2. QED
  BY <1>1, ShareInductive, PTL

\* Nobody waits for a read that is over: whoever waits is released by one that is under
\* way, whichever Refresh took its place. The run's ViewersAnswered rests on it.
THEOREM NobodyWaitsInVain == ShareSpec => []SomeoneReads
<1>1. ShareIInv => SomeoneReads
  BY DEF ShareIInv
<1>2. QED
  BY <1>1, ShareInductive, PTL

-----------------------------------------------------------------------------
(* Chat runs.  The row is open until the run is over; of the events of a   *)
(* stream the last of each kind is kept, and a success was told by one     *)
(* of them.                                                                *)

Payloads   == {"none", "ok", "failed", "incomplete", "bare"}
Events     == {"final", "error", "done"} \X Payloads
Recordable == {"none", "running", "succeeded", "failed", "stale"}
SentBodies == [model : Models \cup {""}, connectors : SUBSET Enabled, browser : BOOLEAN, forged : {FALSE}]
ChatPaths  == [kind : {"chat", "stream", "events", "socket", "get", "respond"}, write : BOOLEAN,
               shut : {"", "removed", "internal"}]
ChatRow    == [at : {"idle", "record", "forward", "open", "opened", "streaming", "ended"}, path : ChatPaths,
               sent : SentBodies, row : Recordable, code : Nat, final : Payloads, error : Payloads,
               told : Seq(Events), logged : Nat, left : Ways \cup {"no"}]
ChatTypeOK == chat \in [Chat -> ChatRow] /\ agentUp \in BOOLEAN

\* What is kept of the events is the last of each kind.
KeepsLast(c) ==
    \A payload \in Payloads \ {"none"} :
        /\ c.final = payload <=> Latest(c.told, "final", payload)
        /\ c.error = payload <=> Latest(c.told, "error", payload)
\* The row stays open until the run is over, and only a run has one.
RowFollows(c) ==
    /\ c.at # "ended" => c.row \in {"none", "running"} /\ c.left = "no"
    /\ c.at \in {"idle", "record"} => c.row = "none"
    /\ c.at = "record" \/ c.row # "none" => c.path.kind \in {"chat", "stream"}
    /\ c.at = "forward" /\ c.row # "none" => c.path.kind = "chat"
    /\ c.at = "ended" /\ c.row = "running" => c.left \in Ways
    /\ c.left \in Ways => c.row \in {"none", "running"}
    /\ c.left \in {"no address", "unwatched"} => c.told = <<>> /\ c.path.kind \notin {"chat", "get", "respond"}
    /\ c.at \in {"idle", "record", "open", "opened"} => c.told = <<>>
    /\ c.at \in {"open", "opened"} => c.path.kind \in {"stream", "events", "socket"}
    /\ c.logged = IF c.row \in {"failed", "stale"} THEN 1 ELSE 0
\* A success was told, and no error stands beside it.
Success(c) == c.code < 400 /\ ~Content(c.error) /\ (c.final = "ok" \/ (c.path.kind = "chat" /\ c.final = "bare"))
ChatHolds(c) ==
    /\ KeepsLast(c) /\ RowFollows(c)
    /\ c.at \notin {"streaming", "ended"} => c.error = "none"
    /\ c.row = "succeeded" => Success(c)
    /\ c.sent.browser => "bridge" \in Enabled
ChatIInv == ChatTypeOK /\ \A r \in Chat : ChatHolds(chat[r])

ChatSpec == ChatInit /\ [][ChatNext]_chatVars

-----------------------------------------------------------------------------
\* The last event of a kind, when one more event comes.
LEMMA LatestAppended ==
    ASSUME NEW told \in Seq(Events), NEW e \in Events, NEW kind, NEW payload
    PROVE  Latest(Append(told, e), kind, payload) <=>
               IF e[1] = kind THEN e[2] = payload ELSE Latest(told, kind, payload)
<1> DEFINE longer == Append(told, e)
<1>1. /\ Len(told) \in Nat /\ Len(longer) = Len(told) + 1 /\ DOMAIN told = 1..Len(told)
      /\ DOMAIN longer = 1..(Len(told) + 1)
      /\ longer[Len(told) + 1] = e /\ \A i \in 1..Len(told) : longer[i] = told[i]
  OBVIOUS
<1>2. e = <<e[1], e[2]>>
  BY DEF Events
<1> HIDE DEF longer
<1>3. CASE e[1] = kind
  <2>1. Latest(longer, kind, payload) => e[2] = payload
    <3> SUFFICES ASSUME NEW i \in 1..(Len(told) + 1), longer[i] = <<kind, payload>>,
                        \A j \in (i + 1)..(Len(told) + 1) : longer[j][1] # kind
                 PROVE  e[2] = payload
      BY <1>1 DEF Latest
    <3>1. i = Len(told) + 1
      BY <1>1, <1>3
    <3>2. QED
      BY <1>1, <1>2, <3>1
  <2>2. e[2] = payload => Latest(longer, kind, payload)
    <3> SUFFICES ASSUME e[2] = payload
                 PROVE  \E i \in 1..(Len(told) + 1) : longer[i] = <<kind, payload>> /\ \A j \in (i + 1)..(Len(told) + 1) : longer[j][1] # kind
      BY <1>1 DEF Latest
    <3>1. Len(told) + 1 \in 1..(Len(told) + 1) /\ longer[Len(told) + 1] = <<kind, payload>>
      BY <1>1, <1>2, <1>3
    <3>2. \A j \in ((Len(told) + 1) + 1)..(Len(told) + 1) : longer[j][1] # kind
      BY <1>1
    <3>3. QED
      BY <3>1, <3>2
  <2>3. QED
    BY <1>3, <2>1, <2>2 DEF longer
<1>4. CASE e[1] # kind
  <2>1. ASSUME Latest(longer, kind, payload)
        PROVE  Latest(told, kind, payload)
    <3>1. PICK i \in 1..(Len(told) + 1) : /\ longer[i] = <<kind, payload>>
                                          /\ \A j \in (i + 1)..(Len(told) + 1) : longer[j][1] # kind
      BY <1>1, <2>1 DEF Latest
    <3>2. i # Len(told) + 1
      BY <1>1, <1>2, <1>4, <3>1
    <3>3. i \in 1..Len(told) /\ told[i] = <<kind, payload>> /\ \A j \in (i + 1)..Len(told) : told[j][1] # kind
      BY <1>1, <3>1, <3>2
    <3>4. QED
      BY <1>1, <3>3 DEF Latest
  <2>2. ASSUME Latest(told, kind, payload)
        PROVE  Latest(longer, kind, payload)
    <3>1. PICK i \in 1..Len(told) : told[i] = <<kind, payload>> /\ \A j \in (i + 1)..Len(told) : told[j][1] # kind
      BY <1>1, <2>2 DEF Latest
    <3>2. \A j \in (i + 1)..(Len(told) + 1) : j = Len(told) + 1 \/ j \in (i + 1)..Len(told)
      BY <1>1
    <3>3. \A j \in (i + 1)..(Len(told) + 1) : longer[j][1] # kind
      BY <1>1, <1>4, <3>1, <3>2
    <3>4. i \in 1..(Len(told) + 1) /\ longer[i] = <<kind, payload>>
      BY <1>1, <3>1
    <3>5. QED
      BY <1>1, <3>3, <3>4 DEF Latest
  <2>3. QED
    BY <1>4, <2>1, <2>2 DEF longer
<1>5. QED
  BY <1>3, <1>4

\* Nothing was told at first.
LEMMA LatestOfNone == \A kind, payload : ~Latest(<<>>, kind, payload)
BY DEF Latest

-----------------------------------------------------------------------------
\* A request whose record is put back in order leaves the rest as it is.
LEMMA OnePut ==
    ASSUME ChatIInv, NEW r \in Chat, NEW c \in ChatRow, ChatHolds(c), Put(r, c)
    PROVE  ChatIInv'
BY DEF ChatIInv, ChatTypeOK, Put

\* The ends of a request.
LEMMA LeavesInOrder ==
    ASSUME NEW c \in ChatRow, ChatHolds(c), c.at # "ended", NEW code \in Nat,
           NEW why \in Ways, why \in {"no address", "unwatched"} => c.at \in {"open", "opened"}
    PROVE  /\ Leaves(c, why) \in ChatRow /\ ChatHolds(Leaves(c, why))
           /\ [Leaves(c, why) EXCEPT !.code = code] \in ChatRow /\ ChatHolds([Leaves(c, why) EXCEPT !.code = code])
<1>1. PICK n \in ChatRow : n = Leaves(c, why)
  BY DEF Leaves, ChatRow
<1>2. PICK m \in ChatRow : m = [n EXCEPT !.code = code]
  BY DEF ChatRow
<1>3. /\ n.at = "ended" /\ n.left = why /\ n.row = c.row /\ n.logged = c.logged /\ n.path = c.path
      /\ n.final = c.final /\ n.error = c.error /\ n.told = c.told /\ n.sent = c.sent
  BY <1>1 DEF Leaves, ChatRow
<1>4. /\ m.at = "ended" /\ m.left = why /\ m.row = c.row /\ m.logged = c.logged /\ m.path = c.path
      /\ m.final = c.final /\ m.error = c.error /\ m.told = c.told /\ m.sent = c.sent
  BY <1>2, <1>3 DEF ChatRow
<1>5. /\ c.row \in {"none", "running"}
      /\ why \in {"no address", "unwatched"} => c.told = <<>> /\ c.path.kind \notin {"chat", "get", "respond"}
  BY DEF ChatHolds, RowFollows
<1>6. ChatHolds(n)
  BY <1>3, <1>5 DEF ChatHolds, KeepsLast, RowFollows
<1>7. ChatHolds(m)
  BY <1>4, <1>5 DEF ChatHolds, KeepsLast, RowFollows
<1>8. QED
  BY <1>1, <1>2, <1>6, <1>7

LEMMA MarkedInOrder ==
    ASSUME NEW c \in ChatRow, ChatHolds(c), c.at # "ended", c.row # "none",
           NEW status \in {"succeeded", "failed", "stale"}, status = "succeeded" => Success(c)
    PROVE  Marked(c, status) \in ChatRow /\ ChatHolds(Marked(c, status))
<1>1. c.row = "running" /\ c.left = "no" /\ c.logged = 0 /\ RowFollows(c)
  BY DEF ChatHolds, RowFollows
<1> DEFINE marked == [c EXCEPT !.at = "ended", !.row = status, !.logged = IF status \in {"failed", "stale"} THEN 1 ELSE 0]
<1>0. Marked(c, status) = marked
  <2>1. c.logged + (IF status \in {"failed", "stale"} /\ c.row # status THEN 1 ELSE 0)
          = (IF status \in {"failed", "stale"} THEN 1 ELSE 0)
    BY <1>1
  <2>2. QED
    BY <2>1 DEF Marked
<1>2. PICK n \in ChatRow : n = marked
  BY DEF ChatRow, Recordable
<1>3. /\ n.at = "ended" /\ n.row = status /\ n.logged = (IF status \in {"failed", "stale"} THEN 1 ELSE 0)
      /\ n.left = c.left /\ n.path = c.path /\ n.code = c.code
      /\ n.final = c.final /\ n.error = c.error /\ n.told = c.told /\ n.sent = c.sent
  BY <1>2 DEF ChatRow
<1>4. KeepsLast(n)
  BY <1>3 DEF ChatHolds, KeepsLast
<1>5. RowFollows(n)
  BY <1>1, <1>3 DEF RowFollows, Ways
<1>6. n.row = "succeeded" => Success(n)
  BY <1>3 DEF Success
<1>7. QED
  BY <1>0, <1>2, <1>3, <1>4, <1>5, <1>6 DEF ChatHolds

LEMMA EndInOrder ==
    ASSUME ChatIInv, NEW r \in Chat, chat[r].at # "ended",
           NEW status \in {"succeeded", "failed", "stale"}, status = "succeeded" => Success(chat[r]),
           EndWith(r, status)
    PROVE  ChatIInv'
<1>1. PICK c \in ChatRow : c = chat[r] /\ ChatHolds(c) /\ c.at # "ended" /\ (status = "succeeded" => Success(c))
  BY DEF ChatIInv, ChatTypeOK
<1>2. /\ Leaves(c, "unwritten") \in ChatRow /\ ChatHolds(Leaves(c, "unwritten"))
      /\ c.row # "none" => Marked(c, status) \in ChatRow /\ ChatHolds(Marked(c, status))
  BY <1>1, LeavesInOrder, MarkedInOrder DEF Ways
<1>3. Put(r, Leaves(c, "unwritten")) \/ (c.row # "none" /\ Put(r, Marked(c, status)))
  BY <1>1 DEF EndWith
<1>4. QED
  BY <1>2, <1>3, OnePut

\* One more event.
LEMMA WatchedInOrder ==
    ASSUME NEW c \in ChatRow, KeepsLast(c), NEW e \in Events
    PROVE  /\ Watched(c, e) \in ChatRow /\ KeepsLast(Watched(c, e))
           /\ \A f \in {"at", "path", "sent", "row", "code", "logged", "left"} : Watched(c, e)[f] = c[f]
           /\ Watched(c, e).error = (IF e[1] = "error" THEN e[2] ELSE c.error)
           /\ Watched(c, e).final = (IF e[1] = "final" THEN e[2] ELSE c.final)
<1>1. e[1] \in {"final", "error", "done"} /\ e[2] \in Payloads /\ c.told \in Seq(Events) /\ Append(c.told, e) \in Seq(Events)
  <2>1. c.told \in Seq(Events)
    BY DEF ChatRow
  <2>2. Append(c.told, e) \in Seq(Events)
    BY <2>1
  <2>3. QED
    BY <2>1, <2>2 DEF Events
<1>2. PICK n \in ChatRow : n = Watched(c, e)
  BY <1>1 DEF Watched, ChatRow
<1>3. /\ n.told = Append(c.told, e)
      /\ n.final = (IF e[1] = "final" THEN e[2] ELSE c.final) /\ n.error = (IF e[1] = "error" THEN e[2] ELSE c.error)
      /\ \A f \in {"at", "path", "sent", "row", "code", "logged", "left"} : n[f] = c[f]
  BY <1>2 DEF Watched, ChatRow
<1>4. ASSUME NEW payload \in Payloads \ {"none"}
      PROVE  /\ n.final = payload <=> Latest(n.told, "final", payload)
             /\ n.error = payload <=> Latest(n.told, "error", payload)
  <2>1. Latest(n.told, "final", payload) <=> IF e[1] = "final" THEN e[2] = payload ELSE Latest(c.told, "final", payload)
    BY <1>1, <1>3, LatestAppended
  <2>2. Latest(n.told, "error", payload) <=> IF e[1] = "error" THEN e[2] = payload ELSE Latest(c.told, "error", payload)
    BY <1>1, <1>3, LatestAppended
  <2>3. QED
    BY <1>3, <2>1, <2>2 DEF KeepsLast
<1>5. QED
  BY <1>2, <1>3, <1>4 DEF KeepsLast

-----------------------------------------------------------------------------
\* What the Portal sends on holds nothing only it may vouch for.
LEMMA SentInOrder ==
    ASSUME NEW role \in Roles, NEW path \in Paths, NEW body \in Bodies \cup {NoBody},
           TurnedAway(role, path, body) = 200
    PROVE  LET sent == IF Turn(path) /\ body # NoBody THEN Forwarded(body) ELSE Unsent
           IN  sent \in SentBodies /\ (sent.browser => "bridge" \in Enabled)
<1>1. CASE Turn(path) /\ body # NoBody
  <2>1. BodyRefusal(body) = 200
    BY <1>1 DEF TurnedAway
  <2>2. Chosen(body) \in Models \cup {""}
    <3>1. body.kind \in {"json", "text", "broken"}
      <4>1. CASE body \in Bodies
        BY <4>1 DEF Bodies
      <4>2. CASE body = NoBody
        BY <4>2 DEF NoBody
      <4>3. QED
        BY <4>1, <4>2
    <3>2. body.kind = "text" => BodyRefusal(body) = 415
      BY DEF BodyRefusal
    <3>3. body.kind = "broken" => BodyRefusal(body) = 400
      BY DEF BodyRefusal
    <3>4. body.kind = "json" /\ Chosen(body) \notin Models \cup {""} => BodyRefusal(body) = 422
      BY DEF BodyRefusal
    <3>5. body.kind = "json"
      BY <2>1, <3>1, <3>2, <3>3
    <3>6. ~(BodyRefusal(body) = 422)
      BY <2>1
    <3>7. QED
      BY <3>4, <3>5, <3>6
  <2>3. Injected(body.asks) \in SUBSET Enabled
    BY DEF Injected
  <2>4. Forwarded(body) \in SentBodies /\ (Forwarded(body).browser => "bridge" \in Enabled)
    <3>1. ("bridge" \in Injected(body.asks)) \in BOOLEAN
      OBVIOUS
    <3>2. \A b \in BOOLEAN : [model |-> Chosen(body), connectors |-> Injected(body.asks), browser |-> b, forged |-> FALSE] \in SentBodies
      BY <2>2, <2>3 DEF SentBodies
    <3>3. Forwarded(body) \in SentBodies
      BY <3>1, <3>2, Zenon DEF Forwarded
    <3>4. Forwarded(body).browser = ("bridge" \in Injected(body.asks))
      BY DEF Forwarded
    <3>5. QED
      BY <2>3, <3>3, <3>4
  <2>5. QED
    BY <1>1, <2>4
<1>2. CASE ~(Turn(path) /\ body # NoBody)
  BY <1>2 DEF Unsent, SentBodies
<1>3. QED
  BY <1>1, <1>2

LEMMA ForwardsInOrder ==
    ASSUME ChatIInv, NEW r \in Chat, NEW role \in Roles, NEW path \in Paths, NEW body \in Bodies \cup {NoBody},
           Ask(r, role, path, body)
    PROVE  ChatIInv'
<1>1. PICK c \in ChatRow : c = chat[r] /\ ChatHolds(c) /\ c.at = "idle"
  BY DEF ChatIInv, ChatTypeOK, Ask, ChatAt
<1>2. CASE TurnedAway(role, path, body) # 200 /\ Put(r, [c EXCEPT !.at = "ended", !.code = TurnedAway(role, path, body)])
  <2>1. TurnedAway(role, path, body) \in Nat
    BY DEF TurnedAway, Refusal, BodyRefusal
  <2>2. PICK n \in ChatRow : n = [c EXCEPT !.at = "ended", !.code = TurnedAway(role, path, body)]
    BY <2>1 DEF ChatRow
  <2>3. ChatHolds(n)
    BY <1>1, <2>2 DEF ChatHolds, KeepsLast, RowFollows, ChatRow
  <2>4. QED
    BY <1>2, <2>2, <2>3, OnePut
<1> DEFINE sent == IF Turn(path) /\ body # NoBody THEN Forwarded(body) ELSE Unsent
           at   == IF Executes(path) /\ body # NoBody THEN "record"
                   ELSE IF path.kind \in {"stream", "events", "socket"} THEN "open" ELSE "forward"
<1>3. CASE TurnedAway(role, path, body) = 200 /\ Put(r, [c EXCEPT !.path = path, !.sent = sent, !.at = at])
  <2>1. sent \in SentBodies /\ (sent.browser => "bridge" \in Enabled)
    BY <1>3, SentInOrder
  <2>2. /\ path \in ChatPaths /\ at \in {"record", "open", "forward"}
        /\ at = "record" => path.kind \in {"chat", "stream"}
        /\ at = "open" => path.kind \in {"stream", "events", "socket"}
    <3>1. path \in ChatPaths
      BY DEF Paths, ChatPaths
    <3>2. QED
      BY <3>1 DEF Executes
  <2> HIDE DEF sent, at
  <2>3. PICK n \in ChatRow : n = [c EXCEPT !.path = path, !.sent = sent, !.at = at]
    BY <2>1, <2>2 DEF ChatRow
  <2>4. /\ n.path = path /\ n.sent = sent /\ n.at = at /\ n.row = c.row /\ n.logged = c.logged /\ n.left = c.left
        /\ n.final = c.final /\ n.error = c.error /\ n.told = c.told
    BY <2>3 DEF ChatRow
  <2>5. ChatHolds(n)
    <3>1. /\ c.row = "none" /\ c.left = "no" /\ c.told = <<>> /\ c.logged = 0 /\ c.error = "none" /\ KeepsLast(c)
      BY <1>1 DEF ChatHolds, RowFollows
    <3>2. KeepsLast(n)
      BY <2>4, <3>1 DEF KeepsLast
    <3>3. RowFollows(n)
      BY <2>2, <2>4, <3>1 DEF RowFollows, Ways
    <3>4. QED
      BY <2>1, <2>4, <3>1, <3>2, <3>3 DEF ChatHolds
  <2>6. QED
    BY <1>3, <2>3, <2>5, OnePut
<1>4. QED
  BY <1>1, <1>2, <1>3 DEF Ask

LEMMA RunIsRecorded ==
    ASSUME ChatIInv, NEW r \in Chat, RecordStarted(r)
    PROVE  ChatIInv'
<1>1. PICK c \in ChatRow : c = chat[r] /\ ChatHolds(c) /\ c.at = "record"
  BY DEF ChatIInv, ChatTypeOK, RecordStarted, ChatAt
<1>2. PICK row \in {"running", "none"} : Put(r, [c EXCEPT !.row = row, !.at = IF c.path.kind = "stream" THEN "open" ELSE "forward"])
  BY <1>1 DEF RecordStarted
<1>3. PICK n \in ChatRow : n = [c EXCEPT !.row = row, !.at = IF c.path.kind = "stream" THEN "open" ELSE "forward"]
  BY DEF ChatRow, Recordable
<1>4. /\ n.at = (IF c.path.kind = "stream" THEN "open" ELSE "forward") /\ n.row = row /\ n.path = c.path /\ n.sent = c.sent
      /\ n.final = c.final /\ n.error = c.error /\ n.told = c.told /\ n.logged = c.logged /\ n.left = c.left
  BY <1>3 DEF ChatRow
<1>5. RowFollows(n)
  BY <1>1, <1>4 DEF ChatHolds, RowFollows
<1>6. ChatHolds(n)
  BY <1>1, <1>4, <1>5 DEF ChatHolds, KeepsLast
<1>7. QED
  BY <1>2, <1>3, <1>6, OnePut

\* The stream is opened, relayed and watched.
LEMMA StreamGoesOn ==
    ASSUME ChatIInv, NEW r \in Chat,
           \/ NoAddress(r) \/ Opened(r) \/ GoneBefore(r) \/ Relays(r) \/ SocketEnds(r) \/ \E e \in StreamEvents : Passes(r, e)
    PROVE  ChatIInv'
<1>1. PICK c \in ChatRow : c = chat[r] /\ ChatHolds(c) /\ c.at \in {"open", "opened", "streaming"}
  BY DEF ChatIInv, ChatTypeOK, ChatAt, NoAddress, Opened, GoneBefore, Relays, SocketEnds, Passes
<1>2. CASE NoAddress(r) \/ GoneBefore(r)
  <2>1. \/ c.at = "open" /\ Put(r, [Leaves(c, "no address") EXCEPT !.code = 502])
        \/ c.at = "opened" /\ Put(r, Leaves(c, "unwatched"))
    BY <1>1, <1>2 DEF NoAddress, GoneBefore, ChatAt
  <2>2. /\ c.at = "open" => /\ [Leaves(c, "no address") EXCEPT !.code = 502] \in ChatRow
                            /\ ChatHolds([Leaves(c, "no address") EXCEPT !.code = 502])
        /\ c.at = "opened" => Leaves(c, "unwatched") \in ChatRow /\ ChatHolds(Leaves(c, "unwatched"))
    <3>1. "no address" \in Ways /\ "unwatched" \in Ways /\ 502 \in Nat
      BY DEF Ways
    <3>2. ASSUME c.at = "open"
          PROVE  /\ [Leaves(c, "no address") EXCEPT !.code = 502] \in ChatRow
                 /\ ChatHolds([Leaves(c, "no address") EXCEPT !.code = 502])
      <4>1. PICK why \in Ways : why = "no address"
        BY <3>1
      <4>2. c.at # "ended" /\ (why \in {"no address", "unwatched"} => c.at \in {"open", "opened"})
        BY <3>2
      <4>3. PICK code \in Nat : code = 502
        BY <3>1
      <4>4. [Leaves(c, why) EXCEPT !.code = code] \in ChatRow /\ ChatHolds([Leaves(c, why) EXCEPT !.code = code])
        BY <1>1, <4>2, LeavesInOrder
      <4>5. QED
        BY <4>1, <4>3, <4>4
    <3>3. ASSUME c.at = "opened" PROVE Leaves(c, "unwatched") \in ChatRow /\ ChatHolds(Leaves(c, "unwatched"))
      BY <1>1, <3>1, <3>3, LeavesInOrder
    <3>4. QED
      BY <3>2, <3>3
  <2>3. QED
    BY <2>1, <2>2, OnePut
<1>3. CASE Opened(r)
  <2>1. PICK code \in Nat : Put(r, [c EXCEPT !.at = "opened", !.code = code]) /\ c.at = "open"
    <3>1. PICK code \in {200, 500} : Put(r, [c EXCEPT !.at = "opened", !.code = code])
      BY <1>1, <1>3 DEF Opened
    <3>2. code \in Nat /\ c.at = "open"
      BY <1>1, <1>3 DEF Opened, ChatAt
    <3>3. QED
      BY <3>1, <3>2
  <2>2. PICK n \in ChatRow : n = [c EXCEPT !.at = "opened", !.code = code]
    BY DEF ChatRow
  <2>3. /\ n.at = "opened" /\ n.row = c.row /\ n.path = c.path /\ n.sent = c.sent
        /\ n.final = c.final /\ n.error = c.error /\ n.told = c.told /\ n.logged = c.logged /\ n.left = c.left
    BY <2>2 DEF ChatRow
  <2>4. RowFollows(n)
    BY <1>1, <2>1, <2>3 DEF ChatHolds, RowFollows
  <2>5. ChatHolds(n)
    BY <1>1, <2>1, <2>3, <2>4 DEF ChatHolds, KeepsLast, RowFollows
  <2>6. QED
    BY <2>1, <2>2, <2>5, OnePut
<1>4. CASE Relays(r)
  <2>1. PICK n \in ChatRow : n = [c EXCEPT !.at = "streaming"]
    BY DEF ChatRow
  <2>2. ChatHolds(n)
    BY <1>1, <2>1 DEF ChatHolds, KeepsLast, RowFollows, ChatRow
  <2>3. QED
    BY <1>1, <1>4, <2>1, <2>2, OnePut DEF Relays
<1>5. CASE SocketEnds(r)
  <2>1. Put(r, [c EXCEPT !.at = "ended"]) /\ c.at = "opened" /\ c.path.kind = "socket"
    BY <1>1, <1>5 DEF SocketEnds, ChatAt
  <2>2. PICK n \in ChatRow : n = [c EXCEPT !.at = "ended"]
    BY DEF ChatRow
  <2>3. /\ n.at = "ended" /\ n.row = c.row /\ n.path = c.path /\ n.sent = c.sent
        /\ n.final = c.final /\ n.error = c.error /\ n.told = c.told /\ n.logged = c.logged /\ n.left = c.left
    BY <2>2 DEF ChatRow
  <2>4. c.row = "none"
    BY <1>1, <2>1 DEF ChatHolds, RowFollows
  <2>5. RowFollows(n)
    BY <1>1, <2>3, <2>4 DEF ChatHolds, RowFollows
  <2>6. ChatHolds(n)
    BY <1>1, <2>3, <2>4, <2>5 DEF ChatHolds, KeepsLast
  <2>7. QED
    BY <2>1, <2>2, <2>6, OnePut
<1>6. CASE \E e \in StreamEvents : Passes(r, e)
  <2>1. PICK e \in Events : Put(r, Watched(c, e)) /\ c.at = "streaming"
    BY <1>1, <1>6 DEF Passes, ChatAt, StreamEvents, Kinds, Events, Payloads
  <2>2. PICK n \in ChatRow : n = Watched(c, e)
    BY <1>1, WatchedInOrder DEF ChatHolds
  <2>3. /\ KeepsLast(n) /\ n.at = "streaming" /\ n.path = c.path /\ n.sent = c.sent /\ n.row = c.row /\ n.logged = c.logged
        /\ n.left = c.left
    BY <1>1, <2>1, <2>2, WatchedInOrder DEF ChatHolds
  <2>4. ChatHolds(n)
    BY <1>1, <2>1, <2>3 DEF ChatHolds, RowFollows
  <2>5. QED
    BY <2>1, <2>2, <2>4, OnePut
<1>7. QED
  BY <1>2, <1>3, <1>4, <1>5, <1>6

-----------------------------------------------------------------------------
\* The end of a stream, and a whole answer.
LEMMA StreamEndsInOrder ==
    ASSUME ChatIInv, NEW r \in Chat, StreamEnds(r) \/ OpenFails(r) \/ ForwardFails(r)
    PROVE  ChatIInv'
<1>1. PICK c \in ChatRow : c = chat[r] /\ ChatHolds(c) /\ c.at \in {"open", "forward", "streaming"}
  BY DEF ChatIInv, ChatTypeOK, ChatAt, StreamEnds, OpenFails, ForwardFails
<1>2. CASE OpenFails(r) \/ ForwardFails(r)
  <2>1. EndWith(r, "failed")
    BY <1>2 DEF OpenFails, ForwardFails
  <2>2. QED
    BY <1>1, <2>1, EndInOrder
<1>3. CASE StreamEnds(r)
  <2>1. PICK broken \in BOOLEAN : EndWith(r, Outcome(c, broken))
    BY <1>1, <1>3 DEF StreamEnds
  <2>2. c.code \in Nat /\ c.final \in Payloads
    BY DEF ChatRow
  <2>3. Terminal(c.code, c.final) \in {"succeeded", "failed", "stale"}
    BY <2>2 DEF Terminal, Payloads
  <2>4. Terminal(c.code, c.final) = "succeeded" /\ Content(c.final) => c.code < 400 /\ c.final = "ok"
    BY <2>2 DEF Terminal, Payloads, Content
  <2>5. /\ Outcome(c, broken) \in {"succeeded", "failed", "stale"}
        /\ Outcome(c, broken) = "succeeded" => ~Content(c.error) /\ Content(c.final) /\ Terminal(c.code, c.final) = "succeeded"
    BY <2>3 DEF Outcome
  <2>6. Outcome(c, broken) = "succeeded" => Success(c)
    BY <2>4, <2>5 DEF Success
  <2>7. QED
    BY <1>1, <2>1, <2>5, <2>6, EndInOrder
<1>4. QED
  BY <1>2, <1>3

LEMMA AnsweredInOrder ==
    ASSUME ChatIInv, NEW r \in Chat, Answered(r)
    PROVE  ChatIInv'
<1>1. PICK c \in ChatRow : c = chat[r] /\ ChatHolds(c) /\ c.at = "forward"
  BY DEF ChatIInv, ChatTypeOK, ChatAt, Answered
<1>2. PICK code \in {200, 500}, payload \in Payloads :
        \/ Put(r, [Leaves(c, "unwritten") EXCEPT !.code = code])
        \/ /\ c.row # "none"
           /\ Put(r, Marked([Watched(c, <<"final", payload>>) EXCEPT !.code = code], Terminal(code, payload)))
  BY <1>1 DEF Answered, Payloads
<1>3. code \in Nat
  OBVIOUS
<1>4. CASE Put(r, [Leaves(c, "unwritten") EXCEPT !.code = code])
  <2>1. [Leaves(c, "unwritten") EXCEPT !.code = code] \in ChatRow /\ ChatHolds([Leaves(c, "unwritten") EXCEPT !.code = code])
    <3>1. "unwritten" \in Ways /\ ~("unwritten" \in {"no address", "unwatched"})
      BY DEF Ways
    <3>2. QED
      BY <1>1, <1>3, <3>1, LeavesInOrder
  <2>2. QED
    BY <1>4, <2>1, OnePut
<1>5. CASE c.row # "none" /\ Put(r, Marked([Watched(c, <<"final", payload>>) EXCEPT !.code = code], Terminal(code, payload)))
  <2>1. PICK e \in Events : e = <<"final", payload>>
    BY DEF Events
  <2> e[1] = "final" /\ e[2] = payload
    BY <2>1
  <2>2. PICK n \in ChatRow : n = Watched(c, e)
    BY <1>1, WatchedInOrder DEF ChatHolds
  <2>3. /\ KeepsLast(n) /\ n.at = "forward" /\ n.path = c.path /\ n.sent = c.sent /\ n.row = c.row /\ n.logged = c.logged
        /\ n.left = c.left /\ n.final = payload /\ n.error = c.error
    BY <1>1, <2>1, <2>2, WatchedInOrder DEF ChatHolds
  <2>4. PICK m \in ChatRow : m = [n EXCEPT !.code = code]
    BY <1>3 DEF ChatRow
  <2>30. /\ m.at = n.at /\ m.path = n.path /\ m.sent = n.sent /\ m.row = n.row /\ m.logged = n.logged /\ m.left = n.left
        /\ m.final = n.final /\ m.error = n.error /\ m.told = n.told /\ m.code = code
    BY <2>4 DEF ChatRow
  <2>5. /\ m.at = "forward" /\ m.path = c.path /\ m.sent = c.sent /\ m.row = c.row /\ m.logged = c.logged
        /\ m.left = c.left /\ m.final = payload /\ m.error = c.error /\ m.told = n.told /\ m.code = code
        /\ n.final = payload /\ n.error = c.error
    BY <2>3, <2>30
  <2>6. KeepsLast(m)
    BY <2>3, <2>5 DEF KeepsLast
  <2>7. c.row = "running" /\ c.path.kind = "chat" /\ c.error = "none"
    BY <1>1, <1>5 DEF ChatHolds, RowFollows
  <2>8. ChatHolds(m)
    <3>1. c.left = "no" /\ c.logged = 0 /\ (c.sent.browser => "bridge" \in Enabled)
      BY <1>1, <2>7 DEF ChatHolds, RowFollows
    <3>2. RowFollows(m)
      BY <2>5, <2>7, <3>1 DEF RowFollows, Ways
    <3>3. QED
      BY <2>5, <2>6, <2>7, <3>1, <3>2 DEF ChatHolds
  <2>9. Terminal(code, payload) \in {"succeeded", "failed", "stale"}
    BY <1>3 DEF Terminal, Payloads
  <2>10. Terminal(code, payload) = "succeeded" => code < 400 /\ payload \in {"ok", "bare"}
    BY <1>3 DEF Terminal, Payloads
  <2>11. Terminal(code, payload) = "succeeded" => Success(m)
    BY <2>5, <2>7, <2>10 DEF Success, Content
  <2>12. Put(r, Marked(m, Terminal(code, payload)))
    BY <1>5, <2>1, <2>2, <2>4
  <2>13. m.at # "ended"
    BY <2>5
  <2> m.row # "none"
    BY <2>5, <2>7
  <2>14. Marked(m, Terminal(code, payload)) \in ChatRow /\ ChatHolds(Marked(m, Terminal(code, payload)))
    BY <2>8, <2>9, <2>11, <2>13, MarkedInOrder
  <2>15. QED
    BY <2>12, <2>14, OnePut
<1>6. QED
  BY <1>2, <1>4, <1>5

LEMMA PortalStopsInOrder ==
    ASSUME ChatIInv, PortalStops
    PROVE  ChatIInv'
<1>1. \A r \in Chat : chat[r] \in ChatRow /\ ChatHolds(chat[r])
  BY DEF ChatIInv, ChatTypeOK
<1>2. \A r \in Chat : chat[r].at # "ended" => Leaves(chat[r], "stopped") \in ChatRow /\ ChatHolds(Leaves(chat[r], "stopped"))
  <2> SUFFICES ASSUME NEW r \in Chat, chat[r].at # "ended"
               PROVE  Leaves(chat[r], "stopped") \in ChatRow /\ ChatHolds(Leaves(chat[r], "stopped"))
    OBVIOUS
  <2>1. PICK c \in ChatRow : c = chat[r] /\ ChatHolds(c)
    BY <1>1
  <2>2. QED
    BY <2>1, LeavesInOrder DEF Ways
<1>3. chat' \in [Chat -> ChatRow] /\ \A r \in Chat : ChatHolds(chat'[r])
  BY <1>1, <1>2 DEF PortalStops
<1>4. agentUp' \in BOOLEAN
  BY DEF PortalStops, ChatIInv, ChatTypeOK
<1>5. QED
  BY <1>3, <1>4 DEF ChatIInv, ChatTypeOK

LEMMA ChatInitIInv == ChatInit => ChatIInv
<1> SUFFICES ASSUME ChatInit PROVE ChatIInv
  OBVIOUS
<1>1. Unsent \in SentBodies /\ ~Unsent.browser
  BY DEF Unsent, SentBodies
<1>2. PICK c \in ChatRow : c = Request0
  <2>1. <<>> \in Seq(Events) /\ FALSE \in BOOLEAN /\ 0 \in Nat /\ "none" \in Payloads \cap Recordable
    BY DEF Payloads, Recordable
  <2>2. Request0 \in ChatRow
    <3>1. [kind |-> "get", write |-> FALSE, shut |-> ""] \in ChatPaths
      BY DEF ChatPaths
    <3>2. "no" \in Ways \cup {"no"} /\ "idle" \in {"idle", "record", "forward", "open", "opened", "streaming", "ended"}
      OBVIOUS
    <3>3. Request0 = [at |-> "idle", path |-> Request0.path, sent |-> Unsent, row |-> "none", code |-> 0, final |-> "none",
                      error |-> "none", told |-> <<>>, logged |-> 0, left |-> "no"] /\ Request0.path \in ChatPaths
      BY <3>1 DEF Request0
    <3>4. QED
      <4>1. "none" \in Recordable /\ "none" \in Payloads /\ 0 \in Nat /\ <<>> \in Seq(Events)
        BY <2>1
      <4>2. PICK p \in ChatPaths : p = Request0.path
        BY <3>3
      <4>3. [at |-> "idle", path |-> p, sent |-> Unsent, row |-> "none", code |-> 0, final |-> "none",
             error |-> "none", told |-> <<>>, logged |-> 0, left |-> "no"] \in ChatRow
        BY <1>1, <3>2, <4>1 DEF ChatRow
      <4>4. QED
        BY <3>3, <4>2, <4>3
  <2>3. QED
    BY <2>2
<1>3. /\ c.at = "idle" /\ c.row = "none" /\ c.left = "no" /\ c.logged = 0 /\ c.final = "none" /\ c.error = "none" /\ c.told = <<>>
      /\ c.sent = Unsent
  BY <1>2 DEF Request0
<1>4. KeepsLast(c)
  BY <1>3, LatestOfNone DEF KeepsLast
<1>5. ChatHolds(c)
  BY <1>1, <1>3, <1>4 DEF ChatHolds, RowFollows, Ways
<1>6. QED
  BY <1>2, <1>5 DEF ChatInit, ChatIInv, ChatTypeOK

LEMMA ChatNextIInv == ChatIInv /\ [ChatNext]_chatVars => ChatIInv'
<1> SUFFICES ASSUME ChatIInv, [ChatNext]_chatVars PROVE ChatIInv'
  OBVIOUS
<1>1. CASE \E r \in Chat : \/ NoAddress(r) \/ Opened(r) \/ GoneBefore(r) \/ Relays(r) \/ SocketEnds(r)
                          \/ \E e \in StreamEvents : Passes(r, e)
  BY <1>1, StreamGoesOn
<1>2. CASE \E r \in Chat : StreamEnds(r) \/ OpenFails(r) \/ ForwardFails(r)
  BY <1>2, StreamEndsInOrder
<1>3. CASE \E r \in Chat : Answered(r)
  BY <1>3, AnsweredInOrder
<1>4. CASE \E r \in Chat : RecordStarted(r)
  BY <1>4, RunIsRecorded
<1>5. CASE \E r \in Chat, role \in Roles, path \in Paths, body \in Bodies \cup {NoBody} : Ask(r, role, path, body)
  BY <1>5, ForwardsInOrder
<1>6. CASE PortalStops
  BY <1>6, PortalStopsInOrder
<1>7. CASE AgentStops \/ UNCHANGED chatVars
  BY <1>7 DEF AgentStops, chatVars, ChatIInv, ChatTypeOK
<1>8. QED
  BY <1>1, <1>2, <1>3, <1>4, <1>5, <1>6, <1>7 DEF ChatNext, ChatStep

LEMMA ChatInductive == ChatSpec => []ChatIInv
BY ChatInitIInv, ChatNextIInv, PTL DEF ChatSpec

\* Every request is at one of its places, with a row of a known status and events of known kinds.
THEOREM ChatTypes == ChatSpec => []ChatTypeOK
<1>1. ChatIInv => ChatTypeOK
  BY DEF ChatIInv
<1>2. QED
  BY <1>1, ChatInductive, PTL

\* The row of a run says what its stream or its answer said, and is in the error log once when
\* it failed.  It is over when the run is, unless it could not be written, the assistant had no
\* address for a stream (proxy.py answers 502 and leaves the row), the page left before the
\* stream was first read, or the Portal stopped; of the two in the middle the page was told
\* nothing.  The runtime gets nothing only the Portal may vouch for.
THEOREM RowsTellRuns == ChatSpec => []RowTellsRun
<1>1. ChatIInv => RowTellsRun
  <2> SUFFICES ASSUME ChatIInv, NEW r \in Chat, NEW c \in ChatRow, c = chat[r]
               PROVE
                 /\ c.row = "succeeded" =>
                      /\ c.code < 400
                      /\ \A payload \in {"ok", "failed", "incomplete"} : ~Latest(c.told, "error", payload)
                      /\ Latest(c.told, "final", "ok") \/ (c.path.kind = "chat" /\ Latest(c.told, "final", "bare"))
                 /\ c.at = "ended" /\ c.row = "running" => c.left \in Ways
                 /\ c.left \in Ways => c.row \in {"none", "running"}
                 /\ c.left \in {"no address", "unwatched"} => c.told = <<>> /\ c.path.kind \notin {"chat", "get", "respond"}
                 /\ c.logged = IF c.row \in {"failed", "stale"} THEN 1 ELSE 0
                 /\ ~c.sent.forged /\ c.sent.connectors \subseteq Enabled /\ c.sent.model \in Models \cup {""}
                 /\ c.sent.browser => "bridge" \in Enabled
    BY DEF RowTellsRun, ChatIInv, ChatTypeOK
  <2>1. KeepsLast(c) /\ RowFollows(c) /\ (c.row = "succeeded" => Success(c)) /\ (c.sent.browser => "bridge" \in Enabled)
    BY DEF ChatIInv, ChatHolds
  <2>2. c.row = "succeeded" =>
          /\ c.code < 400
          /\ \A payload \in {"ok", "failed", "incomplete"} : ~Latest(c.told, "error", payload)
          /\ Latest(c.told, "final", "ok") \/ (c.path.kind = "chat" /\ Latest(c.told, "final", "bare"))
    BY <2>1 DEF KeepsLast, Success, Content, Payloads
  <2>3. c.sent \in SentBodies
    BY DEF ChatRow
  <2>4. ~c.sent.forged /\ c.sent.connectors \subseteq Enabled /\ c.sent.model \in Models \cup {""}
    BY <2>3 DEF SentBodies
  <2>5. QED
    BY <2>1, <2>2, <2>4 DEF RowFollows
<1>2. QED
  BY <1>1, ChatInductive, PTL

-----------------------------------------------------------------------------
(* The usage sums: the inductive invariant.                                *)

\* A run whose row is gone and whose day no prune opens again
PrunedForGood(r) == runs[r].status = "pruned" /\ ~Reopened(runs[r].day)

\* Their sums keep them.
SumsKept == \A r \in Run : PrunedForGood(r) => r \in sums[runs[r].day].finished

\* A day is pruned only after it has left the retention.
PrunedLongAgo == \A r \in Run : runs[r].status = "pruned" => runs[r].day < today - Retention

\* Their days come before the days of the runs that are kept.
PrunedFirst == \A r, s \in Run : PrunedForGood(r) /\ Present(s) => runs[r].day < runs[s].day

\* Active rows past the retention are the late ones.
RunsDated == \A r \in Run :
    /\ Present(r) => runs[r].day <= today
    /\ runs[r].status = "active" /\ runs[r].day < today - Retention => r \in late
    /\ r \in late => runs[r].status # "none"

\* A pass is at most a day old and its places agree with its list.
PassesYoung == \A p \in Roller :
    /\ pass[p].at # "idle" => pass[p].born <= today /\ pass[p].born >= today - 1
    /\ pass[p].reading # 0 => /\ pass[p].reading \in pass[p].days
                              /\ pass[p].at \in {"recent", "old"}
    /\ pass[p].at = "delete" => pass[p].days = {}

\* The panel stays within the day before its refresh began.
PanelRecent == \A p \in Panel :
    /\ pass[p].at \in {"idle", "recent"}
    /\ \A d \in pass[p].days : d >= pass[p].born - 1

\* While the worker rolls its window up, nothing pruned is in it.
WindowKept == pass[Worker].at = "recent" =>
    /\ \A d \in pass[Worker].days : d > pass[Worker].born - Window
    /\ \A r \in Run : runs[r].status = "pruned" => runs[r].day < pass[Worker].born - Retention

\* While it prunes, every kept run before the cutoff is counted or still to be.
OldKept == pass[Worker].at \in {"old", "delete"} =>
    /\ pass[Worker].cutoff <= today - Retention
    /\ \A d \in pass[Worker].days, r \in Run : PrunedForGood(r) => runs[r].day < d
    /\ \A r \in Run : Present(r) /\ runs[r].day < pass[Worker].cutoff /\ ~Reopened(runs[r].day) =>
        /\ runs[r].day \in pass[Worker].days \/ r \in sums[runs[r].day].finished
        /\ runs[r].day = pass[Worker].reading => r \in pass[Worker].seen.finished

IInv == /\ TypeOK /\ SumsKept /\ PrunedLongAgo /\ PrunedFirst /\ RunsDated
        /\ PassesYoung /\ PanelRecent /\ WindowKept /\ OldKept

THEOREM InitIInv == Init => IInv
<1> SUFFICES ASSUME Init PROVE IInv
  OBVIOUS
<1> USE DaysAssumption
<1>1. TypeOK
  <2>1. Idle \in Pass /\ NoSums \in DaySums /\ 1 \in Day
    BY DEF Idle, Pass, Places, DaySums, NoSums, Day
  <2>2. runs \in [Run -> Execution]
    BY <2>1 DEF Init, Execution, RunStatuses
  <2>3. sums \in [Day -> DaySums] /\ pass \in [Roller -> Pass]
    BY <2>1 DEF Init
  <2>4. today \in Day /\ aborts \in 0 .. MaxAborts
    BY <2>1 DEF Init
  <2> QED
    BY <2>2, <2>3, <2>4 DEF Init, TypeOK
<1>2. SumsKept /\ PrunedLongAgo /\ PrunedFirst /\ RunsDated
  BY DEF Init, SumsKept, PrunedForGood, PrunedLongAgo, PrunedFirst, RunsDated, Present
<1>3. PassesYoung /\ PanelRecent /\ WindowKept /\ OldKept
  BY DEF Init, PassesYoung, PanelRecent, WindowKept, OldKept, Idle, Roller
<1> QED
  BY <1>1, <1>2, <1>3 DEF IInv

-----------------------------------------------------------------------------
(* Executions and days *)

LEMMA BeginRunKeeps == ASSUME Apart, IInv, NEW r0 \in Run, Begin(r0) PROVE IInv'
<1> USE DaysAssumption DEF IInv, Begin
<1>1. /\ runs' \in [Run -> Execution]
      /\ runs'[r0].status = "active" /\ runs'[r0].day = today
      /\ \A r \in Run : r # r0 => runs'[r] = runs[r]
  BY DEF TypeOK, Execution, RunStatuses
<1>2. \A r \in Run : runs'[r].status = "pruned" => r # r0 /\ runs'[r] = runs[r]
  BY <1>1
<1>3. TypeOK' /\ late \subseteq Run /\ r0 \notin late
  BY <1>1 DEF TypeOK, RunsDated
<1>a. \A day : Reopened(day)' <=> Reopened(day)
  BY <1>1, <1>3 DEF Reopened
<1>b. \A r \in Run : PrunedForGood(r)' => r # r0 /\ runs'[r] = runs[r] /\ PrunedForGood(r)
  BY <1>2, <1>a DEF PrunedForGood
<1>4. SumsKept'
  BY <1>b DEF SumsKept
<1>5. PrunedLongAgo'
  BY <1>2 DEF PrunedLongAgo
<1>6. PrunedFirst'
  <2> SUFFICES ASSUME NEW r \in Run, NEW s \in Run,
                      PrunedForGood(r)', Present(s)'
               PROVE runs'[r].day < runs'[s].day
    BY DEF PrunedFirst
  <2>1. runs'[r] = runs[r] /\ PrunedForGood(r) /\ runs[r].status = "pruned"
    BY <1>b DEF PrunedForGood
  <2>2. runs[r].day < today - Retention /\ runs[r].day \in Day /\ today \in Day
    BY <2>1 DEF PrunedLongAgo, TypeOK, Execution
  <2>3. CASE s = r0
    BY <2>1, <2>2, <2>3, <1>1 DEF Day
  <2>4. CASE s # r0
    BY <2>1, <2>4, <1>1 DEF PrunedFirst, Present
  <2> QED
    BY <2>3, <2>4
<1>7. RunsDated'
  BY <1>1 DEF RunsDated, Present, TypeOK, Day
<1>8. PassesYoung' /\ PanelRecent'
  BY DEF PassesYoung, PanelRecent
<1>9. WindowKept'
  BY <1>2 DEF WindowKept
<1>10. OldKept'
  <2> SUFFICES ASSUME pass[Worker].at \in {"old", "delete"} PROVE OldKept'
    BY DEF OldKept
  <2>1. pass[Worker].cutoff <= today
    BY DEF OldKept, TypeOK, Day, Pass, Roller
  <2>2. \A r \in Run : Present(r)' /\ runs'[r].day < pass[Worker].cutoff
                        => runs'[r] = runs[r] /\ Present(r)
    <3> SUFFICES ASSUME runs'[r0].day < pass[Worker].cutoff PROVE FALSE
      BY <1>1 DEF Present
    <3> QED
      BY <2>1, <1>1 DEF TypeOK, Day, Pass, Roller
  <2> QED
    BY <1>a, <1>b, <2>2 DEF OldKept
<1> QED
  BY <1>3, <1>4, <1>5, <1>6, <1>7, <1>8, <1>9, <1>10

\* Finishing and requeueing keep a run, its day, and what is pruned.
Touches(r0, status) ==
    /\ Present(r0) /\ status \in {"active", "ended"}
    /\ runs' = [runs EXCEPT ![r0].status = status]
    /\ late' \subseteq Run /\ late \subseteq late' /\ late' \subseteq late \cup {r0}
    /\ status = "active" /\ runs[r0].day < today - Retention => r0 \in late'
    /\ UNCHANGED <<today, sums, throttled, pass, aborts>>

LEMMA TouchKeeps ==
  ASSUME Apart, IInv, NEW r0 \in Run, NEW status, Touches(r0, status)
  PROVE  IInv'
<1>1. /\ runs' \in [Run -> Execution]
      /\ runs'[r0].status = status /\ runs'[r0].day = runs[r0].day
      /\ \A r \in Run : r # r0 => runs'[r] = runs[r]
  BY DEF IInv, Touches, TypeOK, Execution, RunStatuses
<1>2. \A r \in Run : /\ (runs'[r].status = "pruned" <=> runs[r].status = "pruned")
                     /\ runs'[r].day = runs[r].day
                     /\ (Present(r)' <=> Present(r))
  BY <1>1 DEF Touches, Present
<1>3. UNCHANGED <<today, sums, throttled, pass, aborts>>
  BY DEF Touches
<1>a. \A day : Reopened(day) => Reopened(day)'
  BY <1>2 DEF Reopened, Touches, IInv, TypeOK
<1>b. \A r \in Run : PrunedForGood(r)' => PrunedForGood(r) /\ runs'[r].day = runs[r].day
  BY <1>2, <1>a DEF PrunedForGood
<1> USE <1>3 DEF IInv
<1>4. TypeOK'
  BY <1>1 DEF TypeOK, Touches
<1>5. SumsKept' /\ PrunedLongAgo'
  BY <1>2, <1>b DEF SumsKept, PrunedLongAgo
<1>6. PrunedFirst'
  BY <1>2, <1>b DEF PrunedFirst, Present
<1>7. RunsDated'
  <2>1. \A r \in Run : Present(r)' => runs'[r].day <= today
    BY <1>2 DEF RunsDated
  <2>2. \A r \in Run : runs'[r].status = "active" /\ runs'[r].day < today - Retention => r \in late'
    BY <1>1, <1>2 DEF RunsDated, Touches
  <2>3. \A r \in Run : r \in late' => runs'[r].status # "none"
    BY <1>1 DEF RunsDated, Touches
  <2> QED
    BY <2>1, <2>2, <2>3 DEF RunsDated
<1>8. PassesYoung' /\ PanelRecent'
  BY DEF PassesYoung, PanelRecent
<1>9. WindowKept'
  BY <1>2 DEF WindowKept
<1>10. OldKept'
  BY <1>2, <1>a, <1>b DEF OldKept, Present
<1> QED
  BY <1>4, <1>5, <1>6, <1>7, <1>8, <1>9, <1>10

LEMMA FinishKeeps == ASSUME Apart, IInv, NEW r \in Run, Finish(r) PROVE IInv'
<1>1. Touches(r, "ended")
  BY DEF IInv, TypeOK, Finish, Touches, Present
<1> QED
  BY <1>1, TouchKeeps

LEMMA RequeueKeeps == ASSUME Apart, IInv, NEW r \in Run, Requeue(r) PROVE IInv'
<1>1. Touches(r, "active")
  BY DEF IInv, TypeOK, Requeue, Touches, Present
<1> QED
  BY <1>1, TouchKeeps

LEMMA NextDayKeeps == ASSUME Apart, IInv, NextDay PROVE IInv'
<1>1. /\ today \in Int /\ Retention \in Int /\ today' = today + 1 /\ today' \in Day
      /\ UNCHANGED <<runs, sums, throttled, pass, aborts>>
      /\ late' = late \cup Overdue(today + 1)
  BY DaysAssumption DEF NextDay, IInv, TypeOK, Day
<1>2. \A r \in Run : runs[r].day \in Int
  BY DEF IInv, TypeOK, Execution, Day
<1>3. TypeOK'
  BY <1>1 DEF IInv, TypeOK, Overdue
<1>a. \A day : Reopened(day) => Reopened(day)'
  BY <1>1 DEF Reopened
<1>b. \A r \in Run : PrunedForGood(r)' => PrunedForGood(r) /\ runs'[r].day = runs[r].day
  BY <1>1, <1>a DEF PrunedForGood
<1>4. SumsKept' /\ PrunedFirst' /\ PanelRecent' /\ WindowKept'
  BY <1>1, <1>b DEF IInv, SumsKept, PrunedFirst, PanelRecent, WindowKept, Present
<1>5. PrunedLongAgo'
  BY <1>1, <1>2 DEF IInv, PrunedLongAgo
<1>6. RunsDated'
  <2>1. \A r \in Run : Present(r) => runs[r].day <= today + 1
    BY <1>1, <1>2 DEF IInv, RunsDated
  <2>2. \A r \in Run : r \in late' => runs[r].status # "none"
    BY <1>1 DEF IInv, RunsDated, Overdue
  <2> QED
    BY <1>1, <2>1, <2>2 DEF RunsDated, Present, Overdue
<1>7. PassesYoung'
  BY <1>1 DEF IInv, PassesYoung, NextDay
<1>8. OldKept'
  <2>1. pass[Worker].cutoff \in Int
    BY DEF IInv, TypeOK, Roller, Pass
  <2> QED
    BY <1>1, <1>a, <1>b, <2>1 DEF IInv, OldKept, Present
<1> QED
  BY <1>3, <1>4, <1>5, <1>6, <1>7, <1>8 DEF IInv

-----------------------------------------------------------------------------
(* Passes *)

\* A step of one roller that leaves the executions alone
PassStep(p, x) ==
    /\ pass' = [pass EXCEPT ![p] = x]
    /\ UNCHANGED <<today, runs, late>>

LEMMA OnePass ==
  ASSUME IInv, NEW p \in Roller, NEW x \in Pass, PassStep(p, x)
  PROVE  /\ pass' \in [Roller -> Pass] /\ pass'[p] = x
         /\ \A q \in Roller : q # p => pass'[q] = pass[q]
         /\ UNCHANGED <<today, runs, late>> /\ \A day : Reopened(day)' <=> Reopened(day)
         /\ \A r \in Run : PrunedForGood(r)' <=> PrunedForGood(r)
BY DEF IInv, TypeOK, PassStep, Reopened, PrunedForGood

\* When the sums keep what is pruned and the new place of the pass is sound, the
\* invariant holds after a step of one roller.
LEMMA PassKeeps ==
  ASSUME Apart, IInv, NEW p \in Roller, NEW x \in Pass, PassStep(p, x),
         sums' \in [Day -> DaySums], throttled' \in BOOLEAN, aborts' \in 0 .. MaxAborts,
         SumsKept',
         x.at # "idle" => x.born <= today /\ x.born >= today - 1,
         x.reading # 0 => x.reading \in x.days /\ x.at \in {"recent", "old"},
         x.at = "delete" => x.days = {},
         p \in Panel => x.at \in {"idle", "recent"} /\ \A d \in x.days : d >= x.born - 1,
         WindowKept', OldKept'
  PROVE  IInv'
<1>1. /\ pass' \in [Roller -> Pass] /\ pass'[p] = x
      /\ \A q \in Roller : q # p => pass'[q] = pass[q]
      /\ UNCHANGED <<today, runs, late>> /\ \A r \in Run : PrunedForGood(r)' <=> PrunedForGood(r)
  BY OnePass
<1>2. TypeOK'
  BY <1>1 DEF IInv, TypeOK
<1>3. PrunedLongAgo' /\ PrunedFirst' /\ RunsDated'
  BY <1>1 DEF IInv, PrunedLongAgo, PrunedFirst, RunsDated, Present
<1>4. PassesYoung'
  BY <1>1 DEF IInv, PassesYoung
<1>5. PanelRecent'
  BY <1>1 DEF IInv, PanelRecent, Roller
<1> QED
  BY <1>2, <1>3, <1>4, <1>5 DEF IInv

\* The panel's steps cannot touch what the worker is at, nor the pruned days.
LEMMA PanelKeeps ==
  ASSUME Apart, IInv, NEW p \in Panel, NEW x \in Pass, PassStep(p, x),
         sums' \in [Day -> DaySums], throttled' \in BOOLEAN, aborts' \in 0 .. MaxAborts,
         \A d \in Day : d < today - Retention => sums'[d] = sums[d],
         x.at # "idle" => x.born <= today /\ x.born >= today - 1,
         x.reading # 0 => x.reading \in x.days /\ x.at = "recent",
         x.at \in {"idle", "recent"}, \A d \in x.days : d >= x.born - 1
  PROVE  IInv'
<1>1. p \in Roller /\ p # Worker /\ Worker \in Roller
  BY RollersAssumption DEF Roller
<1>2. /\ pass'[Worker] = pass[Worker] /\ UNCHANGED <<today, runs>>
      /\ \A day : Reopened(day)' <=> Reopened(day)
      /\ \A r \in Run : PrunedForGood(r)' <=> PrunedForGood(r)
  BY <1>1, OnePass
<1>3. \A r \in Run : runs[r].day \in Day
  BY DEF IInv, TypeOK, Execution
<1>4. SumsKept'
  BY <1>2, <1>3 DEF IInv, SumsKept, PrunedLongAgo, PrunedForGood
<1>5. WindowKept'
  BY <1>2 DEF IInv, WindowKept
<1>6. OldKept'
  <2>1. pass[Worker].cutoff \in Int /\ today \in Int /\ Retention \in Int /\ Day \subseteq Int
    BY <1>1, DaysAssumption DEF IInv, TypeOK, Pass, Day
  <2>2. pass[Worker].at \in {"old", "delete"} =>
            \A r \in Run : runs[r].day < pass[Worker].cutoff
                => sums'[runs[r].day] = sums[runs[r].day]
    <3> SUFFICES ASSUME pass[Worker].at \in {"old", "delete"}, NEW r \in Run,
                        runs[r].day < pass[Worker].cutoff
                 PROVE  sums'[runs[r].day] = sums[runs[r].day]
      OBVIOUS
    <3>1. pass[Worker].cutoff <= today - Retention
      BY DEF IInv, OldKept
    <3>2. runs[r].day \in Day /\ runs[r].day \in Int
      BY <2>1, <1>3
    <3>3. runs[r].day < today - Retention
      BY <2>1, <3>1, <3>2
    <3> QED
      BY <3>2, <3>3
  <2> QED
    BY <2>2, <1>2 DEF IInv, OldKept, Present
<1> QED
  BY <1>1, <1>4, <1>5, <1>6, PassKeeps

\* The record of a pass that sets out
LEMMA SetsOut ==
  ASSUME NEW place \in Places, NEW days \in SUBSET Day, NEW born \in Day, NEW cutoff \in Int
  PROVE  LET x == NewPass(place, days, born, cutoff)
         IN  /\ x \in Pass /\ x.at = place /\ x.days = days /\ x.born = born
             /\ x.cutoff = cutoff /\ x.reading = 0
<1>1. NoSums \in DaySums
  BY DEF NoSums, DaySums
<1>2. 0 \in 0 .. LastDay
  BY DaysAssumption
<1> QED
  BY <1>1, <1>2 DEF Idle, Pass, NewPass

LEMMA RefreshKeeps == ASSUME Apart, IInv, NEW p \in Panel, Refresh(p) PROVE IInv'
<1> DEFINE x == NewPass("recent", LastDays(2), today, 0)
<1>1. today \in Day /\ today \in Int /\ LastDays(2) \in SUBSET Day
  BY DaysAssumption DEF IInv, TypeOK, Day, LastDays
<1>2. /\ x \in Pass /\ x.at = "recent" /\ x.days = LastDays(2) /\ x.born = today
      /\ x.reading = 0
  BY <1>1, SetsOut DEF Places
<1>3. PassStep(p, x) /\ UNCHANGED <<sums, aborts>> /\ throttled' = TRUE
  BY DEF Refresh, RollUp, PassStep
<1> HIDE DEF x
<1>4. \A d \in x.days : d >= x.born - 1
  BY <1>1, <1>2 DEF LastDays, Day
<1>5. sums' \in [Day -> DaySums] /\ throttled' \in BOOLEAN /\ aborts' \in 0 .. MaxAborts
  BY <1>3 DEF IInv, TypeOK
<1>6. x.born <= today /\ x.born >= today - 1
  BY <1>1, <1>2
<1> QED
  BY <1>2, <1>3, <1>4, <1>5, <1>6, PanelKeeps

LEMMA RollUpRecentKeeps == ASSUME Apart, IInv, RollUpRecent PROVE IInv'
<1> DEFINE x == NewPass("recent", LastDays(Window), today, 0)
<1>1. today \in Day /\ today \in Int /\ LastDays(Window) \in SUBSET Day
  BY DaysAssumption DEF IInv, TypeOK, Day, LastDays
<1>2. /\ x \in Pass /\ x.at = "recent" /\ x.days = LastDays(Window) /\ x.born = today
      /\ x.reading = 0
  BY <1>1, SetsOut DEF Places
<1>3. PassStep(Worker, x) /\ UNCHANGED <<sums, aborts, throttled>> /\ Worker \in Roller
  BY DEF RollUpRecent, RollUpLast, RollUp, PassStep, Roller
<1> HIDE DEF x
<1>4. pass'[Worker] = x /\ UNCHANGED <<today, runs>> /\ (\A day : Reopened(day)' <=> Reopened(day))
      /\ \A r \in Run : PrunedForGood(r)' <=> PrunedForGood(r)
  BY <1>2, <1>3, OnePass
<1>5. SumsKept'
  BY <1>3, <1>4 DEF IInv, SumsKept
<1>6. WindowKept'
  BY <1>1, <1>2, <1>4 DEF IInv, WindowKept, PrunedLongAgo, LastDays
<1>7. OldKept'
  BY <1>2, <1>4 DEF OldKept
<1>8. x.born <= today /\ x.born >= today - 1
  BY <1>1, <1>2
<1>9. sums' \in [Day -> DaySums] /\ throttled' \in BOOLEAN /\ aborts' \in 0 .. MaxAborts
  BY <1>3 DEF IInv, TypeOK
<1>10. Worker \notin Panel
  BY RollersAssumption
<1>11. (x.reading # 0 => x.reading \in x.days /\ x.at \in {"recent", "old"}) /\ x.at # "delete"
  BY <1>2
<1> QED
  BY <1>2, <1>3, <1>5, <1>6, <1>7, <1>8, <1>9, <1>10, <1>11, PassKeeps

\* Where the days of a pass lie, seen from a run whose row is gone
LEMMA DaysUnpruned ==
  ASSUME Apart, IInv, NEW p \in Roller, pass[p].at \in {"recent", "old"},
         NEW d \in pass[p].days, NEW r \in Run, PrunedForGood(r)
  PROVE  runs[r].day < d
<1>0. runs[r].status = "pruned"
  BY DEF PrunedForGood
<1>1. /\ today \in Int /\ Retention \in Int /\ Window \in Int /\ runs[r].day \in Int
      /\ pass[p].born \in Int /\ d \in Int
  BY DaysAssumption DEF IInv, TypeOK, Execution, Pass, Day
<1>2. CASE p \in Panel
  <2>1. d >= pass[p].born - 1 /\ pass[p].born >= today - 1 /\ runs[r].day < today - Retention
    BY <1>0, <1>2 DEF IInv, PanelRecent, PassesYoung, PrunedLongAgo
  <2> QED
    BY <1>1, <2>1 DEF Apart
<1>3. CASE p = Worker /\ pass[p].at = "recent"
  <2>1. d > pass[p].born - Window /\ runs[r].day < pass[p].born - Retention
    BY <1>0, <1>3 DEF IInv, WindowKept
  <2> QED
    BY <1>1, <2>1 DEF Apart
<1>4. CASE p = Worker /\ pass[p].at = "old"
  BY <1>4 DEF IInv, OldKept
<1> QED
  BY <1>2, <1>3, <1>4 DEF Roller

LEMMA ReadDayKeeps ==
  ASSUME Apart, IInv, NEW p \in Roller, NEW d \in Day, ReadDay(p, d) PROVE IInv'
<1> DEFINE read == [counted  |-> {r \in Run : Present(r) /\ runs[r].day = d},
                    finished |-> {r \in Run : runs[r].status = "ended" /\ runs[r].day = d}]
           x == [pass[p] EXCEPT !.reading = d, !.seen = read]
<1>1. read \in DaySums /\ read.finished = {r \in Run : runs[r].status = "ended" /\ runs[r].day = d}
  BY DEF DaySums
<1>2. pass[p] \in Pass /\ d \in 0 .. LastDay
  BY DaysAssumption DEF IInv, TypeOK, Day
<1>3. PassStep(p, x) /\ UNCHANGED <<sums, throttled, aborts>>
  BY DEF ReadDay, PassStep
<1> HIDE DEF read
<1>4. /\ x \in Pass /\ x.reading = d /\ x.seen = read /\ x.at = pass[p].at
      /\ x.days = pass[p].days /\ x.born = pass[p].born /\ x.cutoff = pass[p].cutoff
  BY <1>1, <1>2 DEF Pass
<1> HIDE DEF x
<1>5. pass[p].at \in {"recent", "old"} /\ d \in pass[p].days
  BY DEF ReadDay
<1>6. sums' \in [Day -> DaySums] /\ throttled' \in BOOLEAN /\ aborts' \in 0 .. MaxAborts
  BY <1>3 DEF IInv, TypeOK
<1>7. x.born <= today /\ x.born >= today - 1
  BY <1>4, <1>5 DEF IInv, PassesYoung
<1>8. CASE p \in Panel
  <2>1. x.at = "recent" /\ \A e \in x.days : e >= x.born - 1
    BY <1>4, <1>5, <1>8 DEF IInv, PanelRecent
  <2> QED
    BY <1>3, <1>4, <1>5, <1>6, <1>7, <1>8, <2>1, PanelKeeps
<1>9. CASE p = Worker
  <2>1. pass'[Worker] = x /\ UNCHANGED <<today, runs>> /\ (\A day : Reopened(day)' <=> Reopened(day))
      /\ \A r \in Run : PrunedForGood(r)' <=> PrunedForGood(r)
    BY <1>3, <1>4, <1>9, OnePass
  <2>2. SumsKept'
    BY <1>3, <2>1 DEF IInv, SumsKept
  <2>3. WindowKept'
    BY <1>4, <1>9, <2>1 DEF IInv, WindowKept
  <2>4. OldKept'
    <3>1. pass[Worker].at = "old" => \A r \in Run :
            Present(r) /\ runs[r].day < pass[Worker].cutoff /\ ~Reopened(runs[r].day)
                => runs[r].status = "ended"
      <4>1. \A r \in Run : runs[r].day \in Int
        BY DEF IInv, TypeOK, Execution, Day
      <4>2. pass[Worker].cutoff \in Int /\ today \in Int /\ Retention \in Int
        BY <1>2, <1>9, DaysAssumption DEF IInv, TypeOK, Pass, Day
      <4> QED
        BY <4>1, <4>2 DEF IInv, OldKept, RunsDated, Present, Reopened
    <3>2. pass[Worker].at = "old" => \A r \in Run :
            Present(r) /\ runs[r].day < pass[Worker].cutoff /\ ~Reopened(runs[r].day) /\ runs[r].day = d
                => r \in read.finished
      BY <3>1, <1>1
    <3> QED
      BY <1>3, <1>4, <1>5, <1>9, <2>1, <3>2 DEF IInv, OldKept, Present
  <2> QED
    BY <1>3, <1>4, <1>5, <1>6, <1>7, <1>9, <2>2, <2>3, <2>4, RollersAssumption, PassKeeps
<1> QED
  BY <1>8, <1>9 DEF Roller

LEMMA WriteDayKeeps == ASSUME Apart, IInv, NEW p \in Roller, WriteDay(p) PROVE IInv'
<1> DEFINE d == pass[p].reading
           rest == pass[p].days \ {d}
           x == [pass[p] EXCEPT !.reading = 0, !.seen = NoSums, !.days = rest,
                    !.at = IF rest = {} THEN AfterDays(p, pass[p].at) ELSE pass[p].at]
<1>1. d # 0 /\ d \in pass[p].days /\ pass[p].at \in {"recent", "old"}
  BY DEF WriteDay, IInv, PassesYoung
<1>2. pass[p] \in Pass /\ NoSums \in DaySums /\ 0 \in 0 .. LastDay
  BY DaysAssumption DEF IInv, TypeOK, NoSums, DaySums
<1>3. d \in Day /\ rest \in SUBSET Day /\ pass[p].seen \in DaySums
  BY <1>1, <1>2 DEF Pass
<1>4. PassStep(p, x) /\ UNCHANGED <<throttled, aborts>> /\ sums' = [sums EXCEPT ![d] = pass[p].seen]
  <2>1. pass' = [pass EXCEPT ![p] = x]
    BY DEF WriteDay
  <2>2. UNCHANGED <<today, runs, throttled, aborts, late>> /\ sums' = [sums EXCEPT ![d] = pass[p].seen]
    BY DEF WriteDay
  <2> QED
    BY <2>1, <2>2 DEF PassStep
<1>5. /\ sums' \in [Day -> DaySums] /\ sums'[d] = pass[p].seen
      /\ \A e \in Day : e # d => sums'[e] = sums[e]
      /\ throttled' \in BOOLEAN /\ aborts' \in 0 .. MaxAborts
  BY <1>3, <1>4 DEF IInv, TypeOK
<1> HIDE DEF d, rest
<1>6. AfterDays(p, pass[p].at) \in {"delete", "plan", "idle"}
  BY DEF AfterDays
<1>7. /\ x \in Pass /\ x.reading = 0 /\ x.days = rest /\ x.born = pass[p].born
      /\ x.cutoff = pass[p].cutoff
      /\ x.at = IF rest = {} THEN AfterDays(p, pass[p].at) ELSE pass[p].at
  BY <1>2, <1>3, <1>6 DEF Pass, Places
<1> HIDE DEF x
<1>8. x.born <= today /\ x.born >= today - 1
  BY <1>1, <1>7 DEF IInv, PassesYoung
<1>9. CASE p \in Panel
  <2>1. x.at \in {"idle", "recent"} /\ p # Worker
    BY <1>1, <1>7, <1>9, RollersAssumption DEF IInv, PanelRecent, AfterDays
  <2>2. \A e \in pass[p].days : e >= pass[p].born - 1
    BY <1>9 DEF IInv, PanelRecent
  <2>3. \A e \in x.days : e >= x.born - 1
    BY <1>7, <2>2 DEF rest
  <2>4. d >= today - Retention
    <3>1. today \in Int /\ pass[p].born \in Int /\ d \in Int /\ Retention \in Int
      BY <1>2, <1>3, DaysAssumption DEF IInv, TypeOK, Pass, Day
    <3>2. d >= pass[p].born - 1 /\ pass[p].born >= today - 1
      BY <1>1, <2>2 DEF IInv, PassesYoung
    <3> QED
      BY <3>1, <3>2 DEF Apart
  <2>5. \A e \in Day : e < today - Retention => sums'[e] = sums[e]
    <3>1. \A e \in Day : e < today - Retention => e # d
      BY <2>4, <1>3, DaysAssumption DEF IInv, TypeOK, Day
    <3> QED
      BY <3>1, <1>5
  <2> QED
    BY <1>4, <1>5, <1>7, <1>8, <1>9, <2>1, <2>3, <2>5, PanelKeeps
<1>10. CASE p = Worker
  <2>1. pass'[Worker] = x /\ UNCHANGED <<today, runs>> /\ (\A day : Reopened(day)' <=> Reopened(day))
      /\ \A r \in Run : PrunedForGood(r)' <=> PrunedForGood(r)
    BY <1>4, <1>7, <1>10, OnePass
  <2>2. SumsKept'
    <3> SUFFICES ASSUME NEW r \in Run, PrunedForGood(r)
                 PROVE  r \in sums'[runs[r].day].finished
      BY <2>1 DEF SumsKept
    <3>1. runs[r].day < d /\ runs[r].day \in Day
      BY <1>1, DaysUnpruned DEF IInv, TypeOK, Execution
    <3>2. runs[r].day # d
      BY <3>1, <1>3 DEF Day
    <3> QED
      BY <3>1, <3>2, <1>5 DEF IInv, SumsKept
  <2>3. WindowKept'
    BY <1>1, <1>6, <1>7, <1>10, <2>1 DEF IInv, WindowKept, rest
  <2>4. OldKept'
    <3> SUFFICES ASSUME x.at \in {"old", "delete"} PROVE OldKept'
      BY <2>1 DEF OldKept
    <3>1. pass[Worker].at = "old"
      BY <1>1, <1>7, <1>10 DEF AfterDays
    <3>2. x.cutoff <= today - Retention
      BY <1>7, <1>10, <3>1 DEF IInv, OldKept
    <3>3. \A e \in x.days, r \in Run : PrunedForGood(r) => runs[r].day < e
      BY <1>7, <1>10, <3>1 DEF IInv, OldKept, rest
    <3>4. ASSUME NEW r \in Run, Present(r), runs[r].day < x.cutoff, ~Reopened(runs[r].day)
          PROVE  /\ runs[r].day \in x.days \/ r \in sums'[runs[r].day].finished
                 /\ runs[r].day # x.reading
      <4>1. runs[r].day \in Day /\ runs[r].day # 0
        BY DEF IInv, TypeOK, Execution, Day
      <4>2. CASE runs[r].day = d
        BY <1>5, <1>7, <1>10, <3>1, <3>4, <4>1, <4>2 DEF IInv, OldKept, d
      <4>3. CASE runs[r].day # d
        BY <1>5, <1>7, <1>10, <3>1, <3>4, <4>1, <4>3 DEF IInv, OldKept, rest
      <4> QED
        BY <4>2, <4>3
    <3> QED
      BY <2>1, <3>2, <3>3, <3>4 DEF OldKept, Present
  <2>5. x.at = "delete" => x.days = {}
    BY <1>1, <1>7
  <2>6. p \notin Panel
    BY <1>10, RollersAssumption
  <2> QED
    BY <1>4, <1>5, <1>7, <1>8, <1>10, <2>2, <2>3, <2>4, <2>5, <2>6, PassKeeps
<1> QED
  BY <1>9, <1>10 DEF Roller

LEMMA PlanPruneKeeps == ASSUME Apart, IInv, PlanPrune PROVE IInv'
<1> DEFINE cutoff == today - Retention
           x == pass'[Worker]
<1>1. /\ Worker \in Roller /\ Worker \notin Panel /\ pass[Worker].at = "plan"
      /\ UNCHANGED <<today, runs, sums, throttled, aborts, late>>
      /\ (\A day : Reopened(day)' <=> Reopened(day)) /\ \A r \in Run : PrunedForGood(r)' <=> PrunedForGood(r)
  BY RollersAssumption DEF PlanPrune, Roller, Reopened, PrunedForGood
<1>2. /\ today \in Int /\ Retention \in Int /\ pass[Worker] \in Pass /\ pass[Worker].born \in Day
      /\ OldDays(cutoff) \in SUBSET Day
  BY <1>1, DaysAssumption DEF IInv, TypeOK, Day, Pass, OldDays
<1>3. CASE PassStep(Worker, Idle)
  <2>1. Idle \in Pass /\ Idle.at = "idle" /\ Idle.reading = 0 /\ Idle.days = {}
    BY DaysAssumption DEF Idle, Pass, Places, NoSums, DaySums, Day
  <2>2. pass'[Worker] = Idle
    BY <1>1, <1>3, <2>1, OnePass
  <2>3. WindowKept' /\ OldKept'
    BY <2>1, <2>2 DEF WindowKept, OldKept
  <2>4. SumsKept'
    BY <1>1 DEF IInv, SumsKept
  <2>5. sums' \in [Day -> DaySums] /\ throttled' \in BOOLEAN /\ aborts' \in 0 .. MaxAborts
    BY <1>1 DEF IInv, TypeOK
  <2> QED
    BY <1>1, <1>3, <2>1, <2>3, <2>4, <2>5, PassKeeps
<1>4. CASE PassStep(Worker, NewPass("old", OldDays(cutoff), pass[Worker].born, cutoff))
  <2> DEFINE y == NewPass("old", OldDays(cutoff), pass[Worker].born, cutoff)
  <2>1. /\ y \in Pass /\ y.at = "old" /\ y.days = OldDays(cutoff) /\ y.born = pass[Worker].born
        /\ y.cutoff = cutoff /\ y.reading = 0
    BY <1>2, SetsOut DEF Places
  <2> HIDE DEF y
  <2>2. pass'[Worker] = y
    BY <1>1, <1>4, <2>1, OnePass DEF y
  <2>3. WindowKept'
    BY <2>1, <2>2 DEF WindowKept
  <2>4. OldKept'
    <3>1. \A e \in OldDays(cutoff), r \in Run : PrunedForGood(r) => runs[r].day < e
      <4> SUFFICES ASSUME NEW e \in OldDays(cutoff), NEW r \in Run, PrunedForGood(r)
                   PROVE  runs[r].day < e
        OBVIOUS
      <4>1. PICK s \in Run : Present(s) /\ runs[s].day <= e
        BY DEF OldDays
      <4>2. runs[r].day < runs[s].day
        BY <4>1 DEF IInv, PrunedFirst
      <4>3. runs[r].day \in Int /\ runs[s].day \in Int /\ e \in Int
        BY <1>2 DEF IInv, TypeOK, Execution, Day
      <4> QED
        BY <4>1, <4>2, <4>3
    <3>2. \A r \in Run : Present(r) /\ runs[r].day < cutoff => runs[r].day \in OldDays(cutoff)
      BY DEF IInv, TypeOK, Execution, Day, OldDays
    <3>3. \A r \in Run : runs[r].day # 0
      BY DEF IInv, TypeOK, Execution, Day
    <3>4. y.cutoff <= today - Retention
      BY <1>2, <2>1
    <3> QED
      BY <1>1, <2>1, <2>2, <3>1, <3>2, <3>3, <3>4 DEF OldKept, Present
  <2>5. SumsKept'
    BY <1>1 DEF IInv, SumsKept
  <2>6. sums' \in [Day -> DaySums] /\ throttled' \in BOOLEAN /\ aborts' \in 0 .. MaxAborts
    BY <1>1 DEF IInv, TypeOK
  <2>7. y.born <= today /\ y.born >= today - 1
    BY <1>1, <2>1 DEF IInv, PassesYoung
  <2>8. PassStep(Worker, y)
    BY <1>4 DEF y
  <2> QED
    BY <1>1, <2>1, <2>3, <2>4, <2>5, <2>6, <2>7, <2>8, PassKeeps
<1> QED
  BY <1>1, <1>3, <1>4 DEF PlanPrune, RollUp, PassStep

LEMMA DeleteOldKeeps == ASSUME Apart, IInv, DeleteOld PROVE IInv'
<1> DEFINE cutoff == pass[Worker].cutoff
           Left(r) == runs[r].status = "ended" /\ runs[r].day < cutoff
<1>1. /\ Worker \in Roller /\ Worker \notin Panel /\ pass[Worker].at = "delete"
      /\ pass' = [pass EXCEPT ![Worker] = Idle]
      /\ UNCHANGED <<today, sums, throttled, aborts, late>>
  BY RollersAssumption DEF DeleteOld, DeleteOf, Roller
<1>2. /\ today \in Int /\ Retention \in Int /\ cutoff \in Int /\ cutoff <= today - Retention
      /\ pass[Worker].days = {}
  BY <1>1, DaysAssumption DEF IInv, TypeOK, Day, Pass, OldKept, PassesYoung
<1>3. /\ runs' \in [Run -> Execution]
      /\ \A r \in Run : /\ runs'[r].day = runs[r].day /\ runs[r].day \in Int
                        /\ runs[r].day \in Day
                        /\ Left(r) => runs'[r].status = "pruned"
                        /\ ~Left(r) => runs'[r] = runs[r]
  BY DEF DeleteOld, DeleteOf, IInv, TypeOK, Execution, RunStatuses, Day
<1> USE DEF Present
<1>4. \A r \in Run : /\ Present(r)' => Present(r) /\ runs'[r] = runs[r] /\ ~Left(r)
                     /\ runs'[r].status = "pruned" => runs[r].status = "pruned" \/ Left(r)
  BY <1>3 DEF Present
<1>a. \A day : Reopened(day)' <=> Reopened(day)
  BY <1>1, <1>3 DEF Reopened, IInv, TypeOK
<1>b. \A r \in Run : PrunedForGood(r)' => PrunedForGood(r) \/ (Left(r) /\ ~Reopened(runs[r].day))
  BY <1>3, <1>4, <1>a DEF PrunedForGood
<1>5. \A r \in Run : Left(r) /\ ~Reopened(runs[r].day) => Present(r) /\ r \in sums[runs[r].day].finished
  BY <1>1, <1>2 DEF IInv, OldKept, Present
<1>6. \A r \in Run : Present(r)' => runs[r].day >= cutoff \/ r \in late
  <2> SUFFICES ASSUME NEW r \in Run, Present(r)' PROVE runs[r].day >= cutoff \/ r \in late
    OBVIOUS
  <2>1. Present(r) /\ ~Left(r)
    BY <1>4
  <2>2. CASE runs[r].status = "active"
    BY <2>2, <1>2, <1>3 DEF IInv, RunsDated
  <2>3. CASE runs[r].status = "ended"
    BY <2>1, <2>3, <1>2, <1>3
  <2> QED
    BY <2>1, <2>2, <2>3 DEF Present
<1> HIDE DEF cutoff
<1>7. TypeOK'
  <2>1. Idle \in Pass
    BY DaysAssumption DEF Idle, Pass, Places, NoSums, DaySums, Day
  <2> QED
    BY <1>1, <1>3, <2>1 DEF IInv, TypeOK
<1>8. SumsKept'
  BY <1>1, <1>3, <1>b, <1>5 DEF IInv, SumsKept
<1>9. PrunedLongAgo'
  BY <1>1, <1>2, <1>3, <1>4 DEF IInv, PrunedLongAgo
<1>10. PrunedFirst'
  <2> SUFFICES ASSUME NEW r \in Run, NEW s \in Run, PrunedForGood(r)', Present(s)'
               PROVE  runs'[r].day < runs'[s].day
    BY DEF PrunedFirst
  <2>1. Present(s) /\ (runs[s].day >= cutoff \/ s \in late)
    BY <1>4, <1>6
  <2>2. CASE Left(r) /\ ~Reopened(runs[r].day)
    BY <2>1, <2>2, <1>2, <1>3 DEF Reopened
  <2>3. CASE PrunedForGood(r)
    BY <2>1, <2>3, <1>3 DEF IInv, PrunedFirst
  <2> QED
    BY <1>b, <2>2, <2>3
<1>11. RunsDated'
  BY <1>1, <1>3, <1>4 DEF IInv, RunsDated, Present
<1>12. pass'[Worker] = Idle /\ \A q \in Roller : q # Worker => pass'[q] = pass[q]
  BY <1>1 DEF IInv, TypeOK
<1>13. PassesYoung' /\ PanelRecent' /\ WindowKept' /\ OldKept'
  <2>1. Idle.at = "idle" /\ Idle.reading = 0
    BY DEF Idle
  <2>2. PassesYoung' /\ WindowKept' /\ OldKept'
    BY <1>1, <1>12, <2>1 DEF IInv, PassesYoung, WindowKept, OldKept
  <2>3. PanelRecent'
    BY <1>1, <1>12 DEF IInv, PanelRecent, Roller
  <2> QED
    BY <2>2, <2>3
<1> QED
  BY <1>7, <1>8, <1>9, <1>10, <1>11, <1>13 DEF IInv

LEMMA AbortKeeps == ASSUME Apart, IInv, NEW p \in Roller, Abort(p) PROVE IInv'
<1>1. Idle \in Pass /\ Idle.at = "idle" /\ Idle.reading = 0 /\ Idle.days = {}
  BY DaysAssumption DEF Idle, Pass, Places, NoSums, DaySums, Day
<1>2. PassStep(p, Idle) /\ UNCHANGED <<sums, throttled>>
  BY DEF Abort, PassStep
<1>3. sums' \in [Day -> DaySums] /\ throttled' \in BOOLEAN /\ aborts' \in 0 .. MaxAborts
  BY <1>2, DaysAssumption DEF Abort, IInv, TypeOK
<1>4. CASE p \in Panel
  BY <1>1, <1>2, <1>3, <1>4, PanelKeeps
<1>5. CASE p = Worker
  <2>1. pass'[Worker] = Idle /\ UNCHANGED runs /\ \A r \in Run : PrunedForGood(r)' <=> PrunedForGood(r)
    BY <1>1, <1>2, <1>5, OnePass
  <2>2. SumsKept' /\ WindowKept' /\ OldKept'
    BY <1>1, <1>2, <2>1 DEF IInv, SumsKept, WindowKept, OldKept
  <2> QED
    BY <1>1, <1>2, <1>3, <1>5, <2>2, RollersAssumption, PassKeeps
<1> QED
  BY <1>4, <1>5 DEF Roller

LEMMA StutterKeeps ==
  ASSUME IInv, throttled' \in BOOLEAN, UNCHANGED <<today, runs, sums, pass, aborts, late>>
  PROVE  IInv'
BY DEF IInv, TypeOK, SumsKept, PrunedForGood, Reopened, PrunedLongAgo, PrunedFirst, RunsDated, Present,
       PassesYoung, PanelRecent, WindowKept, OldKept

\* The inductive invariant is preserved by every step of the runs, the calendar,
\* the panel and the worker, aborted passes included.
THEOREM NextKeepsIInv == ASSUME Apart, IInv, [Next]_vars PROVE IInv'
<1>1. ASSUME NEW r \in Run, Begin(r) \/ Finish(r) \/ Requeue(r) PROVE IInv'
  BY <1>1, BeginRunKeeps, FinishKeeps, RequeueKeeps
<1>2. CASE NextDay
  BY <1>2, NextDayKeeps
<1>3. CASE Lapse \/ UNCHANGED vars
  <2>1. throttled' \in BOOLEAN /\ UNCHANGED <<today, runs, sums, pass, aborts, late>>
    BY <1>3 DEF Lapse, vars, IInv, TypeOK
  <2> QED
    BY <2>1, StutterKeeps
<1>4. CASE RollUpRecent \/ Pruning
  BY <1>4, RollUpRecentKeeps, PlanPruneKeeps, DeleteOldKeeps DEF Pruning
<1>5. ASSUME NEW p \in Roller, Refresh(p) \/ Rolling(p) \/ Abort(p) PROVE IInv'
  <2>1. CASE Refresh(p)
    BY <2>1, RefreshKeeps DEF Refresh
  <2>2. CASE Rolling(p)
    BY <2>2, ReadDayKeeps, WriteDayKeeps DEF Rolling
  <2>3. CASE Abort(p)
    BY <2>3, AbortKeeps
  <2> QED
    BY <1>5, <2>1, <2>2, <2>3
<1> QED
  BY <1>1, <1>2, <1>3, <1>4, <1>5 DEF Next

\* The sums survive the rows: whatever refreshes of the panel overlap the
\* worker's passes and wherever an error or a restart cuts a pass short, a
\* deleted execution stays counted in its day, where the retention is two days at
\* least, the window reaches one day beyond it at most, and no run of that day or
\* an earlier one was active past the retention.  Runs may be: of the days after
\* theirs nothing is said.
THEOREM SumsOutliveRuns == Spec => []SumsSurvive
<1>1. CASE Apart
  <2>1. Init => IInv
    BY InitIInv
  <2>2. IInv /\ [Next]_vars => IInv'
    BY <1>1, NextKeepsIInv
  <2>3. IInv => SumsSurvive
    BY DEF IInv, SumsKept, SumsSurvive, PrunedForGood
  <2> QED
    BY <2>1, <2>2, <2>3, PTL DEF Spec
<1>2. CASE ~Apart
  <2>1. SumsSurvive
    BY <1>2 DEF SumsSurvive
  <2> QED
    BY <2>1, PTL
<1> QED
  BY <1>1, <1>2

-----------------------------------------------------------------------------
(* Types, whatever the settings *)

LEMMA PassTypes ==
  ASSUME TypeOK
  PROVE  /\ Idle \in Pass /\ NoSums \in DaySums /\ 0 \in 0 .. LastDay
         /\ today \in Day /\ today \in Int /\ Retention \in Int
         /\ \A days : LastDays(days) \in SUBSET Day
         /\ \A cutoff : OldDays(cutoff) \in SUBSET Day
BY DaysAssumption DEF TypeOK, Idle, Pass, Places, NoSums, DaySums, Day, LastDays, OldDays

LEMMA RollingTypes ==
  ASSUME TypeOK, NEW p \in Roller, Rolling(p)
  PROVE  TypeOK'
<1>1. pass[p] \in Pass
  BY DEF TypeOK
<1>2. CASE WriteDay(p)
  <2>1. pass[p].reading \in Day /\ pass[p].seen \in DaySums
    BY <1>1, <1>2, DaysAssumption DEF WriteDay, Pass, Day
  <2>2. AfterDays(p, pass[p].at) \in Places /\ pass[p].at \in Places
    BY <1>1 DEF AfterDays, Places, Pass
  <2>3. pass' \in [Roller -> Pass]
    BY <1>1, <1>2, <2>2, PassTypes DEF WriteDay, Pass, TypeOK
  <2>4. sums' \in [Day -> DaySums]
    BY <1>2, <2>1 DEF WriteDay, TypeOK
  <2> QED
    BY <1>2, <2>3, <2>4 DEF WriteDay, TypeOK
<1>3. ASSUME NEW d \in Day, ReadDay(p, d) PROVE TypeOK'
  <2>1. d \in 0 .. LastDay
    BY DaysAssumption DEF Day
  <2>2. pass' \in [Roller -> Pass]
    BY <1>1, <1>3, <2>1 DEF ReadDay, Pass, DaySums, TypeOK
  <2> QED
    BY <1>3, <2>2 DEF ReadDay, TypeOK
<1> QED
  BY <1>2, <1>3 DEF Rolling

\* Runs, sums and passes keep their types, whatever the settings and however long
\* runs stay active.
THEOREM TypeCorrect == Spec => []TypeOK
<1>1. Init => TypeOK
  <2> SUFFICES ASSUME Init PROVE TypeOK
    OBVIOUS
  <2>1. Idle \in Pass /\ NoSums \in DaySums /\ 1 \in Day
    BY DaysAssumption DEF Idle, Pass, Places, DaySums, NoSums, Day
  <2>2. runs \in [Run -> Execution] /\ sums \in [Day -> DaySums] /\ pass \in [Roller -> Pass]
    BY <2>1 DEF Init, Execution, RunStatuses
  <2>3. today \in Day /\ aborts \in 0 .. MaxAborts
    BY <2>1, DaysAssumption DEF Init
  <2> QED
    BY <2>2, <2>3 DEF Init, TypeOK
<1>2. ASSUME TypeOK, [Next]_vars PROVE TypeOK'
  <2>1. ASSUME NEW r \in Run, Begin(r) \/ Finish(r) \/ Requeue(r) PROVE TypeOK'
    BY <1>2, <2>1 DEF Begin, Finish, Requeue, TypeOK, Execution, RunStatuses
  <2>2. CASE NextDay \/ Lapse \/ UNCHANGED vars
    <3>1. today' \in Day
      <4>1. CASE NextDay
        BY <1>2, <4>1, DaysAssumption DEF NextDay, TypeOK, Day
      <4>2. CASE today' = today
        BY <1>2, <4>2 DEF TypeOK
      <4> QED
        BY <2>2, <4>1, <4>2 DEF Lapse, vars
    <3>2. throttled' \in BOOLEAN
      BY <1>2, <2>2 DEF NextDay, Lapse, vars, TypeOK
    <3>3. UNCHANGED <<runs, sums, pass, aborts>>
      BY <2>2 DEF NextDay, Lapse, vars
    <3>4. late' \in SUBSET Run
      BY <1>2, <2>2 DEF NextDay, Lapse, vars, Overdue, TypeOK
    <3> QED
      BY <1>2, <3>1, <3>2, <3>3, <3>4 DEF TypeOK
  <2>3. CASE RollUpRecent
    <3>1. NewPass("recent", LastDays(Window), today, 0) \in Pass
      BY <1>2, PassTypes, SetsOut DEF Places
    <3> QED
      BY <1>2, <2>3, <3>1 DEF RollUpRecent, RollUpLast, RollUp, TypeOK
  <2>4. CASE PlanPrune
    <3>1. pass' = [pass EXCEPT ![Worker] = Idle]
          \/ pass' = [pass EXCEPT ![Worker] =
                        NewPass("old", OldDays(today - Retention), pass[Worker].born, today - Retention)]
      BY <2>4 DEF PlanPrune, RollUp
    <3>2. pass[Worker].born \in Day /\ today - Retention \in Int
      BY <1>2, PassTypes DEF TypeOK, Pass, Roller
    <3>3. NewPass("old", OldDays(today - Retention), pass[Worker].born, today - Retention) \in Pass
      BY <1>2, <3>2, PassTypes, SetsOut DEF Places
    <3>4. pass' \in [Roller -> Pass]
      BY <1>2, <3>1, <3>3, PassTypes DEF TypeOK
    <3> QED
      BY <1>2, <2>4, <3>4 DEF PlanPrune, TypeOK
  <2>5. CASE DeleteOld
    <3>1. runs' \in [Run -> Execution]
      BY <1>2, <2>5 DEF DeleteOld, DeleteOf, TypeOK, Execution, RunStatuses
    <3> QED
      BY <1>2, <2>5, <3>1, PassTypes DEF DeleteOld, DeleteOf, TypeOK
  <2>6. ASSUME NEW p \in Roller, Refresh(p) PROVE TypeOK'
    <3>1. NewPass("recent", LastDays(2), today, 0) \in Pass
      BY <1>2, PassTypes, SetsOut DEF Places
    <3> QED
      BY <1>2, <2>6, <3>1 DEF Refresh, RollUp, TypeOK
  <2>7. ASSUME NEW p \in Roller, Abort(p) PROVE TypeOK'
    BY <1>2, <2>7, PassTypes, DaysAssumption DEF Abort, TypeOK
  <2> QED
    BY <1>2, <2>1, <2>2, <2>3, <2>4, <2>5, <2>6, <2>7, RollingTypes DEF Next, Pruning
<1> QED
  BY <1>1, <1>2, PTL DEF Spec
================================================================================
