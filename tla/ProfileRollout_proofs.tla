------------------------ MODULE ProfileRollout_proofs ------------------------
(***************************************************************************)
(* Proofs about ProfileRollout: its types, that no assistant is recorded   *)
(* ahead of the settings row (AppliedNotAhead), that a revision stands for *)
(* one setting of the assistants (RevisionIsSettings), and that whatever   *)
(* changes the settings moves the revision (ChangeMovesRevision).          *)
(*                                                                         *)
(* None of the last three is inductive.  Unless a revision was counted up  *)
(* from an outdated copy, nothing that is held, rendered, booted or        *)
(* recorded is of a later revision than the row (Bounded).  Unless a       *)
(* mishap was met, whatever carries the row's revision carries the         *)
(* member's settings (Agrees), but for the connector whose new defaults    *)
(* the followers have yet to be given (Owed) and for a PATCH before its    *)
(* last commit (PatchOwes); and nobody carries the revision of a PATCH     *)
(* that has not committed its modes (Unused).                              *)
(***************************************************************************)
EXTENDS ProfileRollout, TLAPS

Forward == "recounted" \notin mishap

\* A stopped Portal has no request under way.
Down == ~up => \A w \in Writer : Idle(w)

\* Nothing loaded, rendered, booted, recorded or answered is of a later revision than
\* the row.
Bounded ==
    /\ secret.rev <= row.rev
    /\ \A a \in Agent : agent[a].applied <= row.rev /\ pod[a].rev <= row.rev
    /\ \A a \in Agent : poll[a].mine <= row.rev /\ poll[a].ans <= row.rev
    /\ \A w \in Writer : sess[w].out.rev <= row.rev /\ sess[w].copy.rev <= row.rev

\* What a writer knows of its request: the rollout of a seed is the background task's,
\* a connector being customized follows, a PATCH is the API's.
Asked ==
    /\ sess["sync"].at \in {"due", "read"} => sess["sync"].kind = "sync"
    /\ \A w \in Writer :
         /\ sess[w].at = "read" /\ sess[w].kind = "customize" =>
              sess[w].conn \notin sess[w].copy.custom
         /\ sess[w].at = "read" /\ sess[w].kind = "patch" => w = "patch"
         /\ sess[w].at \in {"modes", "moded"} => w = "patch"

\* A PATCH that has written nothing found what its copy gives.
Compared ==
    LET x == sess["patch"]
    IN  x.at = "read" \/ (x.at = "modes" /\ ~x.wrote) => ~Moved(x)

\* The connector whose new defaults are still to be rolled out to its followers.
Owed(c) ==
    /\ sess["sync"].at \in {"due", "read"} /\ c = sess["sync"].conn
    /\ sess["sync"].at = "due" => c \notin row.custom

Agrees(x) ==
    x.rev = row.rev => PatchOwes \/ \A c \in Conn : x.cfg[c] = Current[c] \/ Owed(c)

\* What carries a revision with settings: the Secret, the pods, what was rendered, and
\* the copy the administrator's rollout is about to render.
Synced == [rev |-> sess["sync"].copy.rev, cfg |-> Effective(sess["sync"].copy, seed)]

Carried(x) ==
    \/ x = secret
    \/ \E a \in Agent : x = pod[a]
    \/ \E w \in Writer : sess[w].at = "rendered" /\ x = sess[w].out
    \/ sess["sync"].at = "committed" /\ x = Synced

Told == \A x \in Rendered : Carried(x) => Agrees(x)

Unused == PatchHalfway => \A x \in Rendered : Carried(x) => x.rev # sess["patch"].copy.rev

IInv ==
    /\ TypeOK
    /\ Down
    /\ Forward => Bounded
    /\ Asked
    /\ mishap = {} => Compared /\ Told /\ Unused

-----------------------------------------------------------------------------
(* Types *)

LEMMA IdleTyped == IdleSession \in Session
<1>1. AnyConn \in Conn /\ AnyAgent \in Agent
  BY RolloutValues DEF AnyConn, AnyAgent
<1>2. NoSettings \in Settings
  BY DEF NoSettings, Settings, Val0
<1>. QED
  BY <1>1, <1>2 DEF IdleSession, Session, Step, Kind, Mode, Val0, Row, Rendered

LEMMA EffectiveTyped ==
    ASSUME NEW r \in Row, NEW s \in Settings
    PROVE  Effective(r, s) \in Settings
BY DEF Effective, Row, Settings

LEMMA CurrentTyped == TypeOK => Current \in Settings
BY EffectiveTyped DEF TypeOK, Current

LEMMA CountedTyped ==
    ASSUME NEW r \in Row
    PROVE  Counted(r) \in Row /\ Counted(r).rev = r.rev + 1
BY DEF Counted, Row

\* Every request leaves the row well formed and its revision alone, or counts it by one.
LEMMA NewRowTyped ==
    ASSUME NEW x \in Session, seed \in Settings
    PROVE  /\ NewRow(x) \in Row
           /\ NewRow(x).rev \in {x.copy.rev, x.copy.rev + 1}
<1>. DEFINE r == x.copy
            c == x.conn
<1>1. r \in Row /\ c \in Conn /\ x.val \in Val0 /\ x.mode \in Mode
  BY DEF Session
<1>2. /\ Saved(r, c, x.val) \in Row
      /\ Saved(r, c, x.val).rev \in {r.rev, r.rev + 1}
  <2>1. SavedQuietly(r, c, x.val) \in Row /\ SavedQuietly(r, c, x.val).rev = r.rev
    BY <1>1 DEF SavedQuietly, Row, Settings
  <2>2. Saved(r, c, x.val) =
          IF x.val = r.val[c] THEN r ELSE [SavedQuietly(r, c, x.val) EXCEPT !.rev = @ + 1]
    BY <1>1 DEF Saved, SavedQuietly, Row
  <2>. QED
    BY <1>1, <2>1, <2>2 DEF Row
<1>3. /\ Customized(r, c, seed) \in Row
      /\ Customized(r, c, seed).rev = r.rev
  BY <1>1 DEF Customized, Row, Settings
<1>4. /\ Following(r, c, seed) \in Row
      /\ Following(r, c, seed).rev \in {r.rev, r.rev + 1}
  <2>1. /\ FollowingQuietly(r, c, seed) \in Row
        /\ FollowingQuietly(r, c, seed).rev = r.rev
    BY <1>1 DEF FollowingQuietly, Row, Settings, Val0
  <2>2. Following(r, c, seed) =
          IF Effective(FollowingQuietly(r, c, seed), seed) = Effective(r, seed)
            THEN FollowingQuietly(r, c, seed)
            ELSE [FollowingQuietly(r, c, seed) EXCEPT !.rev = @ + 1]
    BY DEF Following, FollowingQuietly
  <2>. QED
    BY <1>1, <2>1, <2>2 DEF Row
<1>5. Counted(r) \in Row /\ Counted(r).rev = r.rev + 1
  BY <1>1, CountedTyped
<1>. QED
  BY <1>1, <1>2, <1>3, <1>4, <1>5 DEF NewRow

\* What a PATCH makes of its copy.
LEMMA PatchTyped ==
    ASSUME NEW x \in Session, seed \in Settings
    PROVE  /\ Patched(x.copy, x.conn, x.val, seed) \in Row
           /\ \/ Patched(x.copy, x.conn, x.val, seed) = x.copy
              \/ Patched(x.copy, x.conn, x.val, seed).rev = x.copy.rev + 1
           /\ Moded(x.copy, x.conn, x.mode) \in Row
           /\ Moded(x.copy, x.conn, x.mode).rev = x.copy.rev
           /\ Moded(x.copy, x.conn, "keep") = x.copy
<1>. DEFINE r == x.copy
            c == x.conn
            marked == Marked(r, c, x.val, seed)
<1>1. r \in Row /\ c \in Conn /\ x.val \in Val0 /\ x.mode \in Mode
  BY DEF Session
<1>2. marked \in Row /\ marked.rev = r.rev
  BY <1>1 DEF Marked, Row, Settings, Val0
<1>3. Patched(r, c, x.val, seed) = IF marked.val = r.val THEN r ELSE Counted(marked)
  BY DEF Patched
<1>4. Counted(marked) \in Row /\ Counted(marked).rev = r.rev + 1
  BY <1>2, CountedTyped
<1>5. /\ Moded(r, c, x.mode) \in Row /\ Moded(r, c, x.mode).rev = r.rev
      /\ Moded(r, c, "keep") = r
  BY <1>1 DEF Moded, Row, Mode
<1>. QED
  BY <1>1, <1>3, <1>4, <1>5

LEMMA WriteTyped ==
    ASSUME row \in Row, NEW old \in Row, NEW new \in Row
    PROVE  Write(old, new) \in Row
BY DEF Write, Row

\* A writer whose copy is the row writes what it made of it.
LEMMA WriteFresh ==
    ASSUME row \in Row, NEW new \in Row
    PROVE  Write(row, new) = new
BY DEF Write, Row

LEMMA NoPollTyped == NoPoll \in Poll
BY DEF NoPoll, Poll

LEMMA TypeInit == Init => TypeOK
<1> SUFFICES ASSUME Init PROVE TypeOK
  OBVIOUS
<1>1. seed \in Settings /\ row \in Row /\ classified \in BOOLEAN /\ row.rev = 1
  BY DEF Init, Row
<1>2. secret \in Rendered
  BY <1>1, EffectiveTyped DEF Init, Current, Rendered
<1>3. /\ agent \in [Agent -> [status : {"stopped", "restarting", "running"}, applied : Nat]]
      /\ kube \in [Agent -> {"none", "booting", "up"}]
      /\ pod \in [Agent -> Rendered]
  BY <1>2 DEF Init
<1>4. sess \in [Writer -> Session] /\ poll \in [Agent -> Poll]
  BY IdleTyped, NoPollTyped DEF Init
<1>5. up \in BOOLEAN /\ mishap \in SUBSET Mishap
  BY DEF Init
<1>6. changes \in 0..MaxChanges /\ faults \in 0..MaxFaults
  BY RolloutBounds DEF Init
<1>. QED
  BY <1>1, <1>2, <1>3, <1>4, <1>5, <1>6 DEF TypeOK

LEMMA StartupTyped == TypeOK /\ Startup => TypeOK'
<1> SUFFICES ASSUME TypeOK, Startup PROVE TypeOK'
  OBVIOUS
<1>1. CASE classified
  BY <1>1 DEF TypeOK, Startup, bounds
<1>2. CASE ~classified
  <2>. DEFINE own == {c \in Conn : row.val[c] \notin {NoVal, seed[c]}}
              new == [row EXCEPT !.custom = own,
                         !.val = [c \in Conn |-> IF c \in own THEN row.val[c] ELSE NoVal]]
  <2>1. row' = new
    BY <1>2 DEF Startup
  <2>2. new \in Row
    BY DEF TypeOK, Row, Settings, Val0
  <2>3. mishap' \in SUBSET Mishap
    BY <1>2 DEF TypeOK, Startup, Seen, Mishap
  <2>. QED
    BY <2>1, <2>2, <2>3 DEF TypeOK, Startup, bounds
<1>. QED
  BY <1>1, <1>2

LEMMA BeginTyped ==
    ASSUME TypeOK, NEW w \in Writer, NEW kind \in Kind, NEW c \in Conn, NEW v \in Val0,
           NEW m \in Mode, NEW a \in Agent, Begin(w, kind, c, v, m, a)
    PROVE  TypeOK'
<1>1. NoSettings \in Settings /\ Current \in Settings
  BY CurrentTyped DEF NoSettings, Settings, Val0
<1>2. sess' \in [Writer -> Session]
  BY <1>1, IdleTyped DEF TypeOK, Begin, Session, Step
<1>3. changes' \in 0..MaxChanges
  BY RolloutBounds DEF TypeOK, Begin
<1>. QED
  BY <1>2, <1>3 DEF TypeOK, Begin

LEMMA RequestsTyped == TypeOK /\ Requests => TypeOK'
<1> SUFFICES ASSUME TypeOK, Requests PROVE TypeOK'
  OBVIOUS
<1>. /\ AnyConn \in Conn /\ AnyAgent \in Agent /\ NoVal \in Val0
     /\ Kind = {"save", "customize", "follow", "start", "patch", "sync"}
     /\ Mode = {"keep", "system", "custom"} /\ Writer = {"ui", "patch", "sync"}
  BY RolloutValues DEF AnyConn, AnyAgent, Val0, Kind, Mode, Writer
<1>1. ASSUME NEW c \in Conn, NEW v \in Val0, SaveConnector(c, v) PROVE TypeOK'
  <2>1. Begin("ui", "save", c, v, "keep", AnyAgent)
    BY <1>1 DEF SaveConnector
  <2>. QED
    BY <2>1, BeginTyped
<1>2. ASSUME NEW c \in Conn, NEW v \in Val0, SaveSeed(c, v) PROVE TypeOK'
  <2>1. seed' \in Settings
    BY <1>2 DEF SaveSeed, TypeOK, Settings
  <2>2. sess' \in [Writer -> Session]
    BY <1>2, IdleTyped DEF SaveSeed, TypeOK, Session, Step
  <2>3. mishap' \in SUBSET Mishap
    BY <1>2 DEF TypeOK, SaveSeed, Seen, Mishap
  <2>4. changes' \in 0..MaxChanges
    BY <1>2, RolloutBounds DEF TypeOK, SaveSeed
  <2>. QED
    BY <1>2, <2>1, <2>2, <2>3, <2>4 DEF TypeOK, SaveSeed
<1>3. ASSUME NEW c \in Conn, Customize(c) PROVE TypeOK'
  <2>1. Begin("ui", "customize", c, NoVal, "custom", AnyAgent)
    BY <1>3 DEF Customize
  <2>. QED
    BY <2>1, BeginTyped
<1>4. ASSUME NEW c \in Conn, Follow(c) PROVE TypeOK'
  <2>1. Begin("ui", "follow", c, NoVal, "system", AnyAgent)
    BY <1>4 DEF Follow
  <2>. QED
    BY <2>1, BeginTyped
<1>5. ASSUME NEW c \in Conn, NEW v \in Val0, NEW m \in Mode, PatchProfile(c, v, m)
      PROVE  TypeOK'
  <2>1. Begin("patch", "patch", c, v, m, AnyAgent)
    BY <1>5 DEF PatchProfile
  <2>. QED
    BY <2>1, BeginTyped
<1>6. ASSUME NEW a \in Agent, StartAgent(a) PROVE TypeOK'
  <2>1. Begin("ui", "start", AnyConn, NoVal, "keep", a)
    BY <1>6 DEF StartAgent
  <2>. QED
    BY <2>1, BeginTyped
<1>7. ASSUME NEW a \in Agent, StopAgent(a) PROVE TypeOK'
  BY <1>7, RolloutBounds DEF TypeOK, StopAgent
<1>. QED
  BY <1>1, <1>2, <1>3, <1>4, <1>5, <1>6, <1>7 DEF Requests

LEMMA SyncReadTyped == TypeOK /\ SyncRead => TypeOK'
<1> SUFFICES ASSUME TypeOK, SyncRead PROVE TypeOK'
  OBVIOUS
<1>1. sess' \in [Writer -> Session]
  <2>1. sess["sync"] \in Session
    BY DEF TypeOK, Writer
  <2>2. CASE sess["sync"].conn \in row.custom
    BY <2>2, IdleTyped DEF TypeOK, SyncRead, Stopped, Writer
  <2>3. CASE sess["sync"].conn \notin row.custom
    <3>1. sess' = [sess EXCEPT !["sync"] =
                      [sess["sync"] EXCEPT !.at = "read", !.copy = row]]
      BY <2>3 DEF TypeOK, SyncRead, Writer
    <3>2. [sess["sync"] EXCEPT !.at = "read", !.copy = row] \in Session
      BY <2>1 DEF TypeOK, Session, Step
    <3>. QED
      BY <3>1, <3>2 DEF TypeOK
  <2>. QED
    BY <2>2, <2>3
<1>. QED
  BY <1>1 DEF TypeOK, SyncRead, bounds

LEMMA WrittenTyped ==
    ASSUME TypeOK, NEW w \in Writer, NEW new \in Row, Written(w, new)
    PROVE  row' \in Row /\ mishap' \in SUBSET Mishap /\ mishap \subseteq mishap'
<1>1. sess[w].copy \in Row
  BY DEF TypeOK, Session
<1>2. row' \in Row
  BY <1>1, WriteTyped DEF TypeOK, Written
<1>3. mishap' \in SUBSET Mishap /\ mishap \subseteq mishap'
  BY DEF TypeOK, Written, Seen, Mishap
<1>. QED
  BY <1>2, <1>3

LEMMA GoesOnTyped ==
    ASSUME TypeOK, NEW w \in Writer, NEW x \in Session, row' \in Row, GoesOn(w, x)
    PROVE  sess' \in [Writer -> Session]
<1>1. [IdleSession EXCEPT !.at = "committed", !.kind = x.kind, !.agent = x.agent,
          !.copy = IF w = "sync" THEN row' ELSE @] \in Session
  BY IdleTyped DEF Session, Step
<1>. QED
  BY <1>1 DEF TypeOK, GoesOn

LEMMA CommitTyped ==
    ASSUME TypeOK, NEW w \in Writer,
           Commit(w) \/ PatchValues(w) \/ PatchModes(w) \/ PatchRevision(w)
    PROVE  TypeOK'
<1>. DEFINE x == sess[w]
<1>1. x \in Session /\ x.copy \in Row /\ seed \in Settings
  BY DEF TypeOK, Session
<1>2. ASSUME NEW new \in Row, Written(w, new)
      PROVE  row' \in Row /\ mishap' \in SUBSET Mishap
  BY <1>2, WrittenTyped
<1>3. CASE Commit(w)
  <2>1. NewRow(x) \in Row
    BY <1>1, NewRowTyped
  <2>2. row' \in Row /\ mishap' \in SUBSET Mishap
    BY <1>2, <1>3, <2>1 DEF Commit
  <2>3. GoesOn(w, x) \/ Stopped(w)
    BY <1>3 DEF Commit
  <2>4. sess' \in [Writer -> Session]
    BY <1>1, <2>2, <2>3, GoesOnTyped, IdleTyped DEF TypeOK, Stopped
  <2>. QED
    BY <1>3, <2>2, <2>4 DEF TypeOK, Commit, bounds
<1>4. CASE PatchValues(w)
  <2>. DEFINE new == Patched(x.copy, x.conn, x.val, seed)
              y == [x EXCEPT !.at = IF x.mode = "keep" THEN "moded" ELSE "modes",
                             !.wrote = new # x.copy, !.val = NoVal,
                             !.copy = IF new # x.copy THEN row' ELSE @]
  <2>1. new \in Row
    BY <1>1, PatchTyped
  <2>2. row' \in Row /\ mishap' \in SUBSET Mishap
    BY <1>2, <1>4, <2>1 DEF PatchValues
  <2>3. sess' = [sess EXCEPT ![w] = y]
    BY <1>4 DEF PatchValues, TypeOK
  <2>4. y \in Session
    BY <1>1, <2>2 DEF Session, Step, Val0
  <2>5. sess' \in [Writer -> Session]
    BY <2>3, <2>4 DEF TypeOK
  <2>. QED
    BY <1>4, <2>2, <2>5 DEF TypeOK, PatchValues, bounds
<1>5. CASE PatchModes(w)
  <2>. DEFINE y == [x EXCEPT !.at = "moded", !.mode = "keep", !.copy = row']
  <2>1. Moded(x.copy, x.conn, x.mode) \in Row
    BY <1>1, PatchTyped
  <2>2. row' \in Row /\ mishap' \in SUBSET Mishap
    BY <1>2, <1>5, <2>1 DEF PatchModes
  <2>3. sess' = [sess EXCEPT ![w] = y]
    BY <1>5 DEF PatchModes, TypeOK
  <2>4. y \in Session
    BY <1>1, <2>2 DEF Session, Step, Mode
  <2>5. sess' \in [Writer -> Session]
    BY <2>3, <2>4 DEF TypeOK
  <2>. QED
    BY <1>5, <2>2, <2>5 DEF TypeOK, PatchModes, bounds
<1>6. CASE PatchRevision(w)
  <2>. DEFINE new == IF Moved(x) /\ ~x.wrote THEN Counted(x.copy) ELSE x.copy
  <2>1. new \in Row
    BY <1>1, CountedTyped
  <2>2. row' \in Row /\ mishap' \in SUBSET Mishap
    BY <1>2, <1>6, <2>1 DEF PatchRevision
  <2>3. GoesOn(w, x) \/ Stopped(w)
    BY <1>6 DEF PatchRevision
  <2>4. sess' \in [Writer -> Session]
    BY <1>1, <2>2, <2>3, GoesOnTyped, IdleTyped DEF TypeOK, Stopped
  <2>. QED
    BY <1>6, <2>2, <2>4 DEF TypeOK, PatchRevision, bounds
<1>. QED
  BY <1>3, <1>4, <1>5, <1>6

LEMMA WriterStepTyped ==
    ASSUME TypeOK, NEW w \in Writer, WriterStep(w)
    PROVE  TypeOK'
<1>. DEFINE x == sess[w]
<1>. x \in Session
  BY DEF TypeOK
<1>1. CASE Commit(w) \/ PatchValues(w) \/ PatchModes(w) \/ PatchRevision(w)
  BY <1>1, CommitTyped
<1>2. CASE Render(w)
  <2>. DEFINE r == IF w = "sync" THEN x.copy ELSE row
  <2>1. r \in Row
    BY DEF TypeOK, Session
  <2>2. [rev |-> r.rev, cfg |-> Effective(r, seed)] \in Rendered
    BY <2>1, EffectiveTyped DEF TypeOK, Rendered, Row
  <2>3. IdleSession.copy \in Row
    BY IdleTyped DEF Session
  <2>4. sess' = [sess EXCEPT ![w] = [x EXCEPT !.at = "rendered", !.copy = IdleSession.copy,
                    !.out = [rev |-> r.rev, cfg |-> Effective(r, seed)]]]
    BY <1>2 DEF Render, TypeOK
  <2>5. sess' \in [Writer -> Session]
    BY <2>2, <2>3, <2>4 DEF TypeOK, Session, Step
  <2>6. mishap' \in SUBSET Mishap
    BY <1>2 DEF TypeOK, Render, Seen, Mishap
  <2>. QED
    BY <1>2, <2>5, <2>6 DEF TypeOK, Render, bounds
<1>3. CASE UpsertSecret(w)
  <2>1. x.out \in Rendered
    BY DEF Session
  <2>2. NextStep(x, {a \in Agent : agent[a].status = "running"}) \in Session
    BY DEF NextStep, Session, Step
  <2>. QED
    BY <1>3, <2>1, <2>2 DEF TypeOK, UpsertSecret, bounds
<1>4. CASE RolloutDone(w)
  <2>1. x.out.rev \in Nat
    BY DEF Session, Rendered
  <2>. QED
    BY <1>4, <2>1, IdleTyped DEF TypeOK, RolloutDone, Stopped, bounds
<1>5. CASE BootAgent(w)
  <2>1. x.out.rev \in Nat /\ x.agent \in Agent
    BY DEF Session, Rendered
  <2>. QED
    BY <1>5, <2>1, IdleTyped DEF TypeOK, BootAgent, Stopped, bounds
<1>6. ASSUME NEW a \in Agent, LeaveBusy(w, a) PROVE TypeOK'
  <2>1. sess' \in [Writer -> Session]
    BY <1>6 DEF TypeOK, LeaveBusy, Session
  <2>. QED
    BY <1>6, <2>1 DEF TypeOK, LeaveBusy, bounds
<1>7. ASSUME NEW a \in Agent, RestartIdle(w, a) PROVE TypeOK'
  <2>1. sess' \in [Writer -> Session]
    BY <1>7 DEF TypeOK, RestartIdle, Session
  <2>. QED
    BY <1>7, <2>1 DEF TypeOK, RestartIdle, bounds
<1>. QED
  BY <1>1, <1>2, <1>3, <1>4, <1>5, <1>6, <1>7 DEF WriterStep

LEMMA FaultsTyped == TypeOK /\ Faults => TypeOK'
<1> SUFFICES ASSUME TypeOK, Faults PROVE TypeOK'
  OBVIOUS
<1>1. ASSUME NEW w \in Writer, UpsertFails(w) PROVE TypeOK'
  <2>. sess[w] \in Session
    BY DEF TypeOK
  <2>1. NextStep(sess[w], {}) \in Session
    BY DEF NextStep, Session, Step
  <2>2. faults' \in 0..MaxFaults
    BY <1>1, RolloutBounds DEF TypeOK, UpsertFails
  <2>. QED
    BY <1>1, <2>1, <2>2, IdleTyped DEF TypeOK, UpsertFails, Stopped
<1>2. ASSUME NEW w \in Writer, RestartFails(w) PROVE TypeOK'
  <2>1. sess' \in [Writer -> Session]
    <3>1. ASSUME NEW a \in sess[w].todo, sess' = [sess EXCEPT ![w].todo = @ \ {a}]
          PROVE  sess' \in [Writer -> Session]
      <4>1. [sess[w] EXCEPT !.todo = @ \ {a}] \in Session
        BY DEF TypeOK, Session
      <4>2. sess' = [sess EXCEPT ![w] = [sess[w] EXCEPT !.todo = @ \ {a}]]
        BY <3>1 DEF TypeOK
      <4>. QED
        BY <4>1, <4>2 DEF TypeOK
    <3>2. CASE Stopped(w)
      BY <3>2, IdleTyped DEF TypeOK, Stopped
    <3>. QED
      BY <1>2, <3>1, <3>2 DEF RestartFails
  <2>2. faults' \in 0..MaxFaults
    BY <1>2, RolloutBounds DEF TypeOK, RestartFails
  <2>. QED
    BY <1>2, <2>1, <2>2 DEF TypeOK, RestartFails
<1>3. ASSUME NEW a \in Agent, PodRestarts(a) PROVE TypeOK'
  BY <1>3, RolloutBounds DEF TypeOK, PodRestarts
<1>4. CASE Crash
  <2>1. sess' \in [Writer -> Session] /\ poll' \in [Agent -> Poll]
    BY <1>4, IdleTyped, NoPollTyped DEF Crash
  <2>2. mishap' \in SUBSET Mishap
    BY <1>4 DEF TypeOK, Crash, Seen, Mishap
  <2>3. faults' \in 0..MaxFaults
    BY <1>4, RolloutBounds DEF TypeOK, Crash
  <2>. QED
    BY <1>4, <2>1, <2>2, <2>3 DEF TypeOK, Crash
<1>. QED
  BY <1>1, <1>2, <1>3, <1>4 DEF Faults

LEMMA PodsTyped ==
    ASSUME TypeOK, NEW a \in Agent, PodBoots(a) \/ StatusStep(a)
    PROVE  TypeOK'
<1>1. CASE PodBoots(a)
  BY <1>1 DEF TypeOK, PodBoots, bounds
<1>2. CASE PollStatus(a)
  <2>1. agent[a].applied \in Nat
    BY DEF TypeOK
  <2>2. poll' \in [Agent -> Poll]
    BY <1>2, <2>1, NoPollTyped DEF TypeOK, PollStatus, Poll
  <2>. QED
    BY <1>2, <2>2 DEF TypeOK, PollStatus, bounds
<1>3. CASE PodAnswers(a)
  <2>1. pod[a].rev \in Nat
    BY DEF TypeOK, Rendered
  <2>2. poll' \in [Agent -> Poll]
    BY <1>3, <2>1, NoPollTyped DEF TypeOK, PodAnswers, Poll
  <2>. QED
    BY <1>3, <2>2 DEF TypeOK, PodAnswers, bounds
<1>4. CASE RecordAnswer(a)
  <2>1. poll[a].ans \in Nat
    BY DEF TypeOK, Poll
  <2>. QED
    BY <1>4, <2>1, NoPollTyped DEF TypeOK, RecordAnswer, bounds
<1>. QED
  BY <1>1, <1>2, <1>3, <1>4 DEF StatusStep

LEMMA TypeNext == TypeOK /\ [Next]_vars => TypeOK'
<1> SUFFICES ASSUME TypeOK, [Next]_vars PROVE TypeOK'
  OBVIOUS
<1>1. CASE UNCHANGED vars
  BY <1>1 DEF TypeOK, vars
<1>. QED
  BY <1>1, StartupTyped, RequestsTyped, SyncReadTyped, FaultsTyped, WriterStepTyped,
     PodsTyped DEF Next

\* The types of every variable of the rollout (web.py, runtime_profile_service.py,
\* runtime_profile_secret_service.py, api/agents.py): copies are rows, what is rendered
\* has a revision and settings, and the bounds are kept.
THEOREM Typing == Spec => []TypeOK
<1>. QED
  BY TypeInit, TypeNext, PTL DEF Spec

-----------------------------------------------------------------------------
(* Quiet steps: the row and the seed stay, requests are at most brought      *)
(* further, and what is carried or recorded was known before.                *)

Revision(n) ==
    \/ n \in {0, row.rev, secret.rev}
    \/ \E a \in Agent : n \in {pod[a].rev, agent[a].applied, poll[a].mine, poll[a].ans}
    \/ \E w \in Writer : n \in {sess[w].out.rev, sess[w].copy.rev}

\* Carried already, or the row as it is, with no PATCH in the middle of it.
Given(x) ==
    \/ Carried(x)
    \/ ~PatchHalfway /\ x = [rev |-> row.rev, cfg |-> Current]

Brought(w) ==
    /\ sess[w].at \in {"committed", "rendered", "rollout", "boot"}
    /\ sess'[w].at \in {"idle", "rendered", "rollout", "boot"}
    /\ sess'[w].copy.rev \in {0, sess[w].copy.rev}

Quiet ==
    /\ UNCHANGED <<row, seed, up>>
    /\ mishap \subseteq mishap'
    /\ \A w \in Writer : sess'[w] = sess[w] \/ Brought(w)
    /\ Revision(secret'.rev)
    /\ \A a \in Agent : /\ Revision(pod'[a].rev) /\ Revision(agent'[a].applied)
                        /\ Revision(poll'[a].mine) /\ Revision(poll'[a].ans)
    /\ \A w \in Writer : Revision(sess'[w].out.rev)
    /\ mishap' = {} =>
        /\ Given(secret')
        /\ \A a \in Agent : Given(pod'[a])
        /\ \A w \in Writer : sess'[w].at = "rendered" => Given(sess'[w].out)

LEMMA RevisionBounded ==
    ASSUME TypeOK, Bounded, NEW n, Revision(n)
    PROVE  n <= row.rev
<1>1. row.rev \in Nat
  BY DEF TypeOK, Row
<1>. QED
  BY <1>1 DEF Bounded, Revision

LEMMA CarriedBounded ==
    ASSUME TypeOK, Bounded, NEW x, Carried(x)
    PROVE  x.rev \in Nat /\ x.rev <= row.rev
<1>1. /\ secret.rev \in Nat /\ \A a \in Agent : pod[a].rev \in Nat
      /\ \A w \in Writer : sess[w].out.rev \in Nat /\ sess[w].copy.rev \in Nat
      /\ "sync" \in Writer
  BY DEF TypeOK, Rendered, Session, Row, Writer
<1>2. CASE x = Synced
  BY <1>1, <1>2 DEF Bounded, Synced
<1>3. CASE x # Synced
  BY <1>1, <1>3 DEF Bounded, Carried
<1>. QED
  BY <1>2, <1>3

LEMMA NoMishapForward == mishap = {} => Forward
BY DEF Forward

\* The member's settings at the row's revision are always told.
LEMMA GivenTold ==
    ASSUME IInv, mishap = {}, NEW x \in Rendered, Given(x)
    PROVE  /\ Agrees(x)
           /\ PatchHalfway => x.rev # sess["patch"].copy.rev
<1>1. CASE Carried(x)
  BY <1>1 DEF IInv, Told, Unused
<1>2. CASE ~Carried(x)
  BY <1>2 DEF Given, Agrees
<1>. QED
  BY <1>1, <1>2

LEMMA QuietGiven ==
    ASSUME Quiet, mishap' = {}, NEW x, Carried(x)'
    PROVE  Given(x)
<1>. "sync" \in Writer
  BY DEF Writer
<1>1. CASE x = secret' \/ \E a \in Agent : x = pod'[a]
  BY <1>1 DEF Quiet
<1>2. CASE \E w \in Writer : sess'[w].at = "rendered" /\ x = sess'[w].out
  BY <1>2 DEF Quiet
<1>3. CASE sess'["sync"].at = "committed" /\ x = Synced'
  <2>1. sess'["sync"] = sess["sync"] /\ seed' = seed
    BY <1>3 DEF Quiet, Brought
  <2>2. Synced' = Synced
    BY <2>1 DEF Synced, Effective
  <2>. QED
    BY <1>3, <2>1, <2>2 DEF Given, Carried
<1>. QED
  BY <1>1, <1>2, <1>3 DEF Carried

LEMMA QuietKeeps ==
    ASSUME IInv, TypeOK', Quiet
    PROVE  IInv'
<1>. /\ Writer = {"ui", "patch", "sync"} /\ Current' = Current /\ row' = row
     /\ mishap \subseteq mishap'
  BY DEF Writer, Quiet, Current, Effective
<1>1. Down'
  BY DEF IInv, Down, Quiet, Brought, Idle
<1>2. ASSUME Forward' PROVE Bounded'
  <2>1. Bounded /\ TypeOK
    BY <1>2 DEF IInv, Forward
  <2>2. \A n : Revision(n) => n <= row.rev
    BY <2>1, RevisionBounded
  <2>3. \A w \in Writer : sess'[w].copy.rev \in {0, sess[w].copy.rev}
    BY DEF Quiet, Brought
  <2>4. row.rev \in Nat
    BY <2>1 DEF TypeOK, Row
  <2>. QED
    BY <2>1, <2>2, <2>3, <2>4 DEF Bounded, Quiet
<1>3. Asked'
  BY DEF IInv, Asked, Quiet, Brought
<1>4. ASSUME mishap' = {} PROVE Compared' /\ Told' /\ Unused'
  <2>1. mishap = {} /\ Compared
    BY <1>4 DEF IInv
  <2>2. /\ seed' = seed
        /\ sess'["patch"] = sess["patch"] \/ Brought("patch")
        /\ sess'["sync"] = sess["sync"] \/ Brought("sync")
    BY DEF Quiet
  <2>3. Compared'
    BY <2>1, <2>2 DEF Compared, Brought, Moved, Effective
  <2>4. PatchOwes' = PatchOwes /\ PatchHalfway' = PatchHalfway
    BY <2>2 DEF PatchOwes, PatchHalfway, Brought, Moved, Effective
  <2>5. PatchHalfway => sess'["patch"] = sess["patch"]
    BY <2>2 DEF PatchHalfway, Brought
  <2>6. \A c \in Conn : Owed(c)' = Owed(c)
    BY <2>2 DEF Owed, Brought
  <2>7. ASSUME NEW x \in Rendered, Carried(x)'
        PROVE  Agrees(x)' /\ (PatchHalfway' => x.rev # sess'["patch"].copy.rev)
    <3>1. Given(x)
      BY <1>4, <2>7, QuietGiven
    <3>2. Agrees(x) /\ (PatchHalfway => x.rev # sess["patch"].copy.rev)
      BY <2>1, <3>1, GivenTold
    <3>. QED
      BY <3>2, <2>4, <2>5, <2>6 DEF Agrees
  <2>. QED
    BY <2>3, <2>7 DEF Told, Unused
<1>. QED
  BY <1>1, <1>2, <1>3, <1>4 DEF IInv

\* What a step leaves alone stays carried and recorded.
LEMMA Kept ==
    /\ Given(secret) /\ \A a \in Agent : Given(pod[a])
    /\ \A w \in Writer : sess[w].at = "rendered" => Given(sess[w].out)
    /\ \A a \in Agent : /\ Revision(agent[a].applied)
                        /\ Revision(poll[a].mine) /\ Revision(poll[a].ans)
                        /\ Revision(pod[a].rev)
    /\ \A w \in Writer : Revision(sess[w].out.rev) /\ Revision(sess[w].copy.rev)
    /\ Revision(0) /\ Revision(row.rev) /\ Revision(secret.rev)
BY DEF Given, Carried, Revision

LEMMA IdleShape ==
    /\ IdleSession.at = "idle" /\ IdleSession.out.rev = 0 /\ IdleSession.copy.rev = 0
    /\ NoPoll.mine = 0 /\ NoPoll.ans = 0
BY DEF IdleSession, NoPoll

LEMMA StutterQuiet == UNCHANGED vars => Quiet
BY Kept DEF vars, Quiet

LEMMA StopQuiet ==
    ASSUME TypeOK, NEW a \in Agent, StopAgent(a)
    PROVE  Quiet
<1>1. \A b \in Agent : agent'[b].applied = agent[b].applied
  BY DEF TypeOK, StopAgent
<1>. QED
  BY <1>1, Kept DEF StopAgent, Quiet

LEMMA RenderQuiet ==
    ASSUME TypeOK, NEW w \in Writer, Render(w)
    PROVE  Quiet
<1>. DEFINE r == IF w = "sync" THEN sess[w].copy ELSE row
            out == [rev |-> r.rev, cfg |-> Effective(r, seed)]
<1>1. sess' = [sess EXCEPT ![w] = [sess[w] EXCEPT !.at = "rendered",
                   !.copy = IdleSession.copy, !.out = out]]
  BY DEF TypeOK, Render
<1>2. sess[w] \in Session
  BY DEF TypeOK
<1>3. sess'[w].at = "rendered" /\ sess'[w].out = out /\ sess'[w].copy = IdleSession.copy
  BY <1>1, <1>2 DEF TypeOK, Session
<1>4. \A v \in Writer : v # w => sess'[v] = sess[v]
  BY <1>1 DEF TypeOK
<1>5. Revision(out.rev)
  BY Kept
<1>6. mishap' = {} => Given(out)
  <2>1. CASE w = "sync"
    BY <2>1 DEF Given, Carried, Synced, Render
  <2>2. CASE w # "sync"
    <3>1. mishap' = {} => ~PatchHalfway
      BY DEF Render, Seen
    <3>. QED
      BY <2>2, <3>1 DEF Given, Current
  <2>. QED
    BY <2>1, <2>2
<1>7. Brought(w)
  BY <1>3, IdleShape DEF Brought, Render
<1>8. mishap \subseteq mishap'
  BY DEF Render, Seen
<1>. HIDE DEF out
<1>. QED
  BY <1>3, <1>4, <1>5, <1>6, <1>7, <1>8, Kept DEF Quiet, Render

\* A session that is brought further with what it rendered, or ends.
LEMMA BroughtQuiet ==
    ASSUME NEW w \in Writer, sess \in [Writer -> Session], NEW x,
           sess' = [sess EXCEPT ![w] = x],
           sess[w].at \in {"committed", "rendered", "rollout", "boot"},
           x.at \in {"idle", "rollout", "boot"}, x.out.rev \in {0, sess[w].out.rev},
           x.copy.rev \in {0, sess[w].copy.rev}
    PROVE  /\ \A v \in Writer : sess'[v] = sess[v] \/ Brought(v)
           /\ \A v \in Writer : sess'[v].at = "rendered" => Given(sess'[v].out)
           /\ \A v \in Writer : Revision(sess'[v].out.rev)
<1>1. sess'[w] = x /\ \A v \in Writer : v # w => sess'[v] = sess[v]
  OBVIOUS
<1>2. Brought(w)
  BY <1>1 DEF Brought
<1>. QED
  BY <1>1, <1>2, Kept

LEMMA NextStepShape ==
    ASSUME NEW x \in Session, NEW todo
    PROVE  /\ NextStep(x, todo).at \in {"rollout", "boot"}
           /\ NextStep(x, todo).out = x.out /\ NextStep(x, todo).copy = x.copy
BY DEF NextStep, Session

LEMMA UpsertQuiet ==
    ASSUME TypeOK, NEW w \in Writer, UpsertSecret(w) \/ UpsertFails(w)
    PROVE  Quiet
<1>. sess[w] \in Session /\ sess \in [Writer -> Session]
  BY DEF TypeOK
<1>1. CASE UpsertSecret(w)
  <2>. DEFINE x == NextStep(sess[w], {a \in Agent : agent[a].status = "running"})
  <2>1. x.at \in {"rollout", "boot"} /\ x.out = sess[w].out /\ x.copy = sess[w].copy
    BY NextStepShape
  <2>2. sess' = [sess EXCEPT ![w] = x] /\ sess[w].at = "rendered"
    BY <1>1 DEF UpsertSecret
  <2>. QED
    BY <1>1, <2>1, <2>2, BroughtQuiet, Kept DEF UpsertSecret, Quiet
<1>2. CASE UpsertFails(w)
  <2>. DEFINE x == IF sess[w].kind = "start" THEN NextStep(sess[w], {}) ELSE IdleSession
  <2>1. /\ x.at \in {"idle", "rollout", "boot"} /\ x.out.rev \in {0, sess[w].out.rev}
        /\ x.copy.rev \in {0, sess[w].copy.rev}
    BY NextStepShape, IdleShape
  <2>2. sess' = [sess EXCEPT ![w] = x] /\ sess[w].at = "rendered"
    BY <1>2 DEF UpsertFails, Stopped
  <2>. QED
    BY <1>2, <2>1, <2>2, BroughtQuiet, Kept DEF UpsertFails, Quiet
<1>. QED
  BY <1>1, <1>2

LEMMA RolloutQuiet ==
    ASSUME TypeOK, NEW w \in Writer, NEW a \in Agent, LeaveBusy(w, a) \/ RestartIdle(w, a)
    PROVE  Quiet
<1>. sess[w] \in Session /\ sess \in [Writer -> Session]
  BY DEF TypeOK
<1>. DEFINE x == IF LeaveBusy(w, a) THEN [sess[w] EXCEPT !.todo = @ \ {a}]
                 ELSE [sess[w] EXCEPT !.todo = @ \ {a}, !.done = @ \cup {a}]
<1>1. /\ x.at = sess[w].at /\ x.out = sess[w].out /\ x.copy = sess[w].copy
      /\ sess[w].at = "rollout"
  BY DEF LeaveBusy, RestartIdle, Session
<1>2. sess' = [sess EXCEPT ![w] = x]
  BY DEF LeaveBusy, RestartIdle
<1>3. /\ \A v \in Writer : sess'[v] = sess[v] \/ Brought(v)
      /\ \A v \in Writer : sess'[v].at = "rendered" => Given(sess'[v].out)
      /\ \A v \in Writer : Revision(sess'[v].out.rev)
  <2>. HIDE DEF x
  <2>. QED
    BY <1>1, <1>2, BroughtQuiet
<1>. QED
  BY <1>3, Kept DEF LeaveBusy, RestartIdle, Quiet

LEMMA EndsQuiet ==
    ASSUME TypeOK, NEW w \in Writer, RolloutDone(w) \/ BootAgent(w)
    PROVE  Quiet
<1>. sess[w] \in Session /\ sess \in [Writer -> Session]
  BY DEF TypeOK
<1>1. sess' = [sess EXCEPT ![w] = IdleSession] /\ sess[w].at \in {"rollout", "boot"}
  BY DEF RolloutDone, BootAgent, Stopped
<1>2. ASSUME NEW b \in Agent PROVE Revision(agent'[b].applied)
  <2>1. agent'[b].applied \in {agent[b].applied, sess[w].out.rev}
    BY DEF TypeOK, RolloutDone, BootAgent
  <2>. QED
    BY <2>1, Kept
<1>. QED
  BY <1>1, <1>2, BroughtQuiet, IdleShape, Kept DEF RolloutDone, BootAgent, Quiet

LEMMA RestartFailsQuiet ==
    ASSUME TypeOK, NEW w \in Writer, RestartFails(w)
    PROVE  Quiet
<1>. sess[w] \in Session /\ sess \in [Writer -> Session]
  BY DEF TypeOK
<1>1. ASSUME NEW a \in sess[w].todo, sess[w].at = "rollout",
             sess' = [sess EXCEPT ![w].todo = @ \ {a}]
      PROVE  Quiet
  <2>. DEFINE x == [sess[w] EXCEPT !.todo = @ \ {a}]
  <2>1. x.at = "rollout" /\ x.out = sess[w].out /\ x.copy = sess[w].copy
    BY <1>1 DEF Session
  <2>2. sess' = [sess EXCEPT ![w] = x]
    BY <1>1
  <2>. QED
    BY <1>1, <2>1, <2>2, BroughtQuiet, Kept DEF RestartFails, Quiet
<1>2. CASE sess[w].at = "boot" /\ Stopped(w)
  <2>1. sess' = [sess EXCEPT ![w] = IdleSession]
    BY <1>2 DEF Stopped
  <2>. QED
    BY <1>2, <2>1, BroughtQuiet, IdleShape, Kept DEF RestartFails, Quiet
<1>. QED
  BY <1>1, <1>2 DEF RestartFails

LEMMA PodsQuiet ==
    ASSUME TypeOK, NEW a \in Agent, PodBoots(a) \/ PodRestarts(a) \/ StatusStep(a)
    PROVE  Quiet
<1>1. CASE PodBoots(a) \/ PodRestarts(a)
  <2>1. \A b \in Agent : pod'[b] \in {pod[b], secret}
    BY <1>1 DEF TypeOK, PodBoots, PodRestarts
  <2>. QED
    BY <1>1, <2>1, Kept DEF PodBoots, PodRestarts, Quiet
<1>2. CASE PollStatus(a)
  <2>1. \A b \in Agent : agent'[b].applied = agent[b].applied
    BY <1>2 DEF TypeOK, PollStatus
  <2>2. \A b \in Agent : poll'[b].mine \in {0, poll[b].mine, agent[b].applied}
                         /\ poll'[b].ans \in {0, poll[b].ans}
    BY <1>2 DEF TypeOK, PollStatus, Poll, NoPoll
  <2>. QED
    BY <1>2, <2>1, <2>2, Kept DEF PollStatus, Quiet
<1>3. CASE PodAnswers(a)
  <2>1. \A b \in Agent : poll'[b].mine \in {0, poll[b].mine}
                         /\ poll'[b].ans \in {0, poll[b].ans, pod[b].rev}
    BY <1>3 DEF TypeOK, PodAnswers, Poll, NoPoll
  <2>. QED
    BY <1>3, <2>1, Kept DEF PodAnswers, Quiet
<1>4. CASE RecordAnswer(a)
  <2>1. \A b \in Agent : agent'[b].applied \in {agent[b].applied, poll[b].ans}
    BY <1>4 DEF TypeOK, RecordAnswer
  <2>2. \A b \in Agent : poll'[b] \in {poll[b], NoPoll}
    BY <1>4 DEF TypeOK, RecordAnswer
  <2>. QED
    BY <1>4, <2>1, <2>2, IdleShape, Kept DEF RecordAnswer, Quiet
<1>. QED
  BY <1>1, <1>2, <1>3, <1>4 DEF StatusStep

-----------------------------------------------------------------------------
(* The other steps *)

LEMMA InitInvariant == Init => IInv
<1> SUFFICES ASSUME Init PROVE IInv
  OBVIOUS
<1>1. TypeOK
  BY TypeInit
<1>2. \A w \in Writer : sess[w].at = "idle" /\ sess[w].out.rev = 0
  BY IdleShape DEF Init
<1>3. row.rev = 1 /\ secret.rev = 1 /\ secret.cfg = Current
  BY DEF Init
<1>4. \A a \in Agent : pod[a] = secret /\ agent[a].applied = 1
                       /\ poll[a].mine = 0 /\ poll[a].ans = 0
  BY IdleShape DEF Init
<1>5. "sync" \in Writer /\ "patch" \in Writer
  BY DEF Writer
<1>6. Bounded
  BY <1>3, <1>4, IdleShape DEF Bounded, Init
<1>7. Told
  BY <1>2, <1>3, <1>4, <1>5 DEF Told, Carried, Agrees
<1>8. Compared /\ Unused
  BY <1>2, <1>5 DEF Compared, Unused, PatchHalfway
<1>. QED
  BY <1>1, <1>2, <1>5, <1>6, <1>7, <1>8 DEF IInv, Down, Asked, Idle

LEMMA StartupKeeps ==
    ASSUME IInv, TypeOK', Startup
    PROVE  IInv'
<1>. /\ Writer = {"ui", "patch", "sync"} /\ mishap \subseteq mishap'
     /\ sess' = sess /\ seed' = seed /\ secret' = secret /\ pod' = pod
  BY DEF Writer, Startup, Seen
<1>1. \A w \in Writer : sess[w].at = "idle"
  BY DEF IInv, Down, Idle, Startup
<1>2. row'.rev = row.rev
  BY DEF IInv, TypeOK, Row, Startup
<1>3. Forward' => Bounded'
  BY <1>2 DEF IInv, Bounded, Startup, Forward
<1>4. Asked'
  BY <1>1 DEF Asked
<1>5. ASSUME mishap' = {} PROVE Compared' /\ Told' /\ Unused'
  <2>1. Told
    BY <1>5 DEF IInv
  <2>2. Current' = Current
    BY <1>5 DEF Startup, Seen, Current
  <2>3. ~PatchOwes /\ ~PatchHalfway' /\ \A c \in Conn : ~Owed(c)
    BY <1>1 DEF PatchOwes, PatchHalfway, Owed
  <2>4. \A x : Carried(x)' => Carried(x)
    BY <1>1 DEF Carried, Synced, Effective
  <2>. QED
    BY <1>1, <1>2, <2>1, <2>2, <2>3, <2>4 DEF Compared, Told, Unused, Agrees
<1>6. Down'
  BY <1>1 DEF Down, Idle
<1>. QED
  BY <1>3, <1>4, <1>5, <1>6 DEF IInv

\* Who begins to carry settings is the row, with its settings of now.
LEMMA BeginKeeps ==
    ASSUME IInv, TypeOK', NEW w \in {"ui", "patch"}, NEW kind \in Kind, NEW c \in Conn,
           NEW v \in Val0, NEW m \in Mode, NEW a \in Agent, Begin(w, kind, c, v, m, a),
           kind = "customize" => c \notin row.custom,
           kind = "patch" <=> w = "patch"
    PROVE  IInv'
<1>. Writer = {"ui", "patch", "sync"} /\ w \in Writer /\ w # "sync" /\ Idle(w)
  BY DEF Writer, Begin
<1>. DEFINE x == [IdleSession EXCEPT
                    !.at = "read", !.kind = kind, !.conn = c, !.val = v, !.mode = m,
                    !.agent = a, !.copy = row,
                    !.before = IF kind = "patch" THEN Current ELSE NoSettings]
<1>1. sess'[w] = x /\ \A u \in Writer : u # w => sess'[u] = sess[u]
  BY DEF IInv, TypeOK, Begin
<1>2. /\ x.at = "read" /\ x.kind = kind /\ x.conn = c /\ x.copy = row /\ x.out.rev = 0
      /\ kind = "patch" => x.before = Current
  BY DEF IdleSession
<1>. HIDE DEF x
<1>3. /\ UNCHANGED <<row, seed, up, mishap, secret, pod, agent, poll>>
      /\ Current' = Current /\ up
  BY DEF Begin, Current
<1>4. ASSUME Forward' PROVE Bounded'
  <2>1. Bounded /\ row.rev \in Nat
    BY <1>3, <1>4 DEF IInv, TypeOK, Row, Forward
  <2>. QED
    BY <1>1, <1>2, <1>3, <2>1 DEF Bounded
<1>5. Asked'
  BY <1>1, <1>2, <1>3 DEF IInv, Asked
<1>6. ASSUME mishap' = {} PROVE Compared' /\ Told' /\ Unused'
  <2>1. Compared /\ Told /\ Unused
    BY <1>3, <1>6 DEF IInv
  <2>2. Compared'
    <3>1. CASE w = "patch"
      BY <1>1, <1>2, <1>3, <3>1 DEF Compared, Moved, Current
    <3>2. CASE w # "patch"
      BY <1>1, <1>3, <2>1, <3>2 DEF Compared, Moved
    <3>. QED
      BY <3>1, <3>2
  <2>3. PatchOwes' = PatchOwes /\ PatchHalfway' = PatchHalfway
    BY <1>1, <1>2, <1>3 DEF PatchOwes, PatchHalfway, Moved, Idle
  <2>4. PatchHalfway => sess'["patch"] = sess["patch"]
    BY <1>1 DEF PatchHalfway, Idle
  <2>5. \A d \in Conn : Owed(d)' = Owed(d)
    BY <1>1, <1>3 DEF Owed
  <2>6. \A y : Carried(y)' => Carried(y)
    BY <1>1, <1>2, <1>3 DEF Carried, Synced
  <2>. QED
    BY <1>3, <2>1, <2>2, <2>3, <2>4, <2>5, <2>6 DEF Told, Unused, Agrees
<1>7. Down'
  BY <1>3 DEF Down
<1>. QED
  BY <1>4, <1>5, <1>6, <1>7 DEF IInv

LEMMA SaveSeedKeeps ==
    ASSUME IInv, TypeOK', NEW c \in Conn, NEW v \in Val0, SaveSeed(c, v)
    PROVE  IInv'
<1>. Writer = {"ui", "patch", "sync"} /\ Idle("sync")
  BY DEF Writer, SaveSeed
<1>. DEFINE x == [IdleSession EXCEPT !.at = "due", !.kind = "sync", !.conn = c]
<1>1. sess'["sync"] = x /\ \A u \in Writer : u # "sync" => sess'[u] = sess[u]
  BY DEF IInv, TypeOK, SaveSeed
<1>2. /\ x.at = "due" /\ x.kind = "sync" /\ x.conn = c /\ x.out.rev = 0
      /\ x.copy.rev = 0
  BY DEF IdleSession
<1>. HIDE DEF x
<1>3. /\ UNCHANGED <<row, up, secret, pod, agent, poll>> /\ up
      /\ mishap \subseteq mishap'
  BY DEF SaveSeed, Loop, Seen
<1>4. ASSUME Forward' PROVE Bounded'
  <2>1. Bounded /\ row.rev \in Nat
    BY <1>3, <1>4 DEF IInv, TypeOK, Row, Forward
  <2>. QED
    BY <1>1, <1>2, <1>3, <2>1 DEF Bounded
<1>5. Asked'
  BY <1>1, <1>2, <1>3 DEF IInv, Asked
<1>6. ASSUME mishap' = {} PROVE Compared' /\ Told' /\ Unused'
  <2>1. Told /\ sess["patch"].at \notin {"read", "modes", "moded"}
    BY <1>6 DEF IInv, SaveSeed, Seen
  <2>2. /\ ~PatchOwes /\ ~PatchHalfway' /\ \A d \in Conn : ~Owed(d)
        /\ Compared'
    BY <1>1, <2>1 DEF PatchOwes, PatchHalfway, Owed, Idle, Compared
  <2>3. \A d \in Conn : Current'[d] = Current[d] \/ Owed(d)'
    BY <1>1, <1>2, <1>3 DEF IInv, TypeOK, Settings, Owed, Current, Effective, SaveSeed
  <2>4. \A y : Carried(y)' => Carried(y)
    BY <1>1, <1>2, <1>3 DEF Carried
  <2>. QED
    BY <1>3, <2>1, <2>2, <2>3, <2>4 DEF Told, Unused, Agrees
<1>7. Down'
  BY <1>3 DEF Down
<1>. QED
  BY <1>4, <1>5, <1>6, <1>7 DEF IInv

LEMMA SyncReadKeeps ==
    ASSUME IInv, TypeOK', SyncRead
    PROVE  IInv'
<1>. /\ Writer = {"ui", "patch", "sync"} /\ sess \in [Writer -> Session]
     /\ sess["sync"] \in Session
  BY DEF IInv, TypeOK, Writer
<1>. DEFINE x == IF sess["sync"].conn \in row.custom THEN IdleSession
                 ELSE [sess["sync"] EXCEPT !.at = "read", !.copy = row]
<1>1. sess'["sync"] = x /\ \A u \in Writer : u # "sync" => sess'[u] = sess[u]
  BY DEF SyncRead, Stopped
<1>2. /\ sess["sync"].at = "due" /\ sess["sync"].kind = "sync"
      /\ UNCHANGED <<row, seed, up, mishap, secret, pod, agent, poll>>
      /\ Current' = Current
  BY DEF IInv, Asked, SyncRead, Current, Effective
<1>3. /\ x.at = IF sess["sync"].conn \in row.custom THEN "idle" ELSE "read"
      /\ x.out.rev \in {0, sess["sync"].out.rev} /\ x.copy.rev \in {0, row.rev}
      /\ x.at = "read" => x.kind = "sync" /\ x.conn = sess["sync"].conn
  BY <1>2, IdleShape DEF Session
<1>. HIDE DEF x
<1>4. ASSUME Forward' PROVE Bounded'
  <2>1. Bounded /\ row.rev \in Nat
    BY <1>2, <1>4 DEF IInv, TypeOK, Row, Forward
  <2>. QED
    BY <1>1, <1>2, <1>3, <2>1 DEF Bounded
<1>5. Asked'
  BY <1>1, <1>2, <1>3 DEF IInv, Asked
<1>6. ASSUME mishap' = {} PROVE Compared' /\ Told' /\ Unused'
  <2>1. Compared /\ Told /\ Unused
    BY <1>2, <1>6 DEF IInv
  <2>2. sess'["patch"] = sess["patch"]
    BY <1>1
  <2>3. /\ PatchOwes' = PatchOwes /\ PatchHalfway' = PatchHalfway
        /\ Compared'
    BY <1>2, <2>1, <2>2 DEF PatchOwes, PatchHalfway, Moved, Compared
  <2>4. \A d \in Conn : Owed(d) => Owed(d)'
    BY <1>1, <1>2, <1>3 DEF Owed
  <2>5. \A y : Carried(y)' => Carried(y)
    BY <1>1, <1>2, <1>3 DEF Carried
  <2>. QED
    BY <1>2, <2>1, <2>2, <2>3, <2>4, <2>5 DEF Told, Unused, Agrees
<1>7. Down'
  BY <1>1, <1>2, <1>3 DEF IInv, Down, Idle
<1>. QED
  BY <1>4, <1>5, <1>6, <1>7 DEF IInv

LEMMA CrashKeeps ==
    ASSUME IInv, TypeOK', Crash
    PROVE  IInv'
<1>1. Writer = {"ui", "patch", "sync"} /\ \A w \in Writer : sess'[w] = IdleSession
  BY DEF Writer, Crash
<1>2. \A a \in Agent : poll'[a] = NoPoll
  BY DEF Crash
<1>3. /\ mishap \subseteq mishap'
      /\ mishap' = {} => sess["sync"].at \notin {"due", "read"} /\ ~PatchOwes
      /\ UNCHANGED <<row, seed, secret, pod, agent>>
  BY DEF Crash, Seen
<1>4. ASSUME Forward' PROVE Bounded'
  <2>1. Bounded /\ row.rev \in Nat
    BY <1>3, <1>4 DEF IInv, TypeOK, Row, Forward
  <2>. QED
    BY <1>1, <1>2, <1>3, <2>1, IdleShape DEF Bounded
<1>5. ASSUME mishap' = {} PROVE Compared' /\ Told' /\ Unused'
  <2>1. Told /\ ~PatchOwes /\ \A c \in Conn : ~Owed(c)
    BY <1>3, <1>5 DEF IInv, Owed
  <2>2. Current' = Current
    BY <1>3 DEF Current
  <2>3. \A y : Carried(y)' => Carried(y)
    BY <1>1, <1>3, IdleShape DEF Carried
  <2>4. Compared' /\ ~PatchHalfway'
    BY <1>1, IdleShape DEF Compared, PatchHalfway
  <2>. QED
    BY <1>3, <2>1, <2>2, <2>3, <2>4 DEF Told, Unused, Agrees
<1>6. Down' /\ Asked'
  BY <1>1, IdleShape DEF Down, Asked, Idle
<1>. QED
  BY <1>4, <1>5, <1>6 DEF IInv

\* Two outcomes of a request that leave the revision alone leave the settings alone too.
LEMMA CustomizedSame ==
    ASSUME NEW r \in Row, NEW s \in Settings, NEW c \in Conn,
           c \notin r.custom, r.val[c] \in {NoVal, s[c]}
    PROVE  Effective(Customized(r, c, s), s) = Effective(r, s)
<1>. DEFINE new == Customized(r, c, s)
<1>1. new.custom = r.custom \cup {c} /\ new.val = [r.val EXCEPT ![c] = s[c]]
  <2>1. new = [r EXCEPT !.custom = @ \cup {c}, !.val = [@ EXCEPT ![c] = s[c]]]
    BY DEF Customized, Row, Settings
  <2>. HIDE DEF new
  <2>. QED
    BY <2>1 DEF Row
<1>. SUFFICES Effective(new, s) = Effective(r, s)
  OBVIOUS
<1>. HIDE DEF new
<1>2. ASSUME NEW d \in Conn
      PROVE  (IF d \in new.custom THEN new.val[d] ELSE s[d])
               = (IF d \in r.custom THEN r.val[d] ELSE s[d])
  BY <1>1 DEF Row, Settings
<1>. QED
  BY <1>2 DEF Effective

LEMMA FollowingSame ==
    ASSUME NEW r \in Row, NEW s \in Settings, NEW c \in Conn,
           Following(r, c, s).rev = r.rev
    PROVE  Effective(Following(r, c, s), s) = Effective(r, s)
<1>1. FollowingQuietly(r, c, s).rev = r.rev
  BY DEF FollowingQuietly, Row
<1>2. CASE Effective(FollowingQuietly(r, c, s), s) = Effective(r, s)
  BY <1>2 DEF Following, FollowingQuietly
<1>3. CASE Effective(FollowingQuietly(r, c, s), s) # Effective(r, s)
  <2>1. Following(r, c, s) = [FollowingQuietly(r, c, s) EXCEPT !.rev = @ + 1]
    BY <1>3 DEF Following, FollowingQuietly
  <2>2. Following(r, c, s).rev = r.rev + 1
    BY <1>1, <2>1 DEF FollowingQuietly, Row
  <2>. QED
    BY <2>2 DEF Row
<1>. QED
  BY <1>2, <1>3

CommitStep(w) == Commit(w) \/ PatchValues(w) \/ PatchModes(w) \/ PatchRevision(w)

\* What the commits have in common: a row made from the copy is written, with the same
\* revision or the next, and only the writer's own session moves.
Commits(w, new) ==
    /\ Written(w, new) /\ new.rev \in {sess[w].copy.rev, sess[w].copy.rev + 1}
    /\ sess[w].at \in {"read", "modes", "moded"} /\ up
    /\ UNCHANGED <<seed, secret, pod, agent, poll, up>>
    /\ \A u \in Writer : u # w => sess'[u] = sess[u]
    /\ sess'[w].at \in {"idle", "modes", "moded", "committed"}
    /\ sess'[w].out.rev \in {0, sess[w].out.rev}
    /\ sess'[w].copy.rev \in {0, sess[w].copy.rev, row'.rev}
    /\ w = "sync" /\ sess'[w].at = "committed" => sess'[w].copy = row'

LEMMA EndShape ==
    ASSUME TypeOK, NEW w \in Writer, GoesOn(w, sess[w]) \/ Stopped(w)
    PROVE  /\ \A u \in Writer : u # w => sess'[u] = sess[u]
           /\ sess'[w].at \in {"idle", "committed"} /\ sess'[w].out.rev = 0
           /\ sess'[w].copy.rev \in {0, row'.rev} /\ sess'[w].wrote = FALSE
           /\ w = "sync" /\ sess'[w].at = "committed" => sess'[w].copy = row'
<1>. sess \in [Writer -> Session]
  BY DEF TypeOK
<1>1. CASE GoesOn(w, sess[w])
  <2>. DEFINE x == [IdleSession EXCEPT !.at = "committed", !.kind = sess[w].kind,
                       !.agent = sess[w].agent, !.copy = IF w = "sync" THEN row' ELSE @]
  <2>1. /\ x.at = "committed" /\ x.out.rev = 0 /\ x.wrote = FALSE
        /\ x.copy.rev \in {0, row'.rev} /\ (w = "sync" => x.copy = row')
    BY DEF IdleSession
  <2>2. sess' = [sess EXCEPT ![w] = x]
    BY <1>1 DEF GoesOn
  <2>. HIDE DEF x
  <2>. QED
    BY <2>1, <2>2
<1>2. CASE Stopped(w)
  <2>1. sess' = [sess EXCEPT ![w] = IdleSession] /\ IdleSession.wrote = FALSE
    BY <1>2 DEF Stopped, IdleSession
  <2>. QED
    BY <2>1, IdleShape
<1>. QED
  BY <1>1, <1>2

LEMMA CommitCommits ==
    ASSUME TypeOK, NEW w \in Writer, Commit(w)
    PROVE  NewRow(sess[w]) \in Row /\ Commits(w, NewRow(sess[w]))
<1>1. sess[w] \in Session /\ seed \in Settings
  BY DEF TypeOK
<1>2. /\ NewRow(sess[w]) \in Row
      /\ NewRow(sess[w]).rev \in {sess[w].copy.rev, sess[w].copy.rev + 1}
  BY <1>1, NewRowTyped
<1>3. GoesOn(w, sess[w]) \/ Stopped(w)
  BY DEF Commit
<1>. QED
  BY <1>2, <1>3, EndShape DEF Commits, Commit

\* What a PATCH makes of its values, and where it goes.
LEMMA ValuesCommits ==
    ASSUME TypeOK, NEW w \in Writer, PatchValues(w)
    PROVE  \E new \in Row :
             /\ Commits(w, new)
             /\ new = sess[w].copy \/ new.rev = sess[w].copy.rev + 1
             /\ sess'[w].at \in {"modes", "moded"} /\ sess'[w].before = sess[w].before
             /\ sess'[w].wrote = (new # sess[w].copy)
             /\ sess'[w].copy = IF new # sess[w].copy THEN row' ELSE sess[w].copy
<1>. DEFINE x == sess[w]
            new == Patched(x.copy, x.conn, x.val, seed)
            y == [x EXCEPT !.at = IF x.mode = "keep" THEN "moded" ELSE "modes",
                           !.wrote = new # x.copy, !.val = NoVal,
                           !.copy = IF new # x.copy THEN row' ELSE @]
<1>1. x \in Session /\ seed \in Settings
  BY DEF TypeOK
<1>2. new \in Row /\ (new = x.copy \/ new.rev = x.copy.rev + 1)
  BY <1>1, PatchTyped
<1>3. /\ Written(w, new) /\ sess' = [sess EXCEPT ![w] = y] /\ x.at = "read" /\ up
      /\ UNCHANGED <<seed, secret, pod, agent, poll, up>>
  BY DEF PatchValues, TypeOK
<1>. HIDE DEF new
<1>4. /\ y.at \in {"modes", "moded"} /\ y.before = x.before /\ y.out = x.out
      /\ y.wrote = (new # x.copy) /\ y.copy = IF new # x.copy THEN row' ELSE x.copy
  BY <1>1 DEF Session
<1>. HIDE DEF y
<1>5. sess'[w] = y /\ \A u \in Writer : u # w => sess'[u] = sess[u]
  BY <1>3 DEF TypeOK
<1>6. w # "sync" \/ y.at # "committed"
  BY <1>4
<1>7. Commits(w, new)
  BY <1>2, <1>3, <1>4, <1>5 DEF Commits
<1>. QED
  BY <1>2, <1>4, <1>5, <1>7

LEMMA ModesCommits ==
    ASSUME TypeOK, NEW w \in Writer, PatchModes(w)
    PROVE  \E new \in Row :
             /\ Commits(w, new) /\ new.rev = sess[w].copy.rev
             /\ sess[w].at = "modes"
             /\ sess'[w].at = "moded" /\ sess'[w].before = sess[w].before
             /\ sess'[w].wrote = sess[w].wrote /\ sess'[w].copy = row'
<1>. DEFINE x == sess[w]
            new == Moded(x.copy, x.conn, x.mode)
            y == [x EXCEPT !.at = "moded", !.mode = "keep", !.copy = row']
<1>1. x \in Session /\ seed \in Settings
  BY DEF TypeOK
<1>2. new \in Row /\ new.rev = x.copy.rev
  BY <1>1, PatchTyped
<1>3. /\ Written(w, new) /\ sess' = [sess EXCEPT ![w] = y] /\ x.at = "modes" /\ up
      /\ UNCHANGED <<seed, secret, pod, agent, poll, up>>
  BY DEF PatchModes, TypeOK
<1>. HIDE DEF new
<1>4. /\ y.at = "moded" /\ y.before = x.before /\ y.out = x.out /\ y.wrote = x.wrote
      /\ y.copy = row'
  BY <1>1 DEF Session
<1>. HIDE DEF y
<1>5. sess'[w] = y /\ \A u \in Writer : u # w => sess'[u] = sess[u]
  BY <1>3 DEF TypeOK
<1>6. Commits(w, new)
  BY <1>2, <1>3, <1>4, <1>5 DEF Commits
<1>. QED
  BY <1>2, <1>3, <1>4, <1>5, <1>6

LEMMA RevisionCommits ==
    ASSUME TypeOK, NEW w \in Writer, PatchRevision(w)
    PROVE  \E new \in Row :
             /\ Commits(w, new)
             /\ sess[w].at = "moded" /\ sess'[w].at \in {"idle", "committed"}
             /\ IF Moved(sess[w]) /\ ~sess[w].wrote THEN new.rev = sess[w].copy.rev + 1
                                                    ELSE new = sess[w].copy
<1>. DEFINE x == sess[w]
            new == IF Moved(x) /\ ~x.wrote THEN Counted(x.copy) ELSE x.copy
<1>1. x.copy \in Row
  BY DEF TypeOK, Session
<1>2. /\ new \in Row
      /\ IF Moved(x) /\ ~x.wrote THEN new.rev = x.copy.rev + 1 ELSE new = x.copy
  BY <1>1, CountedTyped
<1>3. GoesOn(w, x) \/ Stopped(w)
  BY DEF PatchRevision
<1>4. /\ Written(w, new) /\ x.at = "moded" /\ up
      /\ UNCHANGED <<seed, secret, pod, agent, poll, up>>
  BY DEF PatchRevision
<1>. HIDE DEF new
<1>5. Commits(w, new)
  BY <1>2, <1>3, <1>4, EndShape DEF Commits
<1>. QED
  BY <1>2, <1>3, <1>4, <1>5, EndShape

LEMMA CommitStepCommits ==
    ASSUME TypeOK, NEW w \in Writer, CommitStep(w)
    PROVE  \E new \in Row : Commits(w, new)
BY CommitCommits, ValuesCommits, ModesCommits, RevisionCommits DEF CommitStep

\* The revision never goes down, unless it is counted up from an outdated copy; and
\* without a mishap a request that writes has the row.
LEMMA CommitsFresh ==
    ASSUME TypeOK, NEW w \in Writer, NEW new \in Row, Commits(w, new)
    PROVE  /\ mishap \subseteq mishap'
           /\ Forward' => row'.rev \in {row.rev, row.rev + 1}
           /\ mishap' = {} =>
                /\ ~Restores(sess[w])
                /\ \/ new = sess[w].copy /\ row' = row
                   \/ new # sess[w].copy /\ sess[w].copy = row /\ row' = new
           /\ mishap' = {} /\ w # "sync" => \A c \in Conn : Owed(c) => Owed(c)'
<1>. DEFINE old == sess[w].copy
<1>1. old \in Row /\ row \in Row /\ row.rev \in Nat /\ "sync" \in Writer
  BY DEF TypeOK, Session, Row, Writer
<1>2. row' = Write(old, new) /\ mishap \subseteq mishap'
  BY DEF Commits, Written, Seen
<1>3. Forward' => new.rev = old.rev \/ row.rev = old.rev
  BY DEF Commits, Written, Seen, Forward
<1>4. row'.rev = IF new.rev # old.rev THEN new.rev ELSE row.rev
  BY <1>2 DEF Write
<1>5. Forward' => row'.rev \in {row.rev, row.rev + 1}
  BY <1>1, <1>3, <1>4 DEF Commits
<1>6. ASSUME mishap' = {}
      PROVE  /\ ~Restores(sess[w])
             /\ \/ new = old /\ row' = row
                \/ new # old /\ old = row /\ row' = new
  <2>1. ~Restores(sess[w]) /\ (new = old \/ row = old)
    BY <1>6 DEF Commits, Written, Seen
  <2>2. Write(old, old) = row
    BY <1>1 DEF Write, Row
  <2>3. old = row => Write(old, new) = new
    BY <1>1, WriteFresh
  <2>. QED
    BY <1>2, <2>1, <2>2, <2>3
<1>7. ASSUME mishap' = {}, w # "sync", NEW c \in Conn, Owed(c)
      PROVE  Owed(c)'
  <2>1. sess'["sync"] = sess["sync"]
    BY <1>1, <1>7 DEF Commits
  <2>2. sess["sync"].at = "due" => sess["sync"].conn \notin row'.custom \ row.custom
    BY <1>7 DEF Commits, Written, Seen
  <2>. QED
    BY <1>7, <2>1, <2>2 DEF Owed
<1>. QED
  BY <1>2, <1>5, <1>6, <1>7

\* A request of one commit counts the revision, or changes nothing the assistants see,
\* or brings back parked values.
LEMMA NewRowSettles ==
    ASSUME IInv, NEW w \in Writer, Commit(w), sess[w].copy = row, ~Restores(sess[w]),
           NewRow(sess[w]).rev = row.rev
    PROVE  Effective(NewRow(sess[w]), seed) = Current
<1>. DEFINE x == sess[w]
            c == x.conn
<1>1. x \in Session /\ row \in Row /\ seed \in Settings /\ x.at = "read" /\ x.kind # "patch"
  BY DEF IInv, TypeOK, Commit
<1>2. c \in Conn /\ x.val \in Val0 /\ x.mode \in Mode /\ x.kind \in Kind
  BY <1>1 DEF Session
<1>3. CASE x.kind = "save"
  <2>1. NewRow(x) = Saved(row, c, x.val)
    BY <1>3 DEF NewRow
  <2>2. CASE x.val = row.val[c]
    BY <2>1, <2>2 DEF Saved, Current
  <2>3. CASE x.val # row.val[c]
    BY <1>1, <2>1, <2>3 DEF Saved, Row
  <2>. QED
    BY <2>2, <2>3
<1>4. CASE x.kind = "customize"
  <2>1. c \notin row.custom /\ row.val[c] \in {NoVal, seed[c]}
    BY <1>1, <1>4 DEF IInv, Asked, Restores
  <2>. QED
    BY <1>1, <1>2, <1>4, <2>1, CustomizedSame DEF NewRow, Current
<1>5. CASE x.kind = "follow"
  BY <1>1, <1>2, <1>5, FollowingSame DEF NewRow, Current
<1>6. CASE x.kind = "sync"
  <2>1. NewRow(x) = Counted(row)
    BY <1>6 DEF NewRow
  <2>2. Counted(row).rev = row.rev + 1 /\ row.rev \in Nat
    BY <1>1, CountedTyped DEF Row
  <2>. QED
    BY <2>1, <2>2
<1>7. CASE x.kind = "start"
  BY <1>7 DEF NewRow, Current
<1>. QED
  BY <1>1, <1>2, <1>3, <1>4, <1>5, <1>6, <1>7 DEF Kind

\* A commit counts the revision; or it leaves the settings, or still owes them their
\* revision, or settles what nobody carries yet.
Settled ==
    \/ Current' = Current /\ (PatchOwes => PatchOwes')
    \/ PatchOwes'
    \/ PatchHalfway /\ sess["patch"].copy = row

LEMMA CommitSettles ==
    ASSUME IInv, NEW w \in Writer, CommitStep(w), mishap' = {}
    PROVE  \/ row'.rev = row.rev + 1
           \/ row'.rev = row.rev /\ w # "sync" /\ Settled
<1>. DEFINE x == sess[w]
<1>0. TypeOK /\ row \in Row /\ row.rev \in Nat /\ mishap = {} /\ "patch" \in Writer
  <2>1. TypeOK /\ "patch" \in Writer
    BY DEF IInv, Writer
  <2>2. mishap \subseteq mishap'
    BY <2>1, CommitStepCommits, CommitsFresh
  <2>. QED
    BY <2>1, <2>2 DEF TypeOK, Row
<1>1. seed' = seed
  BY DEF CommitStep, Commit, PatchValues, PatchModes, PatchRevision
<1>2. row' = row => row'.rev = row.rev /\ Current' = Current
  BY <1>1 DEF Current
<1>3. CASE Commit(w)
  <2>. DEFINE new == NewRow(x)
  <2>1. new \in Row /\ Commits(w, new)
    BY <1>0, <1>3, CommitCommits
  <2>2. /\ ~Restores(x)
        /\ \/ new = x.copy /\ row' = row
           \/ new # x.copy /\ x.copy = row /\ row' = new
    BY <1>0, <2>1, CommitsFresh
  <2>3. row'.rev = row.rev => Current' = Current
    BY <1>1, <1>2, <1>3, <2>2, NewRowSettles DEF Current
  <2>4. row'.rev \in {row.rev, row.rev + 1}
    BY <1>2, <2>1, <2>2 DEF Commits
  <2>5. PatchOwes => PatchOwes'
    <3>1. w # "patch" => sess'["patch"] = sess["patch"]
      BY <1>0, <2>1 DEF Commits
    <3>. QED
      BY <1>1, <1>3, <3>1 DEF PatchOwes, Moved, Commit
  <2>6. w = "sync" => row'.rev # row.rev
    <3>1. w = "sync" => new = Counted(x.copy) /\ x.copy \in Row
      BY <1>0, <1>3 DEF IInv, Asked, NewRow, Commit, TypeOK, Session
    <3>2. w = "sync" => new.rev = x.copy.rev + 1 /\ x.copy.rev \in Nat
      BY <3>1, CountedTyped DEF Row
    <3>. QED
      BY <2>2, <3>2
  <2>. QED
    BY <2>3, <2>4, <2>5, <2>6 DEF Settled
<1>4. CASE PatchValues(w)
  <2>1. w = "patch"
    BY <1>4 DEF IInv, Asked, PatchValues
  <2>2. PICK new \in Row :
          Commits(w, new) /\ (new = x.copy \/ new.rev = x.copy.rev + 1)
    BY <1>0, <1>4, ValuesCommits
  <2>3. row' = row \/ row'.rev = row.rev + 1
    BY <1>0, <2>2, CommitsFresh
  <2>4. ~PatchOwes
    BY <1>4, <2>1 DEF PatchValues, PatchOwes
  <2>. QED
    BY <1>2, <2>1, <2>3, <2>4 DEF Settled
<1>5. CASE PatchModes(w)
  <2>1. w = "patch"
    BY <1>5 DEF IInv, Asked, PatchModes
  <2>2. PICK new \in Row :
          /\ Commits(w, new) /\ new.rev = x.copy.rev
          /\ x.at = "modes"
          /\ sess'[w].at = "moded" /\ sess'[w].before = x.before
          /\ sess'[w].wrote = x.wrote /\ sess'[w].copy = row'
    BY <1>0, <1>5, ModesCommits
  <2>3. row' = row \/ (x.copy = row /\ row' = new)
    BY <1>0, <2>2, CommitsFresh
  <2>4. ~PatchOwes
    BY <2>1, <2>2 DEF PatchOwes
  <2>5. CASE row' = row
    BY <1>2, <2>1, <2>4, <2>5 DEF Settled
  <2>6. CASE x.copy = row /\ row' = new /\ x.wrote
    BY <2>1, <2>2, <2>6 DEF Settled, PatchHalfway
  <2>7. CASE x.copy = row /\ row' = new /\ ~x.wrote
    <3>1. x.before = Current
      BY <1>0, <2>1, <2>2, <2>7 DEF IInv, Compared, Moved, Current
    <3>2. Moved(sess["patch"])' <=> Current' # Current
      BY <2>1, <2>2, <3>1 DEF Moved, Current
    <3>3. PatchOwes' <=> Current' # Current
      BY <2>1, <2>2, <2>7, <3>2 DEF PatchOwes
    <3>. QED
      BY <2>1, <2>2, <2>4, <2>7, <3>3 DEF Settled
  <2>. QED
    BY <2>3, <2>5, <2>6, <2>7
<1>6. CASE PatchRevision(w)
  <2>1. w = "patch"
    BY <1>6 DEF IInv, Asked, PatchRevision
  <2>2. PICK new \in Row :
          /\ Commits(w, new)
          /\ x.at = "moded" /\ sess'[w].at \in {"idle", "committed"}
          /\ IF Moved(x) /\ ~x.wrote THEN new.rev = x.copy.rev + 1 ELSE new = x.copy
    BY <1>0, <1>6, RevisionCommits
  <2>3. \/ new = x.copy /\ row' = row
        \/ new # x.copy /\ x.copy = row /\ row' = new
    BY <1>0, <2>2, CommitsFresh
  <2>4. x.copy.rev \in Nat
    BY <1>0 DEF TypeOK, Session, Row
  <2>5. CASE Moved(x) /\ ~x.wrote
    BY <2>2, <2>3, <2>4, <2>5
  <2>6. CASE ~(Moved(x) /\ ~x.wrote)
    <3>1. row' = row /\ ~PatchOwes
      BY <2>1, <2>2, <2>3, <2>6 DEF PatchOwes
    <3>. QED
      BY <1>2, <2>1, <3>1 DEF Settled
  <2>. QED
    BY <2>5, <2>6
<1>. QED
  BY <1>3, <1>4, <1>5, <1>6 DEF CommitStep

\* What the API's PATCH knows after a commit of its own or of another's.
LEMMA PatchKnows ==
    ASSUME IInv, NEW w \in Writer, CommitStep(w), mishap' = {}
    PROVE  /\ Compared'
           /\ PatchHalfway' => \/ PatchHalfway /\ sess'["patch"] = sess["patch"]
                               \/ /\ w # "sync" /\ row'.rev = row.rev + 1
                                  /\ sess'["patch"].copy = row'
<1>0. /\ TypeOK /\ row.rev \in Nat /\ mishap = {} /\ "patch" \in Writer
      /\ sess["patch"].copy.rev \in Nat
  <2>1. TypeOK /\ "patch" \in Writer
    BY DEF IInv, Writer
  <2>2. mishap \subseteq mishap'
    BY <2>1, CommitStepCommits, CommitsFresh
  <2>. QED
    BY <2>1, <2>2 DEF TypeOK, Row, Session
<1>1. seed' = seed /\ Compared
  BY <1>0 DEF CommitStep, Commit, PatchValues, PatchModes, PatchRevision, IInv
<1>2. CASE w # "patch"
  <2>1. sess'["patch"] = sess["patch"]
    BY <1>0, <1>2, CommitStepCommits DEF Commits
  <2>. QED
    BY <1>1, <2>1 DEF Compared, PatchHalfway, Moved
<1>3. CASE w = "patch" /\ PatchValues(w)
  <2>1. PICK new \in Row :
             /\ Commits(w, new)
             /\ new = sess[w].copy \/ new.rev = sess[w].copy.rev + 1
             /\ sess'[w].at \in {"modes", "moded"} /\ sess'[w].before = sess[w].before
             /\ sess'[w].wrote = (new # sess[w].copy)
             /\ sess'[w].copy = IF new # sess[w].copy THEN row' ELSE sess[w].copy
    BY <1>0, <1>3, ValuesCommits
  <2>2. \/ new = sess[w].copy /\ row' = row
        \/ new # sess[w].copy /\ sess[w].copy = row /\ row' = new
    BY <1>0, <2>1, CommitsFresh
  <2>3. ~Moved(sess["patch"])
    BY <1>1, <1>3 DEF Compared, PatchValues
  <2>4. Compared'
    BY <1>1, <1>3, <2>1, <2>3 DEF Compared, Moved
  <2>5. PatchHalfway' => row'.rev = row.rev + 1 /\ sess'["patch"].copy = row'
    BY <1>3, <2>1, <2>2 DEF PatchHalfway
  <2>. QED
    BY <1>3, <2>4, <2>5
<1>4. CASE w = "patch" /\ ~PatchValues(w)
  <2>1. sess'[w].at \in {"idle", "moded", "committed"}
    <3>1. CASE Commit(w)
      <4>1. GoesOn(w, sess[w]) \/ Stopped(w)
        BY <3>1 DEF Commit
      <4>. QED
        BY <1>0, <4>1, EndShape
    <3>2. CASE PatchModes(w)
      BY <1>0, <3>2, ModesCommits
    <3>3. CASE PatchRevision(w)
      BY <1>0, <3>3, RevisionCommits
    <3>. QED
      BY <1>4, <3>1, <3>2, <3>3 DEF CommitStep
  <2>. QED
    BY <1>4, <2>1 DEF Compared, PatchHalfway
<1>. QED
  BY <1>2, <1>3, <1>4

\* A commit has nobody carry anything new, but for the rollout of the administrator's.
LEMMA CommitCarried ==
    ASSUME TypeOK, NEW w \in Writer, NEW new \in Row, Commits(w, new), NEW x, Carried(x)'
    PROVE  \/ Carried(x)
           \/ w = "sync" /\ x = [rev |-> row'.rev, cfg |-> Current']
<1>. "sync" \in Writer
  BY DEF Writer
<1>1. CASE x = secret' \/ \E a \in Agent : x = pod'[a]
  BY <1>1 DEF Carried, Commits
<1>2. CASE \E u \in Writer : sess'[u].at = "rendered" /\ x = sess'[u].out
  BY <1>2 DEF Carried, Commits
<1>3. CASE sess'["sync"].at = "committed" /\ x = Synced'
  <2>1. CASE w = "sync"
    <3>1. sess'["sync"].copy = row' /\ seed' = seed
      BY <1>3, <2>1 DEF Commits
    <3>. QED
      BY <1>3, <2>1, <3>1 DEF Synced, Current
  <2>2. CASE w # "sync"
    <3>1. sess'["sync"] = sess["sync"] /\ seed' = seed
      BY <2>2 DEF Commits
    <3>. QED
      BY <1>3, <3>1 DEF Synced, Carried
  <2>. QED
    BY <2>1, <2>2
<1>. QED
  BY <1>1, <1>2, <1>3 DEF Carried

LEMMA CommitTells ==
    ASSUME IInv, TypeOK', NEW w \in Writer, CommitStep(w), mishap' = {}
    PROVE  Told' /\ Unused'
<1>0. TypeOK /\ row.rev \in Nat /\ "patch" \in Writer
  BY DEF IInv, TypeOK, Row, Writer
<1>1. PICK new \in Row : Commits(w, new)
  BY <1>0, CommitStepCommits
<1>2. mishap = {} /\ Bounded /\ Told /\ Unused
  <2>1. mishap = {}
    BY <1>0, <1>1, CommitsFresh
  <2>. QED
    BY <2>1, NoMishapForward DEF IInv
<1>3. w # "sync" => \A c \in Conn : Owed(c) => Owed(c)'
  BY <1>0, <1>1, CommitsFresh
<1>4. \/ row'.rev = row.rev + 1
      \/ row'.rev = row.rev /\ w # "sync" /\ Settled
  BY CommitSettles
<1>5. PatchHalfway' => \/ PatchHalfway /\ sess'["patch"] = sess["patch"]
                       \/ /\ w # "sync" /\ row'.rev = row.rev + 1
                          /\ sess'["patch"].copy = row'
  BY PatchKnows
<1>6. ASSUME NEW x \in Rendered, Carried(x)'
      PROVE  Agrees(x)' /\ (PatchHalfway' => x.rev # sess'["patch"].copy.rev)
  <2>1. CASE ~Carried(x)
    <3>1. w = "sync" /\ x.rev = row'.rev /\ x.cfg = Current'
      BY <1>0, <1>1, <1>6, <2>1, CommitCarried
    <3>2. row'.rev = row.rev + 1
      BY <1>4, <3>1
    <3>3. sess["patch"].copy.rev \in Nat /\ sess["patch"].copy.rev <= row.rev
      BY <1>0, <1>2 DEF Bounded, TypeOK, Session, Row
    <3>. QED
      BY <1>0, <1>5, <3>1, <3>2, <3>3 DEF Agrees
  <2>2. CASE Carried(x)
    <3>1. x.rev \in Nat /\ x.rev <= row.rev
      BY <1>0, <1>2, <2>2, CarriedBounded
    <3>2. Agrees(x) /\ (PatchHalfway => x.rev # sess["patch"].copy.rev)
      BY <1>2, <2>2 DEF Told, Unused
    <3>3. PatchHalfway' => x.rev # sess'["patch"].copy.rev
      BY <1>0, <1>5, <3>1, <3>2
    <3>4. CASE row'.rev = row.rev + 1
      BY <1>0, <3>1, <3>3, <3>4 DEF Agrees
    <3>5. CASE row'.rev = row.rev /\ w # "sync" /\ Settled
      <4>1. CASE Current' = Current /\ (PatchOwes => PatchOwes')
        BY <1>3, <3>2, <3>3, <3>5, <4>1 DEF Agrees
      <4>2. CASE PatchOwes'
        BY <3>3, <4>2 DEF Agrees
      <4>3. CASE PatchHalfway /\ sess["patch"].copy = row
        BY <3>2, <3>3, <3>5, <4>3 DEF Agrees
      <4>. QED
        BY <3>5, <4>1, <4>2, <4>3 DEF Settled
    <3>. QED
      BY <1>4, <3>4, <3>5
  <2>. QED
    BY <2>1, <2>2
<1>. QED
  BY <1>6 DEF Told, Unused

LEMMA CommitKeeps ==
    ASSUME IInv, TypeOK', NEW w \in Writer, CommitStep(w)
    PROVE  IInv'
<1>0. TypeOK /\ row.rev \in Nat
  BY DEF IInv, TypeOK, Row
<1>1. PICK new \in Row : Commits(w, new)
  BY <1>0, CommitStepCommits
<1>2. Down'
  BY <1>1 DEF Commits, Down
<1>3. ASSUME Forward' PROVE Bounded'
  <2>1. Bounded
    BY <1>0, <1>1, <1>3, CommitsFresh DEF IInv, Forward
  <2>2. row'.rev \in {row.rev, row.rev + 1}
    BY <1>0, <1>1, <1>3, CommitsFresh
  <2>3. /\ secret.rev \in Nat
        /\ \A a \in Agent : /\ agent[a].applied \in Nat /\ pod[a].rev \in Nat
                            /\ poll[a].mine \in Nat /\ poll[a].ans \in Nat
        /\ \A u \in Writer : sess[u].out.rev \in Nat /\ sess[u].copy.rev \in Nat
    BY <1>0 DEF TypeOK, Rendered, Poll, Session, Row
  <2>4. \A u \in Writer : /\ sess'[u].out.rev \in {0, sess[u].out.rev}
                          /\ sess'[u].copy.rev \in {0, sess[u].copy.rev, row'.rev}
    BY <1>1 DEF Commits
  <2>5. UNCHANGED <<secret, pod, agent, poll>>
    BY <1>1 DEF Commits
  <2>. QED
    BY <1>0, <2>1, <2>2, <2>3, <2>4, <2>5 DEF Bounded
<1>4. Asked'
  <2>1. sess'[w].at \in {"modes", "moded"} => w = "patch"
    <3>1. CASE Commit(w)
      <4>1. GoesOn(w, sess[w]) \/ Stopped(w)
        BY <3>1 DEF Commit
      <4>. QED
        BY <1>0, <4>1, EndShape
    <3>2. CASE ~Commit(w)
      BY <3>2 DEF IInv, Asked, CommitStep, PatchValues, PatchModes, PatchRevision
    <3>. QED
      BY <3>1, <3>2
  <2>2. \A u \in Writer : u # w => sess'[u] = sess[u]
    BY <1>1 DEF Commits
  <2>3. sess'[w].at \notin {"due", "read"}
    BY <1>1 DEF Commits
  <2>4. "sync" \in Writer
    BY DEF Writer
  <2>. QED
    BY <2>1, <2>2, <2>3, <2>4 DEF IInv, Asked
<1>. QED
  BY <1>2, <1>3, <1>4, PatchKnows, CommitTells DEF IInv

-----------------------------------------------------------------------------
(* The theorems *)

LEMMA RequestsKeep == IInv /\ TypeOK' /\ Requests => IInv'
<1> SUFFICES ASSUME IInv, TypeOK', Requests PROVE IInv'
  OBVIOUS
<1>. /\ AnyConn \in Conn /\ AnyAgent \in Agent /\ NoVal \in Val0
     /\ Kind = {"save", "customize", "follow", "start", "patch", "sync"}
     /\ Mode = {"keep", "system", "custom"} /\ TypeOK
  BY RolloutValues DEF AnyConn, AnyAgent, Val0, Kind, Mode, IInv
<1>1. ASSUME NEW c \in Conn, NEW v \in Val0, SaveConnector(c, v) PROVE IInv'
  <2>1. Begin("ui", "save", c, v, "keep", AnyAgent)
    BY <1>1 DEF SaveConnector
  <2>. QED
    BY <2>1, BeginKeeps
<1>2. ASSUME NEW c \in Conn, NEW v \in Val0, SaveSeed(c, v) PROVE IInv'
  BY <1>2, SaveSeedKeeps
<1>3. ASSUME NEW c \in Conn, Customize(c) PROVE IInv'
  <2>1. Begin("ui", "customize", c, NoVal, "custom", AnyAgent) /\ c \notin row.custom
    BY <1>3 DEF Customize
  <2>. QED
    BY <2>1, BeginKeeps
<1>4. ASSUME NEW c \in Conn, Follow(c) PROVE IInv'
  <2>1. Begin("ui", "follow", c, NoVal, "system", AnyAgent)
    BY <1>4 DEF Follow
  <2>. QED
    BY <2>1, BeginKeeps
<1>5. ASSUME NEW c \in Conn, NEW v \in Val0, NEW m \in Mode, PatchProfile(c, v, m)
      PROVE  IInv'
  <2>1. Begin("patch", "patch", c, v, m, AnyAgent)
    BY <1>5 DEF PatchProfile
  <2>. QED
    BY <2>1, BeginKeeps
<1>6. ASSUME NEW a \in Agent, StartAgent(a) PROVE IInv'
  <2>1. Begin("ui", "start", AnyConn, NoVal, "keep", a)
    BY <1>6 DEF StartAgent
  <2>. QED
    BY <2>1, BeginKeeps
<1>7. ASSUME NEW a \in Agent, StopAgent(a) PROVE IInv'
  BY <1>7, StopQuiet, QuietKeeps
<1>. QED
  BY <1>1, <1>2, <1>3, <1>4, <1>5, <1>6, <1>7 DEF Requests

LEMMA WriterStepKeeps ==
    ASSUME IInv, TypeOK', NEW w \in Writer, WriterStep(w)
    PROVE  IInv'
<1>. TypeOK
  BY DEF IInv
<1>1. CASE CommitStep(w)
  BY <1>1, CommitKeeps
<1>2. ASSUME Quiet PROVE IInv'
  BY <1>2, QuietKeeps
<1>. QED
  BY <1>1, <1>2, RenderQuiet, UpsertQuiet, EndsQuiet, RolloutQuiet
     DEF WriterStep, CommitStep

LEMMA InvariantNext == IInv /\ [Next]_vars => IInv'
<1> SUFFICES ASSUME IInv, [Next]_vars PROVE IInv'
  OBVIOUS
<1>1. TypeOK /\ TypeOK'
  BY TypeNext DEF IInv
<1>2. ASSUME Quiet PROVE IInv'
  BY <1>1, <1>2, QuietKeeps
<1>3. CASE UNCHANGED vars
  BY <1>2, <1>3, StutterQuiet
<1>4. CASE Startup \/ Requests \/ SyncRead
  BY <1>1, <1>4, StartupKeeps, RequestsKeep, SyncReadKeeps
<1>5. CASE Faults
  BY <1>1, <1>2, <1>5, UpsertQuiet, RestartFailsQuiet, PodsQuiet, CrashKeeps DEF Faults
<1>6. ASSUME NEW w \in Writer, WriterStep(w) PROVE IInv'
  BY <1>1, <1>6, WriterStepKeeps
<1>7. ASSUME NEW a \in Agent, PodBoots(a) \/ StatusStep(a) PROVE IInv'
  BY <1>1, <1>2, <1>7, PodsQuiet
<1>. QED
  BY <1>3, <1>4, <1>5, <1>6, <1>7 DEF Next

\* What is loaded, rendered, booted and recorded is never ahead of the row, and what
\* carries its revision carries the member's settings, through every commit of the panel,
\* of a PATCH (api/runtime_profiles.py:65-71) and of a rollout, but for the mishaps named
\* in ProfileRollout and for what is not settled yet.
THEOREM Invariance == Spec => []IInv
<1>. QED
  BY InitInvariant, InvariantNext, PTL DEF Spec

\* No assistant is recorded, and no pod runs, ahead of the settings row, whatever saves,
\* starts, rollouts, late status answers, failed writes and crashes overlap: "restart to
\* apply" can still show (api/agents.py, "profile_revision_applied").  The exception is a
\* revision counted up from an outdated copy of the row.
THEOREM NotAhead == Spec => []AppliedNotAhead
<1>1. IInv => AppliedNotAhead
  BY DEF IInv, Forward, Bounded, AppliedNotAhead
<1>. QED
  BY <1>1, Invariance, PTL

\* A pod, or the Secret, with the row's revision has the settings the member is shown,
\* unless a mishap was met, a changed seed is still to be rolled out, or a PATCH has
\* committed modes whose revision it has still to commit (api/runtime_profiles.py:65-71).
THEOREM RevisionTells == Spec => []RevisionIsSettings
<1>1. IInv => RevisionIsSettings
  <2> SUFFICES ASSUME IInv, mishap = {}, ~Unsettled,
                      NEW x, x = secret \/ \E a \in Agent : x = pod[a],
                      x.rev = row.rev
               PROVE  x.cfg = Current
    BY DEF RevisionIsSettings
  <2>1. x \in Rendered /\ Carried(x)
    BY DEF IInv, TypeOK, Carried
  <2>2. \A c \in Conn : x.cfg[c] = Current[c]
    BY <2>1 DEF IInv, Told, Agrees, Owed, Unsettled
  <2>3. x.cfg \in Settings /\ Current \in Settings
    BY <2>1, CurrentTyped DEF IInv, Rendered
  <2>. QED
    BY <2>2, <2>3 DEF Settings
<1>. QED
  BY <1>1, Invariance, PTL

\* A step that moves what the assistants should have moves the revision with it; or the
\* administrator saved the seed; or a PATCH committed its modes, and owes the revision or
\* has counted it with its values (api/runtime_profiles.py:65-71); or a mishap was met.
THEOREM MovesRevision == Spec => ChangeMovesRevision
<1>. DEFINE Timed == Current' # Current /\ mishap' = {} =>
              row'.rev > row.rev \/ sess'["sync"].at = "due" \/ PatchOwes' \/ PatchHalfway
<1>1. ASSUME IInv, [Next]_vars PROVE Timed \/ UNCHANGED vars
  <2>. row.rev \in Nat
    BY <1>1 DEF IInv, TypeOK, Row
  <2>1. ASSUME Quiet PROVE Timed
    BY <2>1 DEF Quiet, Current
  <2>2. ASSUME UNCHANGED <<row, seed>> PROVE Timed
    BY <2>2 DEF Current
  <2>3. CASE Startup
    BY <2>3 DEF Startup, Seen, Current
  <2>4. CASE Requests
    <3>1. ASSUME NEW c \in Conn, NEW v \in Val0, SaveSeed(c, v) PROVE Timed
      <4>1. sess'["sync"].at = "due"
        BY <1>1, <3>1 DEF SaveSeed, IInv, TypeOK, Writer, IdleSession
      <4>. QED
        BY <4>1
    <3>2. ASSUME ~\E c \in Conn, v \in Val0 : SaveSeed(c, v)
          PROVE  UNCHANGED <<row, seed>>
      BY <2>4, <3>2 DEF Requests, SaveConnector, Customize, Follow, PatchProfile,
                        StartAgent, StopAgent, Begin
    <3>. QED
      BY <2>2, <3>1, <3>2
  <2>5. CASE SyncRead \/ Faults
    BY <2>2, <2>5 DEF SyncRead, Faults, UpsertFails, RestartFails, PodRestarts, Crash
  <2>6. ASSUME NEW w \in Writer, WriterStep(w) PROVE Timed
    <3>1. CASE CommitStep(w)
      <4>1. SUFFICES ASSUME mishap' = {}, Current' # Current
                     PROVE  row'.rev > row.rev \/ PatchOwes' \/ PatchHalfway
        OBVIOUS
      <4>. QED
        BY <1>1, <3>1, <4>1, CommitSettles DEF Settled
    <3>2. CASE ~CommitStep(w)
      BY <2>2, <2>6, <3>2 DEF WriterStep, CommitStep, Render, UpsertSecret, RolloutDone,
                              BootAgent, LeaveBusy, RestartIdle
    <3>. QED
      BY <3>1, <3>2
  <2>7. ASSUME NEW a \in Agent, PodBoots(a) \/ StatusStep(a) PROVE Timed
    BY <2>2, <2>7 DEF PodBoots, StatusStep, PollStatus, PodAnswers, RecordAnswer
  <2>. QED
    BY <1>1, <2>3, <2>4, <2>5, <2>6, <2>7 DEF Next
<1>. QED
  BY <1>1, Invariance, PTL DEF Spec, ChangeMovesRevision
=============================================================================
