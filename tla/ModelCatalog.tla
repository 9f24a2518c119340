---------------------------- MODULE ModelCatalog ----------------------------
(***************************************************************************)
(* The Portal's copy of Copilot's model catalog.  A process keeps it in    *)
(* memory (what the pickers show) and registered (what validation reads);  *)
(* platform_settings keeps what any process stored last.  Requests that    *)
(* only look run on threads; requests that may ask a runtime run on the    *)
(* event loop and give it up while they wait for the answer.               *)
(***************************************************************************)
EXTENDS ModelChoices

CONSTANTS
    Looker,         \* threads that serve a request which reads the catalog
    Asker,          \* requests on the event loop that may ask a runtime
    Reported,       \* catalogs a runtime may report
    Assistants,     \* the model settings of assistants, saved under whatever catalog
    MaxStamp        \* bound: copies stored

ASSUME CatalogAssumption ==
    /\ MaxStamp \in Nat \ {0}
    /\ \A cat \in Reported : IsCatalog(cat)
    /\ Assistants \subseteq ModelSettings

VARIABLES
    memory,         \* the copy in memory: its list and when it was fetched (0: none)
    registered,     \* the list validation reads
    stored,         \* the copy in platform_settings
    fresh,          \* the copy in memory is younger than an hour
    checked,        \* platform_settings was looked at within a minute
    failed,         \* a runtime was asked in vain within five minutes
    at,             \* where each request is
    mine,           \* the copy it holds
    stamp,          \* copies stored so far
    overlapped      \* history: two requests were registering at once

catVars == <<memory, registered, stored, fresh, checked, failed, at, mine, stamp, overlapped>>

Request == Looker \cup Asker
None    == [list |-> NoCatalog, stamp |-> 0]
Copies  == {None} \cup [list : Reported, stamp : 1..MaxStamp]
Places  == {"idle", "load", "adopt", "adopted", "decide", "fetch", "answered", "stored",
            "persist"}

CatTypeOK ==
    /\ memory \in Copies /\ stored \in Copies /\ registered \in {NoCatalog} \cup Reported
    /\ fresh \in BOOLEAN /\ checked \in BOOLEAN /\ failed \in BOOLEAN
    /\ at \in [Request -> Places] /\ mine \in [Request -> Copies]
    /\ stamp \in 0..MaxStamp /\ overlapped \in BOOLEAN

CatInit ==
    /\ memory = None /\ registered = NoCatalog
    /\ stored \in {None} \cup {[list |-> c, stamp |-> 1] : c \in Reported}
    /\ fresh = FALSE /\ checked = FALSE /\ failed = FALSE
    /\ at = [r \in Request |-> "idle"] /\ mine = [r \in Request |-> None]
    /\ stamp = 1 /\ overlapped = FALSE

\* One request at a time runs on the event loop, up to its next await.
LoopFree(r) == r \in Asker => \A q \in Asker \ {r} : at[q] \in {"idle", "fetch"}
Goes(r, p)  == at' = [at EXCEPT ![r] = p]
Registering == {"adopted", "stored"}

\* After reading the catalog a looker is done; an asker goes on.
Read(r) == IF r \in Asker THEN "decide" ELSE "idle"

\* A fresh copy costs no read of the database, nor does one looked for a minute ago.
Start(r) ==
    /\ at[r] = "idle" /\ LoopFree(r)
    /\ Goes(r, IF fresh \/ checked THEN Read(r) ELSE "load")
    /\ UNCHANGED <<memory, registered, stored, fresh, checked, failed, mine, stamp, overlapped>>

Load(r) ==
    /\ at[r] = "load"
    /\ mine' = [mine EXCEPT ![r] = stored]
    /\ Goes(r, "adopt")
    /\ UNCHANGED <<memory, registered, stored, fresh, checked, failed, stamp, overlapped>>

\* Mutant: what is adopted is not registered.
AdoptUnregistered(r) ==
    /\ at[r] = "adopt"
    /\ checked' = TRUE
    /\ memory' = IF mine[r].stamp > memory.stamp THEN mine[r] ELSE memory
    /\ Goes(r, Read(r))
    /\ UNCHANGED <<registered, stored, fresh, failed, mine, stamp, overlapped>>

\* Under the lock: only a newer copy is adopted.
Adopts(r) == mine[r].stamp > memory.stamp
Adopt(r) ==
    /\ at[r] = "adopt"
    /\ checked' = TRUE
    /\ memory' = IF Adopts(r) THEN mine[r] ELSE memory
    /\ fresh' \in IF Adopts(r) THEN BOOLEAN ELSE {fresh}
    /\ Goes(r, IF Adopts(r) THEN "adopted" ELSE Read(r))
    /\ overlapped' = (overlapped \/ (Adopts(r) /\ \E q \in Request \ {r} : at[q] \in Registering))
    /\ UNCHANGED <<registered, stored, failed, mine, stamp>>

\* The lock is given up before the list is registered.
Register(r) ==
    /\ at[r] \in Registering
    /\ registered' = mine[r].list
    /\ Goes(r, IF at[r] = "adopted" THEN Read(r) ELSE "persist")
    /\ UNCHANGED <<memory, stored, fresh, checked, failed, mine, stamp, overlapped>>

\* A runtime is asked unless the copy is fresh, the assistant is not a running Copilot
\* one, or the last failure is recent.
Decide(r) ==
    /\ at[r] = "decide" /\ LoopFree(r)
    /\ \/ Goes(r, "idle")
       \/ ~fresh /\ ~failed /\ Goes(r, "fetch")
    /\ UNCHANGED <<memory, registered, stored, fresh, checked, failed, mine, stamp, overlapped>>

\* The auto entries and the rows marked selectable; an answer without such a row, or of
\* any other source, is none.
Project(r, list) ==
    /\ at[r] = "fetch" /\ LoopFree(r) /\ stamp < MaxStamp
    /\ stamp' = stamp + 1
    /\ mine' = [mine EXCEPT ![r] = [list |-> list, stamp |-> stamp + 1]]
    /\ Goes(r, "answered")
    /\ UNCHANGED <<memory, registered, stored, fresh, checked, failed, overlapped>>

Fails(r) ==
    /\ at[r] = "fetch" /\ LoopFree(r)
    /\ failed' = TRUE /\ Goes(r, "idle")
    /\ UNCHANGED <<memory, registered, stored, fresh, checked, mine, stamp, overlapped>>

Store(r) ==
    /\ at[r] = "answered"
    /\ memory' = mine[r] /\ fresh' = TRUE /\ failed' = FALSE /\ checked' = TRUE
    /\ Goes(r, "stored")
    /\ overlapped' = (overlapped \/ \E q \in Request \ {r} : at[q] \in Registering)
    /\ UNCHANGED <<registered, stored, mine, stamp>>

\* Best effort.
Persist(r) ==
    /\ at[r] = "persist"
    /\ stored' \in {mine[r], stored}
    /\ Goes(r, "idle")
    /\ UNCHANGED <<memory, registered, fresh, checked, failed, mine, stamp, overlapped>>

\* Another process stores what its runtimes reported.
StoredElsewhere(list) ==
    /\ stamp < MaxStamp /\ stamp' = stamp + 1
    /\ stored' = [list |-> list, stamp |-> stamp + 1]
    /\ UNCHANGED <<memory, registered, fresh, checked, failed, at, mine, overlapped>>

\* An hour, a minute, five minutes pass.
TimePasses ==
    /\ \/ fresh /\ fresh' = FALSE /\ UNCHANGED <<checked, failed>>
       \/ checked /\ checked' = FALSE /\ UNCHANGED <<fresh, failed>>
       \/ failed /\ failed' = FALSE /\ UNCHANGED <<fresh, checked>>
    /\ UNCHANGED <<memory, registered, stored, at, mine, stamp, overlapped>>

RequestStep(r) ==
    Start(r) \/ Load(r) \/ Adopt(r) \/ Register(r) \/ Store(r) \/ Persist(r)

CatNext ==
    \/ \E r \in Request : RequestStep(r)
    \/ \E r \in Asker : Decide(r) \/ Fails(r) \/ \E c \in Reported : Project(r, c)
    \/ \E c \in Reported : StoredElsewhere(c)
    \/ TimePasses

CatSpec == CatInit /\ [][CatNext]_catVars

-----------------------------------------------------------------------------
\* What the pickers offer is what validation accepts, whatever requests adopted, fetched
\* and stored catalogs before, as soon as nobody is between taking a list over and
\* registering it: unless two of them once were at the same time.
PickerIsValidator ==
    ~overlapped /\ (\A r \in Request : at[r] \notin Registering) => registered = memory.list

\* Whatever catalog is registered and whatever row was saved under another, every model,
\* thinking level and context size a composer offers is accepted when it is sent, and what
\* it shows as the assistant's own is among what it offers.
ChoicesAccepted == \A p \in Assistants : OfferedAccepted(registered, p)
=============================================================================
