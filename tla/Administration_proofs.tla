------------------------- MODULE Administration_proofs -------------------------
(***************************************************************************)
(* MembersHold, PickerIsValidator, ChoicesAccepted and ErrorsAddUp: who    *)
(* may sign in, which models may be chosen and what went wrong, for every  *)
(* number of persons, requests and threads.                                *)
(***************************************************************************)
EXTENDS Members, ModelCatalog, ErrorLog, FiniteSetTheorems, FunctionTheorems, WellFoundedInduction, TLAPS

-----------------------------------------------------------------------------
(* Members.  Each step writes about one person at most; what the others    *)
(* are owed stays (Unrelated).  For the person a step is about, a lone     *)
(* request knows what it found and what it wrote half of (Half).           *)

ClerkPlaces == {"ready", "entry", "account", "entry of new", "new account", "role", "role of entry", "remove"}
VisitorStages == {"ready", "asking", "look", "create", "profile", "token", "in"}
Roles0 == {"none"} \cup MemberRoles
Entries == {NoEntryYet} \cup [role : MemberRoles, active : BOOLEAN]
Profiles == {"none", "seeded", "github_copilot", "ai_platform"}
Requests == [at : ClerkPlaces, who : Person, role : MemberRoles, by : {"sso", "admin"}, read : Roles0]
Visits   == [at : VisitorStages, who : Person, role : MemberRoles, by : {"sso", "github"}, read : {"none"}]

MembersTypeOK ==
    /\ accounts \in [Person -> Roles0] /\ entry \in [Person -> Entries]
    /\ profile \in [Person -> Profiles]
    /\ clerk \in [Clerk -> Requests] /\ visitor \in [Visitor -> Visits]
    /\ serving \in BOOLEAN /\ muddled \subseteq Person

\* A Portal that is down works on nothing; cookies remain.
Down == ~serving => /\ \A c \in Clerk : ~Busy(clerk[c])
                    /\ \A v \in Visitor : visitor[v].at \in {"ready", "in"}

About(c, p)   == Busy(clerk[c]) /\ clerk[c].who = p
Creates(v, p) == visitor[v].at = "create" /\ visitor[v].who = p
Agree(p)      == accounts[p] = "none" \/ entry[p] = NoEntryYet \/ accounts[p] = entry[p].role

\* Nobody is about to take anything from the bootstrap administrator.
Protected ==
    serving /\ HasPassword =>
        /\ EffectiveAdmin(Bootstrap)
        /\ \A c \in Clerk : About(c, Bootstrap) => clerk[c].at \in {"role", "role of entry"} /\ clerk[c].role = "admin"

Lone(p) ==
    /\ \A c, d \in Clerk : About(c, p) /\ About(d, p) => c = d
    /\ \A u, v \in Visitor : Creates(u, p) /\ Creates(v, p) => u = v
    /\ \A c \in Clerk, v \in Visitor : ~(About(c, p) /\ Creates(v, p))
\* What a lone request has seen and written so far.
Half(c, p) ==
    /\ clerk[c].at \in {"account", "new account"} => entry[p].role = clerk[c].role
    /\ clerk[c].at \in {"entry of new", "new account"} => accounts[p] = "none"
    /\ clerk[c].at = "role" => accounts[p] = clerk[c].read
    /\ clerk[c].at = "role of entry" => accounts[p] = clerk[c].role
AboutToCreate(v, p) ==
    accounts[p] = "none" /\ (entry[p] # NoEntryYet => entry[p].role = visitor[v].role)
RoleOK(p) ==
    /\ Lone(p)
    /\ \A c \in Clerk : About(c, p) => Half(c, p)
    /\ \A v \in Visitor : Creates(v, p) => AboutToCreate(v, p)
    /\ (\A c \in Clerk : ~About(c, p)) /\ (\A v \in Visitor : ~Creates(v, p)) => Agree(p)
RolesAgree == \A p \in Person \ muddled : RoleOK(p)

\* How far a visitor has come.
Come(v) ==
    /\ visitor[v].at \in {"profile", "token", "in"} => accounts[visitor[v].who] # "none"
    /\ visitor[v].at \in {"token", "in"} => profile[visitor[v].who] # "none"
    /\ visitor[v].at = "in" /\ visitor[v].by = "github" =>
           profile[visitor[v].who] \in {"github_copilot", "ai_platform"}
Arrived == \A v \in Visitor : Come(v)

MembersIInv == MembersTypeOK /\ Down /\ Protected /\ RolesAgree /\ Arrived

-----------------------------------------------------------------------------
\* An entry there is has one of the two roles.
LEMMA EntryRoles ==
    ASSUME NEW e \in Entries, e # NoEntryYet
    PROVE  e.role \in MemberRoles
BY DEF Entries, NoEntryYet

LEMMA ReadyTypes ==
    /\ Ready \in Visits
    /\ Ready \in Requests
    /\ Ready.at = "ready"
BY MembersAssumption DEF Ready, Visits, Requests, ClerkPlaces, VisitorStages, MemberRoles, Roles0

\* What a step leaves as it is, for a person.
Same(p) ==
    /\ accounts'[p] = accounts[p] /\ entry'[p] = entry[p]
    /\ \A c \in Clerk : About(c, p) \/ About(c, p)' => clerk'[c] = clerk[c]
    /\ \A v \in Visitor : Creates(v, p) \/ Creates(v, p)' => visitor'[v] = visitor[v]

\* Whom a step is not about keeps what they are owed.
LEMMA Unrelated ==
    ASSUME NEW p \in Person, RoleOK(p), Same(p)
    PROVE  RoleOK(p)'
<1>1. \A c \in Clerk : About(c, p)' <=> About(c, p)
  BY DEF Same, About, Busy
<1>2. \A v \in Visitor : Creates(v, p)' <=> Creates(v, p)
  BY DEF Same, Creates
<1>3. Lone(p)'
  <2>1. Lone(p)
    BY DEF RoleOK
  <2>2. QED BY <2>1, <1>1, <1>2 DEF Lone
<1>4. ASSUME NEW c \in Clerk, About(c, p)' PROVE Half(c, p)'
  <2>1. About(c, p) /\ clerk'[c] = clerk[c]
    BY <1>4, <1>1 DEF Same
  <2>2. Half(c, p)
    BY <2>1 DEF RoleOK
  <2>3. QED BY <2>1, <2>2 DEF Half, Same
<1>5. ASSUME NEW v \in Visitor, Creates(v, p)' PROVE AboutToCreate(v, p)'
  <2>1. Creates(v, p) /\ visitor'[v] = visitor[v]
    BY <1>5, <1>2 DEF Same
  <2>2. AboutToCreate(v, p)
    BY <2>1 DEF RoleOK
  <2>3. QED BY <2>1, <2>2 DEF AboutToCreate, Same
<1>6. ASSUME \A c \in Clerk : ~About(c, p)', \A v \in Visitor : ~Creates(v, p)' PROVE Agree(p)'
  <2>1. (\A c \in Clerk : ~About(c, p)) /\ (\A v \in Visitor : ~Creates(v, p))
    BY <1>6, <1>1, <1>2
  <2>2. Agree(p)
    BY <2>1 DEF RoleOK
  <2>3. QED BY <2>2 DEF Agree, Same
<1>7. QED BY <1>3, <1>4, <1>5, <1>6 DEF RoleOK

\* A step that is about one person at most keeps RolesAgree when that person's holds.
LEMMA OneAtMost ==
    ASSUME RolesAgree, muddled \subseteq muddled',
           NEW q, \A p \in Person \ {q} : Same(p), q \in Person \ muddled' => RoleOK(q)'
    PROVE  RolesAgree'
<1> SUFFICES ASSUME NEW p \in Person \ muddled' PROVE RoleOK(p)'
  BY DEF RolesAgree
<1>1. CASE p = q
  BY <1>1
<1>2. CASE p # q
  <2>1. RoleOK(p)
    BY DEF RolesAgree
  <2>2. QED BY <2>1, <1>2, Unrelated
<1>3. QED BY <1>1, <1>2

\* A step that is about nobody.
LEMMA NobodyConcerned ==
    ASSUME RolesAgree, muddled \subseteq muddled', \A p \in Person : Same(p)
    PROVE  RolesAgree'
<1> SUFFICES ASSUME NEW p \in Person \ muddled' PROVE RoleOK(p)'
  BY DEF RolesAgree
<1>1. RoleOK(p)
  BY DEF RolesAgree
<1>2. QED BY <1>1, Unrelated

-----------------------------------------------------------------------------
(* Start.                                                                  *)

LEMMA MembersInitIInv == MembersInit => MembersIInv
<1> SUFFICES ASSUME MembersInit PROVE MembersIInv
  OBVIOUS
<1>0. Ready \in Visits /\ Ready \in Requests /\ Ready.at = "ready"
  BY ReadyTypes
<1>1. (\A c \in Clerk : clerk[c] = Ready) /\ (\A v \in Visitor : visitor[v] = Ready)
  BY DEF MembersInit
<1>2. (\A c \in Clerk : ~Busy(clerk[c])) /\ (\A v \in Visitor : visitor[v].at = "ready")
  BY <1>0, <1>1 DEF Busy
<1>3. MembersTypeOK
  <2>1. accounts \in [Person -> Roles0] /\ entry \in [Person -> Entries]
    BY DEF MembersInit, Roles0, Entries
  <2>2. profile \in [Person -> Profiles] /\ serving \in BOOLEAN /\ muddled \subseteq Person
    BY DEF MembersInit, Profiles
  <2>3. clerk \in [Clerk -> Requests] /\ visitor \in [Visitor -> Visits]
    BY <1>0 DEF MembersInit
  <2>4. QED BY <2>1, <2>2, <2>3 DEF MembersTypeOK
<1>4. Down /\ Protected /\ Arrived
  BY <1>2 DEF MembersInit, Down, Protected, Arrived, Come
<1>5. RolesAgree
  <2> SUFFICES ASSUME NEW p \in Person PROVE RoleOK(p)
    BY DEF RolesAgree
  <2>1. (\A c \in Clerk : ~About(c, p)) /\ (\A v \in Visitor : ~Creates(v, p))
    BY <1>2 DEF About, Creates
  <2>2. Agree(p)
    BY DEF MembersInit, Agree
  <2>3. QED BY <2>1, <2>2 DEF RoleOK, Lone
<1>6. QED BY <1>3, <1>4, <1>5 DEF MembersIInv

LEMMA StartUpKeeps == MembersIInv /\ StartUp => MembersIInv'
<1> SUFFICES ASSUME MembersIInv, StartUp PROVE MembersIInv'
  OBVIOUS
<1> USE DEF MembersIInv
<1>0. /\ ~serving /\ serving' = TRUE
      /\ clerk' = clerk /\ visitor' = visitor /\ muddled' = muddled \cup Relisted
  BY DEF StartUp
<1>1. \A p \in Person : /\ accounts'[p] = IF Promotes /\ p = Bootstrap THEN "admin" ELSE accounts[p]
                        /\ entry'[p] = IF Promotes /\ p = Bootstrap THEN [role |-> "admin", active |-> TRUE]
                                       ELSE ListedIn(entry)[p]
                        /\ profile'[p] = IF accounts'[p] # "none" /\ profile[p] = "none" THEN "seeded" ELSE profile[p]
  BY DEF StartUp, ListedIn, MembersTypeOK
<1>2. accounts' \in [Person -> Roles0] /\ entry' \in [Person -> Entries]
  <2>1. accounts' \in [Person -> Roles0]
    BY DEF StartUp, MembersTypeOK, Roles0, MemberRoles
  <2>2. ASSUME NEW p \in Person PROVE ListedIn(entry)[p] \in Entries
    <3>1. entry[p] \in Entries
      BY DEF MembersTypeOK
    <3>2. CASE p \notin Listed
      BY <3>1, <3>2 DEF ListedIn
    <3>3. CASE p \in Listed
      <4>1. (IF entry[p] = NoEntryYet THEN "user" ELSE entry[p].role) \in MemberRoles
        BY <3>1, EntryRoles DEF MemberRoles
      <4>2. QED BY <4>1, <3>3 DEF ListedIn, Entries
    <3>4. QED BY <3>2, <3>3
  <2>3. ListedIn(entry) \in [Person -> Entries]
    BY <2>2 DEF ListedIn
  <2>4. [role |-> "admin", active |-> TRUE] \in Entries
    BY DEF Entries, MemberRoles
  <2>5. QED BY <2>1, <2>3, <2>4 DEF StartUp
<1>3. MembersTypeOK'
  <2>1. profile' \in [Person -> Profiles]
    BY DEF StartUp, MembersTypeOK, Profiles
  <2>2. muddled' \subseteq Person
    BY <1>0, MembersAssumption DEF MembersTypeOK, Relisted
  <2>3. QED BY <1>0, <1>2, <2>1, <2>2 DEF MembersTypeOK
<1>4. \A c \in Clerk : ~Busy(clerk[c])
  BY <1>0 DEF Down
<1>5. \A v \in Visitor : visitor[v].at \in {"ready", "in"}
  BY <1>0 DEF Down
<1>6. Down'
  BY <1>0 DEF Down
<1>7. Protected'
  <2>1. Bootstrap \in Person
    BY MembersAssumption
  <2>2. HasPassword => EffectiveAdmin(Bootstrap)'
    BY <1>1, <2>1 DEF Promotes, EffectiveAdmin, Allowed
  <2>3. QED BY <2>2, <1>0, <1>4 DEF Protected, About
<1>8. RolesAgree'
  <2> SUFFICES ASSUME NEW p \in Person, p \notin muddled, p \notin Relisted PROVE RoleOK(p)'
    BY <1>0 DEF RolesAgree
  <2>1. (\A c \in Clerk : ~About(c, p)) /\ (\A v \in Visitor : ~Creates(v, p))
    BY <1>4, <1>5 DEF About, Creates
  <2>2. (\A c \in Clerk : ~About(c, p)') /\ (\A v \in Visitor : ~Creates(v, p)')
    BY <2>1, <1>0 DEF About, Creates
  <2>3. Agree(p)
    BY <2>1 DEF RolesAgree, RoleOK
  <2>4. accounts[p] \in Roles0 /\ entry[p] \in Entries
    BY DEF MembersTypeOK
  <2>5. CASE Promotes /\ p = Bootstrap
    BY <1>1, <2>2, <2>5 DEF RoleOK, Lone, Agree
  <2>6. CASE ~(Promotes /\ p = Bootstrap) /\ p \in Listed
    <3>0. /\ accounts'[p] = accounts[p]
          /\ entry'[p] = [role |-> IF entry[p] = NoEntryYet THEN "user" ELSE entry[p].role, active |-> TRUE]
      BY <1>1, <2>6 DEF ListedIn
    <3>1. /\ accounts'[p] = accounts[p]
          /\ entry'[p].role = IF entry[p] = NoEntryYet THEN "user" ELSE entry[p].role
      BY <3>0
    <3>2. entry[p] = NoEntryYet => accounts[p] \in {"none", "user"}
      BY <2>4, <2>6 DEF Relisted, Roles0, MemberRoles
    <3>3. Agree(p)'
      BY <2>3, <3>1, <3>2 DEF Agree
    <3>4. QED BY <2>2, <3>3 DEF RoleOK, Lone
  <2>7. CASE ~(Promotes /\ p = Bootstrap) /\ p \notin Listed
    <3>1. accounts'[p] = accounts[p] /\ entry'[p] = entry[p]
      BY <1>1, <2>7 DEF ListedIn
    <3>2. QED BY <2>2, <2>3, <3>1 DEF RoleOK, Lone, Agree
  <2>8. QED BY <2>5, <2>6, <2>7
<1>9. Arrived'
  <2> SUFFICES ASSUME NEW v \in Visitor PROVE Come(v)'
    BY DEF Arrived
  <2>1. visitor[v].who \in Person /\ Come(v)
    BY DEF MembersTypeOK, Visits, Arrived
  <2>2. accounts[visitor[v].who] # "none" => accounts'[visitor[v].who] # "none"
    BY <1>1, <2>1
  <2>3. profile[visitor[v].who] # "none" => profile'[visitor[v].who] = profile[visitor[v].who]
    BY <1>1, <2>1
  <2>4. QED BY <2>1, <2>2, <2>3, <1>0 DEF Come
<1>10. QED BY <1>3, <1>6, <1>7, <1>8, <1>9

LEMMA ShutDownKeeps == MembersIInv /\ ShutDown => MembersIInv'
<1> SUFFICES ASSUME MembersIInv, ShutDown PROVE MembersIInv'
  OBVIOUS
<1> USE DEF MembersIInv
<1>0. /\ serving' = FALSE /\ muddled' = muddled \cup InPart
      /\ accounts' = accounts /\ entry' = entry /\ profile' = profile
      /\ \A c \in Clerk : clerk'[c] = Ready
      /\ \A v \in Visitor : visitor'[v] = IF visitor[v].at = "in" THEN visitor[v] ELSE Ready
  BY DEF ShutDown
<1>1. Ready \in Visits /\ Ready \in Requests /\ Ready.at = "ready"
  BY ReadyTypes
<1>2. MembersTypeOK'
  <2>1. clerk' \in [Clerk -> Requests] /\ visitor' \in [Visitor -> Visits]
    BY <1>1 DEF ShutDown, MembersTypeOK
  <2>2. InPart \subseteq Person
    BY DEF InPart, MembersTypeOK, Requests
  <2>3. QED BY <1>0, <2>1, <2>2 DEF MembersTypeOK
<1>3. (\A c \in Clerk : ~Busy(clerk'[c])) /\ \A v \in Visitor : visitor'[v].at \in {"ready", "in"}
  BY <1>0, <1>1 DEF Busy
<1>4. Down' /\ Protected'
  BY <1>0, <1>3 DEF Down, Protected
<1>5. RolesAgree'
  <2> SUFFICES ASSUME NEW p \in Person \ muddled' PROVE RoleOK(p)'
    BY DEF RolesAgree
  <2>1. RoleOK(p)
    BY <1>0 DEF RolesAgree
  <2>2. \A c \in Clerk : ~About(c, p)
    BY <1>0 DEF InPart, About
  <2>3. Agree(p)
    BY <2>1, <2>2, EntryRoles DEF RoleOK, Agree, AboutToCreate
  <2>4. (\A c \in Clerk : ~About(c, p)') /\ (\A v \in Visitor : ~Creates(v, p)')
    BY <1>3 DEF About, Creates
  <2>5. QED BY <2>3, <2>4, <1>0 DEF RoleOK, Lone, Agree
<1>6. Arrived'
  BY <1>0, <1>1 DEF Arrived, Come
<1>7. QED BY <1>2, <1>4, <1>5, <1>6

-----------------------------------------------------------------------------
(* Requests of administrators.                                             *)

\* Somebody touches the person: a request about them, or an account being created.
LEMMA TouchedMeans ==
    ASSUME NEW p, Touched(p) = {}
    PROVE  (\A c \in Clerk : ~About(c, p)) /\ \A v \in Visitor : ~Creates(v, p)
BY DEF Touched, About, Creates

\* A request has been admitted: alone, or its person's roles count as muddled from now on.
LEMMA Begins ==
    ASSUME MembersIInv, NEW c \in Clerk, NEW p \in Person, NEW role \in MemberRoles,
           NEW place \in {"entry", "entry of new", "role", "remove"},
           For(c, p, role, place), UNCHANGED <<accounts, entry, profile, visitor, device, moment, serving>>,
           HasPassword /\ p = Bootstrap => place = "role" /\ role = "admin",
           place = "entry of new" => accounts[p] = "none"
    PROVE  MembersIInv'
<1> USE DEF MembersIInv
<1>r. PICK r : r = [at |-> place, who |-> p, role |-> role, by |-> "admin", read |-> accounts[p]]
  OBVIOUS
<1>0. /\ serving /\ serving' /\ ~Busy(clerk[c]) /\ clerk' = [clerk EXCEPT ![c] = r]
      /\ muddled' = IF Touched(p) = {} THEN muddled ELSE muddled \cup {p}
      /\ accounts' = accounts /\ entry' = entry /\ profile' = profile
      /\ visitor' = visitor
  BY <1>r DEF For, Deed, Mixed, ClerkGoes
<1>1. r \in Requests
  BY <1>r DEF Requests, ClerkPlaces, MembersTypeOK
<1>2. /\ clerk'[c] = r /\ place # "ready"
      /\ r.at = place /\ r.who = p /\ r.role = role /\ r.read = accounts[p]
      /\ \A d \in Clerk \ {c} : clerk'[d] = clerk[d]
  BY <1>r, <1>0 DEF MembersTypeOK
<1>3. MembersTypeOK'
  <2>1. clerk' \in [Clerk -> Requests]
    BY <1>0, <1>1 DEF MembersTypeOK
  <2>2. QED BY <1>0, <2>1 DEF MembersTypeOK
<1>4. Down'
  BY <1>0 DEF Down
<1>5. Protected'
  <2> SUFFICES ASSUME HasPassword PROVE Protected'
    BY DEF Protected
  <2>1. EffectiveAdmin(Bootstrap)'
    BY <1>0 DEF Protected, EffectiveAdmin, Allowed
  <2>2. ASSUME NEW d \in Clerk, About(d, Bootstrap)'
        PROVE  clerk'[d].at \in {"role", "role of entry"} /\ clerk'[d].role = "admin"
    <3>1. CASE d = c
      BY <1>2, <2>2, <3>1 DEF About, Busy
    <3>2. CASE d # c
      BY <1>0, <1>2, <2>2, <3>2 DEF About, Protected, Busy
    <3>3. QED BY <3>1, <3>2
  <2>3. QED BY <2>1, <2>2 DEF Protected
<1>6. RolesAgree'
  <2>1. ASSUME NEW q \in Person \ {p} PROVE Same(q)
    <3>1. ~About(c, q) /\ ~About(c, q)'
      BY <1>0, <1>2 DEF About, Busy
    <3>2. QED BY <3>1, <1>0, <1>2 DEF Same
  <2>2. ASSUME p \in Person \ muddled' PROVE RoleOK(p)'
    <3>1. Touched(p) = {}
      BY <1>0, <2>2
    <3>2. (\A d \in Clerk : ~About(d, p)) /\ \A v \in Visitor : ~Creates(v, p)
      BY <3>1, TouchedMeans
    <3>3. (\A d \in Clerk : About(d, p)' => d = c) /\ \A v \in Visitor : ~Creates(v, p)'
      BY <3>2, <1>0, <1>2 DEF About, Creates
    <3>4. Half(c, p)'
      BY <1>0, <1>2 DEF Half
    <3>5. About(c, p)'
      BY <1>2 DEF About, Busy
    <3>6. QED BY <3>3, <3>4, <3>5 DEF RoleOK, Lone
  <2>3. muddled \subseteq muddled'
    BY <1>0
  <2>4. QED BY <2>1, <2>2, <2>3, OneAtMost
<1>7. Arrived'
  BY <1>0 DEF Arrived, Come
<1>8. QED BY <1>3, <1>4, <1>5, <1>6, <1>7

\* While the Portal serves, the bootstrap administrator is one.
LEMMA BootstrapServes ==
    ASSUME MembersIInv, serving, HasPassword
    PROVE  accounts[Bootstrap] = "admin" /\ Allowed(Bootstrap)
BY DEF MembersIInv, Protected, EffectiveAdmin

LEMMA AllowKeeps ==
    ASSUME MembersIInv, NEW c \in Clerk, NEW admin \in Person, NEW p \in Person, NEW role \in MemberRoles,
           Allow(c, admin, p, role)
    PROVE  MembersIInv'
<1>1. serving
  BY DEF Allow, For, Deed
<1>2. HasPassword => p # Bootstrap
  BY <1>1, BootstrapServes DEF Allow
<1>3. QED BY <1>2, Begins DEF Allow

LEMMA CreateUserKeeps ==
    ASSUME MembersIInv, NEW c \in Clerk, NEW admin \in Person, NEW p \in Person, NEW role \in MemberRoles,
           CreateUser(c, admin, p, role)
    PROVE  MembersIInv'
<1>1. serving
  BY DEF CreateUser, For, Deed
<1>2. HasPassword => p # Bootstrap
  BY <1>1, BootstrapServes DEF CreateUser
<1>3. QED BY <1>2, Begins DEF CreateUser

LEMMA ChangeRoleKeeps ==
    ASSUME MembersIInv, NEW c \in Clerk, NEW admin \in Person, NEW p \in Person, NEW role \in MemberRoles,
           ChangeRole(c, admin, p, role)
    PROVE  MembersIInv'
<1>1. p = Bootstrap => role = "admin"
  BY DEF ChangeRole, MayLose
<1>2. QED BY <1>1, Begins DEF ChangeRole

LEMMA RemoveAccessKeeps ==
    ASSUME MembersIInv, NEW c \in Clerk, NEW admin \in Person, NEW p \in Person, RemoveAccess(c, admin, p)
    PROVE  MembersIInv'
<1>1. p # Bootstrap /\ "user" \in MemberRoles
  BY DEF RemoveAccess, MayLose, MemberRoles
<1>2. QED BY <1>1, Begins DEF RemoveAccess

-----------------------------------------------------------------------------
(* What they write.                                                        *)

\* A request goes on: what it has to show for it, and that it leaves the others alone.
LEMMA ClerkWrites ==
    ASSUME MembersIInv, NEW c \in Clerk, Busy(clerk[c]), NEW p \in Person, p = clerk[c].who,
           NEW r \in Requests, ClerkGoes(c, r), Busy(r) => r.who = p,
           visitor' = visitor, serving' = serving, muddled' = muddled,
           accounts' \in [Person -> Roles0], entry' \in [Person -> Entries], profile' \in [Person -> Profiles],
           \A q \in Person \ {p} : accounts'[q] = accounts[q] /\ entry'[q] = entry[q],
           accounts[p] # "none" => accounts'[p] # "none",
           \A q \in Person : accounts[q] # "none" => profile'[q] = profile[q],
           serving /\ HasPassword /\ p = Bootstrap =>
               /\ accounts'[p] = "admin" /\ entry'[p].active
               /\ Busy(r) => r.at \in {"role", "role of entry"} /\ r.role = "admin",
           p \notin muddled => IF Busy(r) THEN Half(c, p)' ELSE Agree(p)'
    PROVE  MembersIInv'
<1> USE DEF MembersIInv
<1>1. clerk'[c] = r /\ \A d \in Clerk \ {c} : clerk'[d] = clerk[d]
  BY DEF ClerkGoes, MembersTypeOK
<1>2. MembersTypeOK'
  <2>1. clerk' \in [Clerk -> Requests]
    BY DEF ClerkGoes, MembersTypeOK
  <2>2. QED BY <2>1 DEF MembersTypeOK
<1>3. serving /\ serving'
  BY DEF Down, MembersTypeOK
<1>4. Down'
  BY <1>3 DEF Down
<1>5. Protected'
  <2> SUFFICES ASSUME HasPassword PROVE Protected'
    BY DEF Protected
  <2>0. Bootstrap \in Person /\ Protected
    BY MembersAssumption
  <2>1. EffectiveAdmin(Bootstrap)'
    BY <1>3, <2>0 DEF Protected, EffectiveAdmin, Allowed
  <2>2. ASSUME NEW d \in Clerk, About(d, Bootstrap)'
        PROVE  clerk'[d].at \in {"role", "role of entry"} /\ clerk'[d].role = "admin"
    <3>1. CASE d = c
      BY <1>1, <1>3, <2>2, <3>1 DEF About, Busy
    <3>2. CASE d # c
      <4>1. About(d, Bootstrap) /\ clerk'[d] = clerk[d]
        BY <1>1, <2>2, <3>2 DEF About, Busy
      <4>2. QED BY <4>1, <2>0, <1>3 DEF Protected
    <3>3. QED BY <3>1, <3>2
  <2>3. QED BY <2>1, <2>2 DEF Protected
<1>6. RolesAgree'
  <2>1. ASSUME NEW q \in Person \ {p} PROVE Same(q)
    <3>1. ~About(c, q) /\ ~About(c, q)'
      BY <1>1 DEF About, Busy
    <3>2. QED BY <3>1, <1>1 DEF Same
  <2>2. ASSUME p \in Person \ muddled' PROVE RoleOK(p)'
    <3>1. RoleOK(p) /\ About(c, p)
      BY <2>2 DEF RolesAgree, About
    <3>2. (\A d \in Clerk \ {c} : ~About(d, p)) /\ \A v \in Visitor : ~Creates(v, p)
      BY <3>1 DEF RoleOK, Lone
    <3>3. (\A d \in Clerk \ {c} : ~About(d, p)') /\ \A v \in Visitor : ~Creates(v, p)'
      BY <3>2, <1>1 DEF About, Creates, Busy
    <3>4. About(c, p)' <=> Busy(r)
      BY <1>1 DEF About, Busy
    <3>5. QED BY <2>2, <3>3, <3>4 DEF RoleOK, Lone
  <2>3. QED BY <2>1, <2>2, OneAtMost
<1>7. Arrived'
  <2> SUFFICES ASSUME NEW v \in Visitor PROVE Come(v)'
    BY DEF Arrived
  <2>1. visitor[v].who \in Person /\ Come(v)
    BY DEF MembersTypeOK, Visits, Arrived
  <2>2. accounts[visitor[v].who] # "none" => accounts'[visitor[v].who] # "none"
    BY <2>1
  <2>3. CASE visitor[v].at \in {"profile", "token", "in"}
    <3>1. profile'[visitor[v].who] = profile[visitor[v].who]
      BY <2>1, <2>3 DEF Come
    <3>2. QED BY <2>1, <2>2, <2>3, <3>1 DEF Come
  <2>4. CASE visitor[v].at \notin {"profile", "token", "in"}
    BY <2>4 DEF Come
  <2>5. QED BY <2>3, <2>4
<1>8. QED BY <1>2, <1>4, <1>5, <1>6, <1>7

\* What is known of a request that is under way.
LEMMA UnderWay ==
    ASSUME MembersIInv, NEW c \in Clerk, Busy(clerk[c])
    PROVE  /\ clerk[c] \in Requests /\ clerk[c].who \in Person /\ clerk[c].role \in MemberRoles
           /\ accounts[clerk[c].who] \in Roles0 /\ entry[clerk[c].who] \in Entries
           /\ serving /\ HasPassword /\ clerk[c].who = Bootstrap =>
                /\ accounts[Bootstrap] = "admin" /\ entry[Bootstrap].active
                /\ clerk[c].at \in {"role", "role of entry"} /\ clerk[c].role = "admin"
           /\ clerk[c].who \notin muddled => Half(c, clerk[c].who)
<1>1. clerk[c] \in Requests /\ clerk[c].who \in Person /\ clerk[c].role \in MemberRoles
  BY DEF MembersIInv, MembersTypeOK, Requests
<1>2. accounts[clerk[c].who] \in Roles0 /\ entry[clerk[c].who] \in Entries
  BY <1>1 DEF MembersIInv, MembersTypeOK
<1>3. About(c, clerk[c].who)
  BY DEF About
<1>4. serving /\ HasPassword /\ clerk[c].who = Bootstrap =>
          /\ accounts[Bootstrap] = "admin" /\ entry[Bootstrap].active
          /\ clerk[c].at \in {"role", "role of entry"} /\ clerk[c].role = "admin"
  BY <1>3 DEF MembersIInv, Protected, EffectiveAdmin, Allowed
<1>5. clerk[c].who \notin muddled => Half(c, clerk[c].who)
  BY <1>1, <1>3 DEF MembersIInv, RolesAgree, RoleOK
<1>6. QED BY <1>1, <1>2, <1>4, <1>5

LEMMA ReadyIsIdle == Ready \in Requests /\ ~Busy(Ready)
BY ReadyTypes DEF Busy

\* The same, of the last step of a request.
LEMMA ClerkDone ==
    ASSUME MembersIInv, NEW c \in Clerk, Busy(clerk[c]), NEW p \in Person, p = clerk[c].who, ClerkGoes(c, Ready),
           visitor' = visitor, serving' = serving, muddled' = muddled,
           accounts' \in [Person -> Roles0], entry' \in [Person -> Entries], profile' \in [Person -> Profiles],
           \A q \in Person \ {p} : accounts'[q] = accounts[q] /\ entry'[q] = entry[q],
           accounts[p] # "none" => accounts'[p] # "none",
           \A q \in Person : accounts[q] # "none" => profile'[q] = profile[q],
           serving /\ HasPassword /\ p = Bootstrap => accounts'[p] = "admin" /\ entry'[p].active,
           p \notin muddled => Agree(p)'
    PROVE  MembersIInv'
<1>1. Ready \in Requests /\ ~Busy(Ready)
  BY ReadyIsIdle
<1>2. QED BY <1>1, ClerkWrites

LEMMA WriteEntryKeeps == ASSUME MembersIInv, NEW c \in Clerk, WriteEntry(c) PROVE MembersIInv'
<1>1. Busy(clerk[c]) /\ clerk[c].at \in {"entry", "entry of new"}
  BY DEF WriteEntry, Busy
<1>p. PICK p \in Person : p = clerk[c].who
  BY <1>1, UnderWay
<1>r. PICK r : r = [clerk[c] EXCEPT !.at = IF @ = "entry" THEN "account" ELSE "new account"]
  OBVIOUS
<1>e. PICK e : e = [role |-> clerk[c].role, active |-> TRUE]
  OBVIOUS
<1>2. /\ clerk[c] \in Requests /\ p \in Person /\ clerk[c].role \in MemberRoles
      /\ serving /\ HasPassword => p # Bootstrap
      /\ p \notin muddled => Half(c, p)
  BY <1>p, <1>1, UnderWay
<1>3. r \in Requests /\ r.who = p /\ Busy(r) /\ r.role = clerk[c].role
      /\ r.at = (IF clerk[c].at = "entry" THEN "account" ELSE "new account")
  BY <1>p, <1>r, <1>1, <1>2 DEF Requests, ClerkPlaces, Busy
<1>4. e \in Entries /\ e.role = clerk[c].role /\ e.active
  BY <1>e, <1>2 DEF Entries
<1>5. /\ entry' \in [Person -> Entries] /\ entry'[p] = e /\ \A q \in Person \ {p} : entry'[q] = entry[q]
      /\ clerk'[c] = r
  BY <1>p, <1>r, <1>e, <1>2, <1>4 DEF WriteEntry, ClerkGoes, MembersIInv, MembersTypeOK
<1>6. /\ ClerkGoes(c, r) /\ visitor' = visitor /\ serving' = serving /\ muddled' = muddled
      /\ accounts' = accounts /\ profile' = profile
  BY <1>r DEF WriteEntry
<1>7. accounts' \in [Person -> Roles0] /\ profile' \in [Person -> Profiles]
  BY <1>6 DEF MembersIInv, MembersTypeOK
<1>8. p \notin muddled => Half(c, p)'
  <2>1. r.at \in {"account", "new account"} /\ (r.at = "new account" => clerk[c].at = "entry of new")
    BY <1>1, <1>3
  <2>2. entry'[p].role = clerk'[c].role /\ accounts'[p] = accounts[p]
    BY <1>3, <1>4, <1>5, <1>6
  <2>3. p \notin muddled /\ r.at = "new account" => accounts[p] = "none"
    BY <1>2, <2>1 DEF Half
  <2>4. QED BY <1>5, <2>1, <2>2, <2>3 DEF Half
<1>9. p \notin muddled => IF Busy(r) THEN Half(c, p)' ELSE Agree(p)'
  BY <1>3, <1>8
<1>10. QED BY <1>p, <1>1, <1>2, <1>3, <1>5, <1>6, <1>7, <1>9, ClerkWrites

LEMMA WriteAccountKeeps == ASSUME MembersIInv, NEW c \in Clerk, WriteAccount(c) PROVE MembersIInv'
<1>1. Busy(clerk[c]) /\ clerk[c].at = "account"
  BY DEF WriteAccount, Busy
<1>p. PICK p \in Person : p = clerk[c].who
  BY <1>1, UnderWay
<1>2. /\ p \in Person /\ clerk[c].role \in MemberRoles
      /\ serving /\ HasPassword => p # Bootstrap
      /\ p \notin muddled => Half(c, p)
  BY <1>p, <1>1, UnderWay
<1>3. /\ ClerkGoes(c, Ready) /\ visitor' = visitor /\ serving' = serving /\ muddled' = muddled
      /\ entry' = entry /\ profile' = profile
  BY DEF WriteAccount
<1>4. /\ accounts' \in [Person -> Roles0]
      /\ accounts'[p] = (IF accounts[p] = "none" THEN "none" ELSE clerk[c].role)
      /\ \A q \in Person \ {p} : accounts'[q] = accounts[q]
  BY <1>p, <1>2 DEF WriteAccount, MembersIInv, MembersTypeOK, Roles0
<1>5. entry' \in [Person -> Entries] /\ profile' \in [Person -> Profiles]
  BY <1>3 DEF MembersIInv, MembersTypeOK
<1>6. p \notin muddled => Agree(p)'
  BY <1>1, <1>2, <1>3, <1>4 DEF Half, Agree
<1>7. accounts[p] # "none" => accounts'[p] # "none"
  BY <1>2, <1>4 DEF MemberRoles
<1>8. QED BY <1>p, <1>1, <1>2, <1>3, <1>4, <1>5, <1>6, <1>7, ClerkDone

LEMMA WriteNewAccountKeeps == ASSUME MembersIInv, NEW c \in Clerk, WriteNewAccount(c) PROVE MembersIInv'
<1>1. Busy(clerk[c]) /\ clerk[c].at = "new account"
  BY DEF WriteNewAccount, Busy
<1>p. PICK p \in Person : p = clerk[c].who
  BY <1>1, UnderWay
<1>2. /\ p \in Person /\ clerk[c].role \in MemberRoles
      /\ serving /\ HasPassword => p # Bootstrap
      /\ p \notin muddled => Half(c, p)
  BY <1>p, <1>1, UnderWay
<1>3. /\ ClerkGoes(c, Ready) /\ visitor' = visitor /\ serving' = serving /\ muddled' = muddled
      /\ entry' = entry
  BY DEF WriteNewAccount
<1>4. /\ accounts' \in [Person -> Roles0] /\ profile' \in [Person -> Profiles]
      /\ accounts'[p] = (IF accounts[p] = "none" THEN clerk[c].role ELSE accounts[p])
      /\ \A q \in Person \ {p} : accounts'[q] = accounts[q]
      /\ \A q \in Person : accounts[q] # "none" => profile'[q] = profile[q]
  BY <1>p, <1>2 DEF WriteNewAccount, MembersIInv, MembersTypeOK, Roles0, Profiles
<1>5. entry' \in [Person -> Entries]
  BY <1>3 DEF MembersIInv, MembersTypeOK
<1>6. p \notin muddled => Agree(p)'
  BY <1>1, <1>2, <1>3, <1>4 DEF Half, Agree
<1>7. accounts[p] # "none" => accounts'[p] # "none"
  BY <1>4
<1>8. QED BY <1>p, <1>1, <1>2, <1>3, <1>4, <1>5, <1>6, <1>7, ClerkDone

LEMMA WriteRoleKeeps == ASSUME MembersIInv, NEW c \in Clerk, WriteRole(c) PROVE MembersIInv'
<1>1. Busy(clerk[c]) /\ clerk[c].at = "role"
  BY DEF WriteRole, Busy
<1>p. PICK p \in Person : p = clerk[c].who
  BY <1>1, UnderWay
<1>r. PICK r : r = [clerk[c] EXCEPT !.at = "role of entry"]
  OBVIOUS
<1>2. /\ clerk[c] \in Requests /\ p \in Person /\ clerk[c].role \in MemberRoles
      /\ serving /\ HasPassword /\ p = Bootstrap =>
            accounts[p] = "admin" /\ entry[p].active /\ clerk[c].role = "admin"
      /\ p \notin muddled => Half(c, p)
  BY <1>p, <1>1, UnderWay
<1>3. r \in Requests /\ r.who = p /\ Busy(r) /\ r.role = clerk[c].role /\ r.at = "role of entry"
  BY <1>p, <1>r, <1>2 DEF Requests, ClerkPlaces, Busy
<1>4. /\ ClerkGoes(c, r) /\ visitor' = visitor /\ serving' = serving /\ muddled' = muddled
      /\ entry' = entry /\ profile' = profile
  BY <1>r DEF WriteRole
<1>5. /\ accounts' \in [Person -> Roles0] /\ clerk'[c] = r
      /\ accounts'[p] = (IF clerk[c].read = clerk[c].role THEN accounts[p] ELSE clerk[c].role)
      /\ \A q \in Person \ {p} : accounts'[q] = accounts[q]
  BY <1>p, <1>r, <1>2 DEF WriteRole, ClerkGoes, MembersIInv, MembersTypeOK, Roles0
<1>6. entry' \in [Person -> Entries] /\ profile' \in [Person -> Profiles]
  BY <1>4 DEF MembersIInv, MembersTypeOK
<1>7. p \notin muddled => Half(c, p)'
  BY <1>1, <1>2, <1>3, <1>5 DEF Half
<1>8. accounts[p] # "none" => accounts'[p] # "none"
  BY <1>2, <1>5 DEF MemberRoles
<1>9. p \notin muddled => IF Busy(r) THEN Half(c, p)' ELSE Agree(p)'
  BY <1>3, <1>7
<1>10. serving /\ HasPassword /\ p = Bootstrap =>
           /\ accounts'[p] = "admin" /\ entry'[p].active
           /\ Busy(r) => r.at \in {"role", "role of entry"} /\ r.role = "admin"
  BY <1>2, <1>3, <1>4, <1>5
<1>11. (\A q \in Person \ {p} : entry'[q] = entry[q]) /\ \A q \in Person : profile'[q] = profile[q]
  BY <1>4
<1>12. QED BY <1>p, <1>1, <1>3, <1>4, <1>5, <1>6, <1>8, <1>9, <1>10, <1>11, ClerkWrites

LEMMA WriteEntryRoleKeeps == ASSUME MembersIInv, NEW c \in Clerk, WriteEntryRole(c) PROVE MembersIInv'
<1>1. Busy(clerk[c]) /\ clerk[c].at = "role of entry"
  BY DEF WriteEntryRole, Busy
<1>p. PICK p \in Person : p = clerk[c].who
  BY <1>1, UnderWay
<1>2. /\ p \in Person /\ clerk[c].role \in MemberRoles /\ entry[p] \in Entries
      /\ serving /\ HasPassword /\ p = Bootstrap => accounts[p] = "admin" /\ entry[p].active
      /\ p \notin muddled => Half(c, p)
  BY <1>p, <1>1, UnderWay
<1>3. /\ ClerkGoes(c, Ready) /\ visitor' = visitor /\ serving' = serving /\ muddled' = muddled
      /\ accounts' = accounts /\ profile' = profile
  BY DEF WriteEntryRole
<1>4. PICK e \in Entries : /\ e = IF entry[p] = NoEntryYet THEN entry[p] ELSE [entry[p] EXCEPT !.role = clerk[c].role]
                           /\ e = NoEntryYet \/ e.role = clerk[c].role
                           /\ e.active = entry[p].active
  <2>1. CASE entry[p] = NoEntryYet
    BY <1>2, <2>1
  <2>2. CASE entry[p] # NoEntryYet
    <3>1. entry[p] \in [role : MemberRoles, active : BOOLEAN]
      BY <1>2, <2>2 DEF Entries
    <3>2. [entry[p] EXCEPT !.role = clerk[c].role] \in [role : MemberRoles, active : BOOLEAN]
      BY <3>1, <1>2
    <3>3. QED BY <3>1, <3>2, <2>2, <1>2 DEF Entries
  <2>3. QED BY <2>1, <2>2
<1>5. entry' = [entry EXCEPT ![p] = e]
  <2>1. CASE entry[p] = NoEntryYet
    <3>1. entry[p].role = "none"
      BY <2>1 DEF NoEntryYet
    <3>2. entry' = [entry EXCEPT ![p] = [entry[p] EXCEPT !.role = entry[p].role]]
      BY <1>p, <2>1 DEF WriteEntryRole
    <3>3. [entry[p] EXCEPT !.role = entry[p].role] = entry[p]
      BY <2>1 DEF NoEntryYet
    <3>4. QED BY <3>2, <3>3, <2>1, <1>4
  <2>2. CASE entry[p] # NoEntryYet
    BY <1>p, <2>2, <1>4 DEF WriteEntryRole
  <2>3. QED BY <2>1, <2>2
<1>6. /\ entry' \in [Person -> Entries] /\ entry'[p] = e
      /\ \A q \in Person \ {p} : entry'[q] = entry[q]
  BY <1>2, <1>5 DEF MembersIInv, MembersTypeOK
<1>7. accounts' \in [Person -> Roles0] /\ profile' \in [Person -> Profiles]
  BY <1>3 DEF MembersIInv, MembersTypeOK
<1>8. p \notin muddled => Agree(p)'
  BY <1>1, <1>2, <1>3, <1>4, <1>6 DEF Half, Agree
<1>9. QED BY <1>p, <1>1, <1>2, <1>3, <1>4, <1>6, <1>7, <1>8, ClerkDone

LEMMA DeleteEntryKeeps == ASSUME MembersIInv, NEW c \in Clerk, DeleteEntry(c) PROVE MembersIInv'
<1>1. Busy(clerk[c]) /\ clerk[c].at = "remove"
  BY DEF DeleteEntry, Busy
<1>p. PICK p \in Person : p = clerk[c].who
  BY <1>1, UnderWay
<1>2. p \in Person /\ (serving /\ HasPassword => p # Bootstrap)
  BY <1>p, <1>1, UnderWay
<1>3. /\ ClerkGoes(c, Ready) /\ visitor' = visitor /\ serving' = serving /\ muddled' = muddled
      /\ accounts' = accounts /\ profile' = profile
  BY DEF DeleteEntry
<1>4. /\ entry' \in [Person -> Entries] /\ entry'[p] = NoEntryYet
      /\ \A q \in Person \ {p} : entry'[q] = entry[q]
  BY <1>p, <1>2 DEF DeleteEntry, MembersIInv, MembersTypeOK, Entries
<1>5. accounts' \in [Person -> Roles0] /\ profile' \in [Person -> Profiles]
  BY <1>3 DEF MembersIInv, MembersTypeOK
<1>6. Agree(p)'
  BY <1>4 DEF Agree
<1>7. QED BY <1>p, <1>1, <1>2, <1>3, <1>4, <1>5, <1>6, ClerkDone

-----------------------------------------------------------------------------
(* Signing in.                                                             *)

\* Settings rows stay, and keep to models GitHub's token is good for or the member chose.
Onward == /\ profile' \in [Person -> Profiles]
          /\ \A q \in Person : /\ profile[q] # "none" => profile'[q] # "none"
                               /\ profile[q] \in {"github_copilot", "ai_platform"} =>
                                      profile'[q] \in {"github_copilot", "ai_platform"}

LEMMA ProfilesStay == ASSUME MembersIInv, profile' = profile PROVE Onward
BY DEF MembersIInv, MembersTypeOK, Onward

\* No account, entry or request moves; at most settings do.
LEMMA QuietKeeps ==
    ASSUME MembersIInv, Onward, accounts' = accounts, entry' = entry, clerk' = clerk, visitor' = visitor,
           serving' = serving, muddled' = muddled
    PROVE  MembersIInv'
<1> USE DEF MembersIInv
<1>1. MembersTypeOK' /\ Down' /\ Protected'
  BY DEF MembersTypeOK, Onward, Down, Protected, EffectiveAdmin, Allowed, About
<1>2. RolesAgree'
  <2>1. \A p \in Person : Same(p)
    BY DEF Same
  <2>2. QED BY <2>1, NobodyConcerned
<1>3. Arrived'
  <2> SUFFICES ASSUME NEW v \in Visitor PROVE Come(v)'
    BY DEF Arrived
  <2>1. visitor[v].who \in Person /\ Come(v)
    BY DEF MembersTypeOK, Visits, Arrived
  <2>2. QED BY <2>1 DEF Come, Onward
<1>4. QED BY <1>1, <1>2, <1>3

\* A visitor moves, and no account or entry does.
LEMMA VisitorMoves ==
    ASSUME MembersIInv, NEW v \in Visitor, visitor[v].at # "create", NEW r \in Visits, VisitorGoes(v, r), Onward,
           accounts' = accounts, entry' = entry, clerk' = clerk, serving' = serving,
           muddled \subseteq muddled', muddled' \subseteq Person,
           serving \/ r.at \in {"ready", "in"},
           r.at = "create" /\ r.who \notin muddled' =>
               /\ Touched(r.who) = {} /\ accounts[r.who] = "none"
               /\ entry[r.who] # NoEntryYet => entry[r.who].role = r.role,
           r.at \in {"profile", "token", "in"} => accounts[r.who] # "none",
           r.at \in {"token", "in"} => profile'[r.who] # "none",
           r.at = "in" /\ r.by = "github" => profile'[r.who] \in {"github_copilot", "ai_platform"}
    PROVE  MembersIInv'
<1> USE DEF MembersIInv
<1>1. visitor'[v] = r /\ \A u \in Visitor \ {v} : visitor'[u] = visitor[u]
  BY DEF VisitorGoes, MembersTypeOK
<1>2. MembersTypeOK'
  <2>1. visitor' \in [Visitor -> Visits]
    BY DEF VisitorGoes, MembersTypeOK
  <2>2. QED BY <2>1 DEF MembersTypeOK, Onward
<1>3. Down'
  <2>1. ASSUME ~serving' PROVE (\A c \in Clerk : ~Busy(clerk[c])) /\ \A u \in Visitor : visitor[u].at \in {"ready", "in"}
    BY <2>1 DEF Down
  <2>2. ASSUME ~serving' PROVE r.at \in {"ready", "in"}
    BY <2>2
  <2>3. QED BY <1>1, <2>1, <2>2 DEF Down
<1>4. Protected'
  BY DEF Protected, EffectiveAdmin, Allowed, About
<1>5. RolesAgree'
  <2>1. ASSUME NEW q \in Person \ {r.who} PROVE Same(q)
    <3>1. ~Creates(v, q) /\ ~Creates(v, q)'
      BY <1>1 DEF Creates
    <3>2. QED BY <3>1, <1>1 DEF Same
  <2>2. ASSUME r.who \in Person \ muddled' PROVE RoleOK(r.who)'
    <3> PICK p \in Person : p = r.who
      BY <2>2
    <3>1. RoleOK(p)
      BY <2>2 DEF RolesAgree
    <3>2. CASE r.at # "create"
      <4>1. ~Creates(v, p) /\ ~Creates(v, p)'
        BY <1>1, <3>2 DEF Creates
      <4>2. Same(p)
        BY <4>1, <1>1 DEF Same
      <4>3. QED BY <4>2, <3>1, Unrelated
    <3>3. CASE r.at = "create"
      <4>1. Touched(p) = {} /\ accounts[p] = "none" /\ (entry[p] # NoEntryYet => entry[p].role = r.role)
        BY <2>2, <3>3
      <4>2. (\A c \in Clerk : ~About(c, p)) /\ \A u \in Visitor : ~Creates(u, p)
        BY <4>1, TouchedMeans
      <4>3. (\A c \in Clerk : ~About(c, p)') /\ \A u \in Visitor : Creates(u, p)' => u = v
        BY <4>2, <1>1 DEF About, Creates
      <4>4. AboutToCreate(v, p)' /\ Creates(v, p)'
        BY <4>1, <1>1, <3>3 DEF AboutToCreate, Creates
      <4>5. QED BY <4>3, <4>4 DEF RoleOK, Lone
    <3>4. QED BY <3>2, <3>3
  <2>3. QED BY <2>1, <2>2, OneAtMost
<1>6. Arrived'
  <2> SUFFICES ASSUME NEW u \in Visitor PROVE Come(u)'
    BY DEF Arrived
  <2>1. CASE u = v
    BY <2>1, <1>1 DEF Come
  <2>2. CASE u # v
    <3>1. visitor[u].who \in Person /\ Come(u) /\ visitor'[u] = visitor[u]
      BY <1>1, <2>2 DEF MembersTypeOK, Visits, Arrived
    <3>2. QED BY <3>1 DEF Come, Onward
  <2>3. QED BY <2>1, <2>2
<1>7. QED BY <1>2, <1>3, <1>4, <1>5, <1>6

\* The same, of a visitor who is not signed in by it and creates nothing yet.
LEMMA VisitorOnTheWay ==
    ASSUME MembersIInv, NEW v \in Visitor, visitor[v].at # "create", NEW r \in Visits, VisitorGoes(v, r),
           r.at \in {"ready", "asking", "look"}, serving \/ r.at = "ready",
           UNCHANGED <<accounts, entry, profile, clerk, serving, muddled>>
    PROVE  MembersIInv'
<1>1. Onward
  BY ProfilesStay
<1>2. muddled \subseteq muddled' /\ muddled' \subseteq Person
  BY DEF MembersIInv, MembersTypeOK
<1>3. QED BY <1>1, <1>2, VisitorMoves

\* What is known of a visitor.
LEMMA VisitorTypes ==
    ASSUME MembersIInv, NEW v \in Visitor
    PROVE  /\ visitor[v] \in Visits /\ visitor[v].who \in Person /\ visitor[v].role \in MemberRoles
           /\ visitor[v].at \notin {"ready", "in"} => serving
           /\ Come(v)
BY DEF MembersIInv, MembersTypeOK, Visits, Down, Arrived

LEMMA CheckDeviceKeeps == ASSUME MembersIInv, NEW v \in Visitor, CheckDevice(v) PROVE MembersIInv'
<1>1. /\ accounts' = accounts /\ entry' = entry /\ profile' = profile /\ clerk' = clerk
      /\ serving' = serving /\ muddled' = muddled /\ serving /\ visitor[v].at # "create"
  BY DEF CheckDevice, Busy
<1>2. CASE visitor' = visitor
  BY <1>1, <1>2, QuietKeeps, ProfilesStay
<1>3. CASE visitor' # visitor
  <2>1. PICK r : r = [Ready EXCEPT !.at = "asking", !.by = "github"]
    OBVIOUS
  <2>2. VisitorGoes(v, r)
    BY <1>3, <2>1 DEF CheckDevice
  <2>3. r \in Visits /\ r.at = "asking"
    BY <2>1, ReadyTypes DEF Visits, VisitorStages
  <2>4. QED BY <1>1, <2>2, <2>3, VisitorOnTheWay
<1>4. QED BY <1>2, <1>3

LEMMA GitHubAnswersKeeps ==
    ASSUME MembersIInv, NEW v \in Visitor, NEW p \in Person, GitHubAnswers(v, p) PROVE MembersIInv'
<1>1. /\ accounts' = accounts /\ entry' = entry /\ profile' = profile /\ clerk' = clerk
      /\ serving' = serving /\ muddled' = muddled /\ visitor[v].at = "asking"
  BY DEF GitHubAnswers
<1>2. serving
  BY <1>1, VisitorTypes
<1>3. PICK r \in Visits : VisitorGoes(v, r) /\ r.at \in {"ready", "look"}
  <2>1. CASE device.github = "approved"
    <3>1. PICK r : r = [visitor[v] EXCEPT !.at = "look", !.who = p]
      OBVIOUS
    <3>2. r \in Visits /\ r.at = "look"
      BY <3>1, VisitorTypes DEF Visits, VisitorStages
    <3>3. VisitorGoes(v, r)
      BY <2>1, <3>1 DEF GitHubAnswers
    <3>4. QED BY <3>2, <3>3
  <2>2. CASE device.github # "approved"
    <3>1. VisitorGoes(v, Ready)
      BY <2>2 DEF GitHubAnswers
    <3>2. QED BY <3>1, ReadyTypes
  <2>3. QED BY <2>1, <2>2
<1>4. QED BY <1>1, <1>2, <1>3, VisitorOnTheWay

LEMMA ArriveBySSOKeeps ==
    ASSUME MembersIInv, NEW v \in Visitor, NEW p \in Person, ArriveBySSO(v, p) PROVE MembersIInv'
<1>1. /\ accounts' = accounts /\ entry' = entry /\ profile' = profile /\ clerk' = clerk
      /\ serving' = serving /\ muddled' = muddled /\ serving /\ visitor[v].at # "create"
  BY DEF ArriveBySSO, Busy, Deed
<1>2. PICK r : r = [Ready EXCEPT !.at = "look", !.who = p]
  OBVIOUS
<1>3. VisitorGoes(v, r)
  BY <1>2 DEF ArriveBySSO
<1>4. r \in Visits /\ r.at = "look"
  BY <1>2, ReadyTypes DEF Visits, VisitorStages
<1>5. QED BY <1>1, <1>3, <1>4, VisitorOnTheWay

LEMMA SignOutKeeps == ASSUME MembersIInv, NEW v \in Visitor, SignOut(v) PROVE MembersIInv'
<1>1. /\ accounts' = accounts /\ entry' = entry /\ profile' = profile /\ clerk' = clerk
      /\ serving' = serving /\ muddled' = muddled /\ visitor[v].at # "create" /\ VisitorGoes(v, Ready)
  BY DEF SignOut, HasSession
<1>2. Ready \in Visits /\ Ready.at = "ready"
  BY ReadyTypes
<1>3. QED BY <1>1, <1>2, VisitorOnTheWay

LEMMA LookUpKeeps == ASSUME MembersIInv, NEW v \in Visitor, LookUp(v) PROVE MembersIInv'
<1>1. /\ accounts' = accounts /\ entry' = entry /\ profile' = profile /\ clerk' = clerk
      /\ serving' = serving /\ visitor[v].at = "look"
  BY DEF LookUp
<1>2. PICK p \in Person : p = visitor[v].who
  BY VisitorTypes
<1>3. serving
  BY <1>1, VisitorTypes
<1>4. PICK r : r = [visitor[v] EXCEPT !.at = IF accounts[p] = "none" THEN "create" ELSE "profile",
                                      !.role = IF entry[p].role \in MemberRoles THEN entry[p].role ELSE "user"]
  OBVIOUS
<1>5. VisitorGoes(v, r) /\ muddled' = IF accounts[p] = "none" /\ Touched(p) # {} THEN muddled \cup {p} ELSE muddled
  BY <1>2, <1>4 DEF LookUp
<1>6. /\ r \in Visits /\ r.who = p
      /\ r.at = IF accounts[p] = "none" THEN "create" ELSE "profile"
      /\ r.role = IF entry[p].role \in MemberRoles THEN entry[p].role ELSE "user"
  BY <1>2, <1>4, VisitorTypes DEF Visits, VisitorStages, MemberRoles
<1>7. entry[p] # NoEntryYet => entry[p].role = r.role
  <2>1. entry[p] \in Entries
    BY DEF MembersIInv, MembersTypeOK
  <2>2. QED BY <1>6, <2>1, EntryRoles
<1>8. muddled \subseteq muddled' /\ muddled' \subseteq Person
  BY <1>5 DEF MembersIInv, MembersTypeOK
<1>9. Onward
  BY <1>1, ProfilesStay
<1>10. r.at = "create" /\ r.who \notin muddled' => Touched(r.who) = {} /\ accounts[r.who] = "none"
  BY <1>5, <1>6
<1>11. QED BY <1>1, <1>3, <1>5, <1>6, <1>7, <1>8, <1>9, <1>10, VisitorMoves

LEMMA EnsureProfileKeeps == ASSUME MembersIInv, NEW v \in Visitor, EnsureProfile(v) PROVE MembersIInv'
<1>1. /\ accounts' = accounts /\ entry' = entry /\ clerk' = clerk
      /\ serving' = serving /\ muddled' = muddled /\ visitor[v].at = "profile"
  BY DEF EnsureProfile
<1>2. PICK p \in Person : p = visitor[v].who
  BY VisitorTypes
<1>3. serving /\ accounts[p] # "none"
  BY <1>1, <1>2, VisitorTypes DEF Come
<1>4. PICK r : r = [visitor[v] EXCEPT !.at = IF visitor[v].by = "github" THEN "token" ELSE "in"]
  OBVIOUS
<1>5. VisitorGoes(v, r)
  BY <1>1, <1>4 DEF EnsureProfile
<1>6. /\ r \in Visits /\ r.who = p /\ r.by = visitor[v].by
      /\ r.at = IF visitor[v].by = "github" THEN "token" ELSE "in"
  BY <1>2, <1>4, VisitorTypes DEF Visits, VisitorStages
<1>7. \A q \in Person : profile'[q] = IF q = p /\ profile[p] = "none" THEN "seeded" ELSE profile[q]
  BY <1>2 DEF EnsureProfile, MembersIInv, MembersTypeOK
<1>8. Onward
  <2>1. profile' \in [Person -> Profiles]
    BY <1>2 DEF EnsureProfile, MembersIInv, MembersTypeOK, Profiles
  <2>2. QED BY <1>7, <2>1 DEF Onward
<1>9. profile'[p] # "none"
  BY <1>7
<1>10. muddled \subseteq muddled' /\ muddled' \subseteq Person
  BY <1>1 DEF MembersIInv, MembersTypeOK
<1>11. QED BY <1>1, <1>3, <1>5, <1>6, <1>8, <1>9, <1>10, VisitorMoves

LEMMA SyncTokenKeeps == ASSUME MembersIInv, NEW v \in Visitor, SyncToken(v) PROVE MembersIInv'
<1>1. /\ accounts' = accounts /\ entry' = entry /\ clerk' = clerk
      /\ serving' = serving /\ muddled' = muddled /\ visitor[v].at = "token"
  BY DEF SyncToken
<1>2. PICK p \in Person : p = visitor[v].who
  BY VisitorTypes
<1>3. serving /\ accounts[p] # "none" /\ profile[p] # "none"
  BY <1>1, <1>2, VisitorTypes DEF Come
<1>4. PICK r : r = [visitor[v] EXCEPT !.at = "in"]
  OBVIOUS
<1>5. VisitorGoes(v, r)
  BY <1>4 DEF SyncToken
<1>6. r \in Visits /\ r.who = p /\ r.at = "in"
  BY <1>2, <1>4, VisitorTypes DEF Visits, VisitorStages
<1>7. /\ profile' \in [Person -> Profiles] /\ profile'[p] \in {"github_copilot", "ai_platform"}
      /\ \A q \in Person \ {p} : profile'[q] = profile[q]
  BY <1>2 DEF SyncToken, Synced, MembersIInv, MembersTypeOK, Profiles
<1>8. Onward /\ profile'[p] # "none"
  BY <1>7 DEF Onward
<1>9. muddled \subseteq muddled' /\ muddled' \subseteq Person
  BY <1>1 DEF MembersIInv, MembersTypeOK
<1>10. QED BY <1>1, <1>3, <1>5, <1>6, <1>7, <1>8, <1>9, VisitorMoves

LEMMA ChooseProviderKeeps == ASSUME MembersIInv, NEW p \in Person, ChooseProvider(p) PROVE MembersIInv'
<1>1. Onward
  BY DEF ChooseProvider, Onward, MembersIInv, MembersTypeOK, Profiles
<1>2. QED BY <1>1, QuietKeeps DEF ChooseProvider

\* The account is made by the one who found none, or has been made meanwhile.
LEMMA CreateAccountKeeps == ASSUME MembersIInv, NEW v \in Visitor, CreateAccount(v) PROVE MembersIInv'
<1> USE DEF MembersIInv
<1>1. /\ entry' = entry /\ profile' = profile /\ clerk' = clerk /\ serving' = serving /\ muddled' = muddled
      /\ visitor[v].at = "create"
  BY DEF CreateAccount
<1>2. PICK p \in Person : p = visitor[v].who
  BY VisitorTypes
<1>3. serving /\ visitor[v].role \in MemberRoles
  BY <1>1, VisitorTypes
<1>4. PICK r : r = [visitor[v] EXCEPT !.at = "profile"]
  OBVIOUS
<1>5. r \in Visits /\ r.who = p /\ r.at = "profile"
  BY <1>2, <1>4, VisitorTypes DEF Visits, VisitorStages
<1>6. /\ visitor' \in [Visitor -> Visits] /\ visitor'[v] = r
      /\ \A u \in Visitor \ {v} : visitor'[u] = visitor[u]
  BY <1>4, <1>5 DEF CreateAccount, VisitorGoes, MembersTypeOK
<1>7. /\ accounts' \in [Person -> Roles0]
      /\ accounts'[p] = IF accounts[p] = "none" THEN visitor[v].role ELSE accounts[p]
      /\ \A q \in Person \ {p} : accounts'[q] = accounts[q]
  BY <1>2, <1>3 DEF CreateAccount, MembersTypeOK, Roles0
<1>8. \A q \in Person : accounts[q] # "none" => accounts'[q] = accounts[q]
  BY <1>7
<1>9. MembersTypeOK' /\ Down'
  BY <1>1, <1>3, <1>6, <1>7 DEF MembersTypeOK, Down
<1>10. Protected'
  <2>1. accounts[Bootstrap] = "admin" => accounts'[Bootstrap] = "admin"
    BY <1>8, MembersAssumption
  <2>2. QED BY <1>1, <2>1 DEF Protected, EffectiveAdmin, Allowed, About
<1>11. RolesAgree'
  <2>1. ASSUME NEW q \in Person \ {p} PROVE Same(q)
    <3>1. ~Creates(v, q) /\ ~Creates(v, q)'
      BY <1>2, <1>5, <1>6 DEF Creates
    <3>2. QED BY <3>1, <1>1, <1>6, <1>7 DEF Same
  <2>2. ASSUME p \in Person \ muddled' PROVE RoleOK(p)'
    <3>1. RoleOK(p) /\ Creates(v, p)
      BY <1>1, <1>2, <2>2 DEF RolesAgree, Creates
    <3>2. /\ \A c \in Clerk : ~About(c, p)
          /\ \A u \in Visitor \ {v} : ~Creates(u, p)
          /\ AboutToCreate(v, p)
      BY <3>1 DEF RoleOK, Lone
    <3>3. (\A c \in Clerk : ~About(c, p)') /\ \A u \in Visitor : ~Creates(u, p)'
      BY <3>2, <1>1, <1>5, <1>6 DEF About, Creates
    <3>4. Agree(p)'
      BY <3>2, <1>1, <1>7 DEF AboutToCreate, Agree
    <3>5. QED BY <3>3, <3>4 DEF RoleOK, Lone
  <2>3. QED BY <1>1, <2>1, <2>2, OneAtMost
<1>12. Arrived'
  <2> SUFFICES ASSUME NEW u \in Visitor PROVE Come(u)'
    BY DEF Arrived
  <2>1. CASE u = v
    <3>1. accounts'[p] # "none"
      BY <1>3, <1>7 DEF MemberRoles
    <3>2. QED BY <2>1, <3>1, <1>5, <1>6 DEF Come
  <2>2. CASE u # v
    <3>1. visitor[u].who \in Person /\ Come(u) /\ visitor'[u] = visitor[u]
      BY <1>6, <2>2 DEF MembersTypeOK, Visits, Arrived
    <3>2. QED BY <3>1, <1>1, <1>8 DEF Come
  <2>3. QED BY <2>1, <2>2
<1>13. QED BY <1>9, <1>10, <1>11, <1>12

-----------------------------------------------------------------------------
LEMMA MembersNextIInv == MembersIInv /\ [MembersNext]_memberVars => MembersIInv'
<1> SUFFICES ASSUME MembersIInv, [MembersNext]_memberVars PROVE MembersIInv'
  OBVIOUS
<1>1. CASE StartUp
  BY <1>1, StartUpKeeps
<1>2. CASE ShutDown
  BY <1>2, ShutDownKeeps
<1>3. CASE StartDevice \/ LaterOn \/ \E how \in {"approved", "declined"} : DecideAtGitHub(how)
  <2>1. /\ accounts' = accounts /\ entry' = entry /\ profile' = profile /\ clerk' = clerk
        /\ visitor' = visitor /\ serving' = serving /\ muddled' = muddled
    BY <1>3 DEF StartDevice, LaterOn, DecideAtGitHub
  <2>2. QED BY <2>1, QuietKeeps, ProfilesStay
<1>4. ASSUME NEW c \in Clerk, ClerkStep(c) PROVE MembersIInv'
  BY <1>4, WriteEntryKeeps, WriteAccountKeeps, WriteNewAccountKeeps, WriteRoleKeeps, WriteEntryRoleKeeps,
     DeleteEntryKeeps DEF ClerkStep
<1>5. ASSUME NEW c \in Clerk, NEW admin \in Person, NEW p \in Person, RemoveAccess(c, admin, p) PROVE MembersIInv'
  BY <1>5, RemoveAccessKeeps
<1>6. ASSUME NEW c \in Clerk, NEW admin \in Person, NEW p \in Person, NEW role \in MemberRoles,
             Allow(c, admin, p, role) \/ CreateUser(c, admin, p, role) \/ ChangeRole(c, admin, p, role)
      PROVE  MembersIInv'
  BY <1>6, AllowKeeps, CreateUserKeeps, ChangeRoleKeeps
<1>7. ASSUME NEW v \in Visitor, VisitorStep(v) PROVE MembersIInv'
  BY <1>7, CheckDeviceKeeps, LookUpKeeps, CreateAccountKeeps, EnsureProfileKeeps, SyncTokenKeeps, SignOutKeeps
     DEF VisitorStep
<1>8. ASSUME NEW v \in Visitor, NEW p \in Person, ArriveBySSO(v, p) \/ GitHubAnswers(v, p) PROVE MembersIInv'
  BY <1>8, ArriveBySSOKeeps, GitHubAnswersKeeps
<1>9. ASSUME NEW p \in Person, ChooseProvider(p) PROVE MembersIInv'
  BY <1>9, ChooseProviderKeeps
<1>10. CASE UNCHANGED memberVars
  <2>1. /\ accounts' = accounts /\ entry' = entry /\ profile' = profile /\ clerk' = clerk
        /\ visitor' = visitor /\ serving' = serving /\ muddled' = muddled
    BY <1>10 DEF memberVars
  <2>2. QED BY <2>1, QuietKeeps, ProfilesStay
<1>11. QED BY <1>1, <1>2, <1>3, <1>4, <1>5, <1>6, <1>7, <1>8, <1>9, <1>10 DEF MembersNext

LEMMA MembersInductive == MembersIInv => MembersHold
<1> SUFFICES ASSUME MembersIInv PROVE MembersHold
  OBVIOUS
<1>1. serving /\ HasPassword => EffectiveAdmin(Bootstrap) /\ Overview.admins >= 1
  <2> SUFFICES ASSUME serving, HasPassword PROVE EffectiveAdmin(Bootstrap) /\ Overview.admins >= 1
    OBVIOUS
  <2>1. EffectiveAdmin(Bootstrap)
    BY DEF MembersIInv, Protected
  <2>2. Bootstrap \in EffectiveAdmins /\ EffectiveAdmins \subseteq Person
    BY <2>1, MembersAssumption DEF EffectiveAdmins
  <2>3. IsFiniteSet(EffectiveAdmins)
    BY <2>2, MembersAssumption, FS_Subset
  <2>4. Cardinality(EffectiveAdmins) \in Nat /\ Cardinality(EffectiveAdmins) # 0
    BY <2>2, <2>3, FS_CardinalityType, FS_EmptySet
  <2>5. Overview.admins = Cardinality(EffectiveAdmins)
    BY DEF Overview
  <2>6. QED BY <2>1, <2>4, <2>5
<1>2. ASSUME NEW p \in Person \ muddled, accounts[p] # "none", entry[p] # NoEntryYet, Touched(p) = {}
      PROVE  accounts[p] = entry[p].role
  <2>1. RoleOK(p)
    BY DEF MembersIInv, RolesAgree
  <2>2. Agree(p)
    BY <2>1, <1>2, TouchedMeans DEF RoleOK
  <2>3. QED BY <2>2, <1>2 DEF Agree
<1>3. ASSUME NEW v \in Visitor, HasSession(v)
      PROVE  /\ SignedIn(v) /\ profile[visitor[v].who] # "none"
             /\ visitor[v].by = "github" => profile[visitor[v].who] \in {"github_copilot", "ai_platform"}
  BY <1>3 DEF MembersIInv, Arrived, Come, HasSession, SignedIn
<1>4. QED BY <1>1, <1>2, <1>3 DEF MembersHold

\* Every reachable state is one of accounts, entries, settings rows and requests of their types.
THEOREM MembersTyped == MembersSpec => []MembersTypeOK
<1>1. MembersIInv => MembersTypeOK
  BY DEF MembersIInv
<1>2. QED BY MembersInitIInv, MembersNextIInv, <1>1, PTL DEF MembersSpec

\* Whatever administrators, members signing in and restarts do beside each other: the
\* bootstrap administrator, where the deployment sets a password for it, can administer the
\* Portal (access_control_service); roles of accounts and entries agree unless two requests
\* about the person overlapped, one broke off (api/users) or start-up listed a removed
\* administrator again; and whoever is signed in has an account and settings
\* (external_login_service).
THEOREM MembersAreKept == MembersSpec => []MembersHold
<1>1. QED BY MembersInitIInv, MembersNextIInv, MembersInductive, PTL DEF MembersSpec

-----------------------------------------------------------------------------
(* The model catalog.  The lock is given up between taking a list over     *)
(* and registering it: that nobody else took one over meanwhile is what    *)
(* ~overlapped says, and then whoever registers still holds the list       *)
(* that is in memory.                                                      *)

IsRegistering(r) == at[r] \in Registering

Agreed ==
    ~overlapped =>
        /\ \A q, r \in Request : IsRegistering(q) /\ IsRegistering(r) => q = r
        /\ \A r \in Request : IsRegistering(r) => memory = mine[r]
        /\ (\A r \in Request : ~IsRegistering(r)) => registered = memory.list

CatIInv == CatTypeOK /\ Agreed

-----------------------------------------------------------------------------
\* A stamp given from here on is a stamp of a copy.
LEMMA NextStamp ==
    ASSUME CatTypeOK, stamp < MaxStamp, NEW list \in Reported
    PROVE  [list |-> list, stamp |-> stamp + 1] \in Copies /\ stamp + 1 \in 0..MaxStamp
BY CatalogAssumption DEF CatTypeOK, Copies

\* The list of a copy can be registered.
LEMMA CopyLists ==
    ASSUME NEW c \in Copies
    PROVE  c.list \in {NoCatalog} \cup Reported
BY DEF Copies, None

\* A place a request goes to is a place, and the other requests stay where they are.
LEMMA Going ==
    ASSUME CatTypeOK, NEW r \in Request, NEW p \in Places, Goes(r, p)
    PROVE  /\ at' \in [Request -> Places] /\ at'[r] = p
           /\ \A q \in Request \ {r} : at'[q] = at[q]
<1>1. at' = [at EXCEPT ![r] = p] /\ at \in [Request -> Places]
  BY DEF CatTypeOK, Goes
<1>2. QED BY <1>1

LEMMA ReadPlace == ASSUME NEW r \in Request PROVE Read(r) \in Places /\ Read(r) \notin Registering
BY DEF Read, Places, Registering

LEMMA CatInitIInv == CatInit => CatIInv
<1> SUFFICES ASSUME CatInit PROVE CatIInv
  OBVIOUS
<1>1. None \in Copies /\ 1 \in 1..MaxStamp
  BY CatalogAssumption DEF Copies
<1>2. stored \in Copies
  BY <1>1 DEF CatInit, Copies
<1>3. CatTypeOK
  <2>1. memory \in Copies /\ registered \in {NoCatalog} \cup Reported
    BY <1>1 DEF CatInit
  <2>2. at \in [Request -> Places] /\ mine \in [Request -> Copies]
    BY <1>1 DEF CatInit, Places
  <2>3. fresh \in BOOLEAN /\ checked \in BOOLEAN /\ failed \in BOOLEAN /\ overlapped \in BOOLEAN
    BY DEF CatInit
  <2>4. 1 \in 0..MaxStamp
    BY CatalogAssumption
  <2>5. stamp \in 0..MaxStamp
    BY <2>4 DEF CatInit
  <2>6. QED BY <1>2, <2>1, <2>2, <2>3, <2>5 DEF CatTypeOK
<1>4. \A r \in Request : ~IsRegistering(r)
  BY DEF CatInit, IsRegistering, Registering
<1>5. registered = memory.list
  BY DEF CatInit, None
<1>6. QED BY <1>3, <1>4, <1>5 DEF CatIInv, Agreed

\* Whoever goes somewhere else than to register, and was not registering, changes nothing.
LEMMA Elsewhere ==
    ASSUME CatIInv, NEW r \in Request, NEW p \in Places, Goes(r, p),
           ~IsRegistering(r), p \notin Registering,
           UNCHANGED <<memory, registered, overlapped>>,
           \A q \in Request \ {r} : mine'[q] = mine[q]
    PROVE  Agreed'
<1>1. CatTypeOK /\ Agreed
  BY DEF CatIInv
<1>2. at'[r] = p /\ \A q \in Request \ {r} : at'[q] = at[q]
  BY <1>1, Going
<1>3. \A q \in Request : IsRegistering(q)' = IsRegistering(q)
  BY <1>2 DEF IsRegistering
<1>4. \A q \in Request : IsRegistering(q)' => q # r /\ mine'[q] = mine[q]
  BY <1>2 DEF IsRegistering
<1>5. QED BY <1>1, <1>3, <1>4 DEF Agreed

\* A copy in the hand of a request that takes it over, alone.
LEMMA TakesOver ==
    ASSUME CatIInv, NEW r \in Request, NEW p \in Registering, Goes(r, p),
           memory' = mine[r], UNCHANGED mine,
           overlapped' = (overlapped \/ \E q \in Request \ {r} : at[q] \in Registering)
    PROVE  Agreed'
<1>1. CatTypeOK
  BY DEF CatIInv
<1>2. at'[r] = p /\ \A q \in Request \ {r} : at'[q] = at[q]
  BY <1>1, Going DEF Registering, Places
<1>3. ASSUME ~overlapped' PROVE \A q \in Request : IsRegistering(q)' => q = r
  BY <1>2, <1>3 DEF IsRegistering
<1>4. IsRegistering(r)'
  BY <1>2 DEF IsRegistering
<1>5. QED BY <1>3, <1>4 DEF Agreed

LEMMA RequestStepKeeps ==
    ASSUME CatIInv, NEW r \in Request, RequestStep(r)
    PROVE  CatIInv'
<1>0. CatTypeOK /\ Agreed
  BY DEF CatIInv
<1>1. mine[r] \in Copies /\ mine[r].list \in {NoCatalog} \cup Reported
  BY <1>0, CopyLists DEF CatTypeOK
<1>2. Read(r) \in Places /\ Read(r) \notin Registering
  BY ReadPlace
<1>3. CASE Start(r)
  <2>1. PICK p \in Places \ Registering : Goes(r, p)
    BY <1>2, <1>3 DEF Start, Places, Registering
  <2>2. ~IsRegistering(r) /\ UNCHANGED <<memory, registered, stored, fresh, checked, failed, mine, stamp, overlapped>>
    BY <1>3 DEF Start, IsRegistering, Registering
  <2>3. CatTypeOK'
    BY <1>0, <2>1, <2>2, Going DEF CatTypeOK
  <2>4. Agreed'
    BY <2>1, <2>2, Elsewhere
  <2>5. QED BY <2>3, <2>4 DEF CatIInv
<1>4. CASE Load(r)
  <2>1. /\ Goes(r, "adopt") /\ "adopt" \in Places /\ "adopt" \notin Registering /\ ~IsRegistering(r)
        /\ mine' = [mine EXCEPT ![r] = stored]
        /\ UNCHANGED <<memory, registered, stored, fresh, checked, failed, stamp, overlapped>>
    BY <1>4 DEF Load, IsRegistering, Registering, Places
  <2>2. mine' \in [Request -> Copies] /\ \A q \in Request \ {r} : mine'[q] = mine[q]
    BY <1>0, <2>1 DEF CatTypeOK
  <2>3. CatTypeOK'
    BY <1>0, <2>1, <2>2, Going DEF CatTypeOK
  <2>4. Agreed'
    BY <2>1, <2>2, Elsewhere
  <2>5. QED BY <2>3, <2>4 DEF CatIInv
<1>5. CASE Adopt(r) /\ Adopts(r)
  <2>1. /\ Goes(r, "adopted") /\ "adopted" \in Registering /\ "adopted" \in Places
        /\ memory' = mine[r] /\ fresh' \in BOOLEAN /\ checked' = TRUE
        /\ overlapped' = (overlapped \/ \E q \in Request \ {r} : at[q] \in Registering)
        /\ UNCHANGED <<registered, stored, failed, mine, stamp>>
    BY <1>5 DEF Adopt, Registering, Places
  <2>2. CatTypeOK'
    BY <1>0, <1>1, <2>1, Going DEF CatTypeOK
  <2>3. Agreed'
    BY <2>1, TakesOver
  <2>4. QED BY <2>2, <2>3 DEF CatIInv
<1>6. CASE Adopt(r) /\ ~Adopts(r)
  <2>1. /\ Goes(r, Read(r)) /\ ~IsRegistering(r)
        /\ memory' = memory /\ fresh' = fresh /\ checked' = TRUE
        /\ UNCHANGED <<registered, stored, failed, mine, stamp>>
    BY <1>6 DEF Adopt, IsRegistering, Registering
  <2>2. overlapped' = overlapped
    BY <1>0, <1>6 DEF Adopt, CatTypeOK
  <2>3. CatTypeOK'
    BY <1>0, <1>2, <2>1, <2>2, Going DEF CatTypeOK
  <2>4. Agreed'
    BY <1>2, <2>1, <2>2, Elsewhere
  <2>5. QED BY <2>3, <2>4 DEF CatIInv
<1>7. CASE Register(r)
  <2>1. PICK p \in Places \ Registering : Goes(r, p)
    BY <1>2, <1>7 DEF Register, Places, Registering
  <2>2. /\ IsRegistering(r) /\ registered' = mine[r].list
        /\ UNCHANGED <<memory, stored, fresh, checked, failed, mine, stamp, overlapped>>
    BY <1>7 DEF Register, IsRegistering
  <2>3. CatTypeOK'
    BY <1>0, <1>1, <2>1, <2>2, Going DEF CatTypeOK
  <2>4. at'[r] = p /\ \A q \in Request \ {r} : at'[q] = at[q]
    BY <1>0, <2>1, Going
  <2>5. ASSUME ~overlapped' PROVE registered' = memory'.list /\ \A q \in Request : ~IsRegistering(q)'
    BY <1>0, <2>1, <2>2, <2>4, <2>5 DEF Agreed, IsRegistering
  <2>6. Agreed'
    BY <2>5 DEF Agreed
  <2>7. QED BY <2>3, <2>6 DEF CatIInv
<1>8. CASE Store(r)
  <2>1. /\ Goes(r, "stored") /\ "stored" \in Registering /\ "stored" \in Places
        /\ memory' = mine[r] /\ fresh' = TRUE /\ failed' = FALSE /\ checked' = TRUE
        /\ overlapped' = (overlapped \/ \E q \in Request \ {r} : at[q] \in Registering)
        /\ UNCHANGED <<registered, stored, mine, stamp>>
    BY <1>8 DEF Store, Registering, Places
  <2>2. CatTypeOK'
    BY <1>0, <1>1, <2>1, Going DEF CatTypeOK
  <2>3. Agreed'
    BY <2>1, TakesOver
  <2>4. QED BY <2>2, <2>3 DEF CatIInv
<1>9. CASE Persist(r)
  <2>1. /\ Goes(r, "idle") /\ "idle" \in Places /\ "idle" \notin Registering /\ ~IsRegistering(r)
        /\ stored' \in {mine[r], stored}
        /\ UNCHANGED <<memory, registered, fresh, checked, failed, mine, stamp, overlapped>>
    BY <1>9 DEF Persist, IsRegistering, Registering, Places
  <2>2. CatTypeOK'
    BY <1>0, <1>1, <2>1, Going DEF CatTypeOK
  <2>3. Agreed'
    BY <2>1, Elsewhere
  <2>4. QED BY <2>2, <2>3 DEF CatIInv
<1>10. QED BY <1>3, <1>4, <1>5, <1>6, <1>7, <1>8, <1>9 DEF RequestStep

\* What a request on the event loop does of its own: it goes on without registering.
LEMMA AskerKeeps ==
    ASSUME CatIInv, NEW r \in Asker, Decide(r) \/ Fails(r) \/ \E c \in Reported : Project(r, c)
    PROVE  CatIInv'
<1>0. CatTypeOK /\ Agreed /\ r \in Request
  BY DEF CatIInv, Request
<1>1. CASE Decide(r)
  <2>1. PICK p \in Places \ Registering : Goes(r, p)
    BY <1>1 DEF Decide, Places, Registering
  <2>2. ~IsRegistering(r) /\ UNCHANGED <<memory, registered, stored, fresh, checked, failed, mine, stamp, overlapped>>
    BY <1>1 DEF Decide, IsRegistering, Registering
  <2>3. CatTypeOK'
    BY <1>0, <2>1, <2>2, Going DEF CatTypeOK
  <2>4. Agreed'
    BY <1>0, <2>1, <2>2, Elsewhere
  <2>5. QED BY <2>3, <2>4 DEF CatIInv
<1>2. CASE Fails(r)
  <2>1. /\ Goes(r, "idle") /\ "idle" \in Places /\ "idle" \notin Registering /\ ~IsRegistering(r)
        /\ failed' = TRUE
        /\ UNCHANGED <<memory, registered, stored, fresh, checked, mine, stamp, overlapped>>
    BY <1>2 DEF Fails, IsRegistering, Registering, Places
  <2>2. CatTypeOK'
    BY <1>0, <2>1, Going DEF CatTypeOK
  <2>3. Agreed'
    BY <1>0, <2>1, Elsewhere
  <2>4. QED BY <2>2, <2>3 DEF CatIInv
<1>3. ASSUME NEW c \in Reported, Project(r, c) PROVE CatIInv'
  <2>1. /\ Goes(r, "answered") /\ "answered" \in Places /\ "answered" \notin Registering /\ ~IsRegistering(r)
        /\ stamp < MaxStamp /\ stamp' = stamp + 1
        /\ mine' = [mine EXCEPT ![r] = [list |-> c, stamp |-> stamp + 1]]
        /\ UNCHANGED <<memory, registered, stored, fresh, checked, failed, overlapped>>
    BY <1>3 DEF Project, IsRegistering, Registering, Places
  <2>2. [list |-> c, stamp |-> stamp + 1] \in Copies /\ stamp' \in 0..MaxStamp
    BY <1>0, <2>1, NextStamp
  <2>3. mine' \in [Request -> Copies] /\ \A q \in Request \ {r} : mine'[q] = mine[q]
    BY <1>0, <2>1, <2>2 DEF CatTypeOK
  <2>4. CatTypeOK'
    BY <1>0, <2>1, <2>2, <2>3, Going DEF CatTypeOK
  <2>5. Agreed'
    BY <1>0, <2>1, <2>3, Elsewhere
  <2>6. QED BY <2>4, <2>5 DEF CatIInv
<1>4. QED BY <1>1, <1>2, <1>3

\* Steps that move no request and take nothing over.
LEMMA StandingKeeps ==
    ASSUME CatIInv, UNCHANGED <<memory, registered, at, mine, overlapped>>
    PROVE  Agreed'
<1>1. \A r \in Request : IsRegistering(r)' = IsRegistering(r)
  BY DEF IsRegistering
<1>2. QED BY <1>1 DEF CatIInv, Agreed

LEMMA CatNextKeeps == CatIInv /\ [CatNext]_catVars => CatIInv'
<1> SUFFICES ASSUME CatIInv, [CatNext]_catVars PROVE CatIInv'
  OBVIOUS
<1>0. CatTypeOK
  BY DEF CatIInv
<1>1. ASSUME NEW c \in Reported, StoredElsewhere(c) PROVE CatIInv'
  <2>1. /\ stamp < MaxStamp /\ stamp' = stamp + 1 /\ stored' = [list |-> c, stamp |-> stamp + 1]
        /\ UNCHANGED <<memory, registered, fresh, checked, failed, at, mine, overlapped>>
    BY <1>1 DEF StoredElsewhere
  <2>2. stored' \in Copies /\ stamp' \in 0..MaxStamp
    BY <1>0, <2>1, NextStamp
  <2>3. CatTypeOK'
    BY <1>0, <2>1, <2>2 DEF CatTypeOK
  <2>4. QED BY <2>1, <2>3, StandingKeeps DEF CatIInv
<1>2. CASE TimePasses
  <2>1. UNCHANGED <<memory, registered, stored, at, mine, stamp, overlapped>>
    BY <1>2 DEF TimePasses
  <2>2. fresh' \in BOOLEAN /\ checked' \in BOOLEAN /\ failed' \in BOOLEAN
    BY <1>0, <1>2 DEF TimePasses, CatTypeOK
  <2>3. CatTypeOK'
    BY <1>0, <2>1, <2>2 DEF CatTypeOK
  <2>4. QED BY <2>1, <2>3, StandingKeeps DEF CatIInv
<1>3. CASE UNCHANGED catVars
  <2>1. UNCHANGED <<memory, registered, stored, fresh, checked, failed, at, mine, stamp, overlapped>>
    BY <1>3 DEF catVars
  <2>2. CatTypeOK'
    BY <1>0, <2>1 DEF CatTypeOK
  <2>3. QED BY <2>1, <2>2, StandingKeeps DEF CatIInv
<1>4. QED BY <1>1, <1>2, <1>3, RequestStepKeeps, AskerKeeps DEF CatNext

\* However many requests adopt, fetch and store catalogs beside each other: as long as no
\* two of them were registering at once, validation reads the list the pickers show.
THEOREM PickersAreValidated == CatSpec => []PickerIsValidator
<1>1. CatInit => CatIInv
  BY CatInitIInv
<1>2. CatIInv /\ [CatNext]_catVars => CatIInv'
  BY CatNextKeeps
<1>3. CatIInv => PickerIsValidator
  BY DEF CatIInv, Agreed, PickerIsValidator, IsRegistering
<1>4. QED BY <1>1, <1>2, <1>3, PTL DEF CatSpec

-----------------------------------------------------------------------------
(* What may be chosen of a model.  Every list is a set of at most five     *)
(* numbers, so a nearest one exists, and the window closes the sizes.      *)

LEMMA LargestIs ==
    ASSUME NEW S \in SUBSET Int, NEW x \in S, \A y \in S : y <= x
    PROVE  Largest(S) = x
<1>1. \A z : (z \in S /\ \A y \in S : y <= z) => z = x
  <2>1. SUFFICES ASSUME NEW z \in S, \A y \in S : y <= z PROVE z = x
    OBVIOUS
  <2>2. z <= x /\ x <= z /\ z \in Int /\ x \in Int
    BY <2>1
  <2>3. QED BY <2>2
<1>2. QED BY <1>1 DEF Largest

LEMMA RanksHaveLargest ==
    ASSUME NEW S \in SUBSET (1..5), S # {}
    PROVE  Largest(S) \in S
<1>1. \E x \in S : \A y \in S : y <= x
  <2>1. CASE 5 \in S
    BY <2>1
  <2>2. CASE 5 \notin S /\ 4 \in S
    BY <2>2
  <2>3. CASE 5 \notin S /\ 4 \notin S /\ 3 \in S
    BY <2>3
  <2>4. CASE 5 \notin S /\ 4 \notin S /\ 3 \notin S /\ 2 \in S
    BY <2>4
  <2>5. CASE 5 \notin S /\ 4 \notin S /\ 3 \notin S /\ 2 \notin S
    <3>1. PICK z \in S : TRUE
      OBVIOUS
    <3>2. \A y \in S : y \in 1..5 /\ y # 2
      BY <2>5
    <3>3. \A y \in S : y = 1
      BY <2>5, <3>2
    <3>4. QED BY <3>1, <3>3
  <2>6. QED BY <2>1, <2>2, <2>3, <2>4, <2>5
<1>2. PICK x \in S : \A y \in S : y <= x
  BY <1>1
<1>3. Largest(S) = x
  BY <1>2, LargestIs, 1..5 \subseteq Int
<1>4. QED BY <1>3

LEMMA RanksHaveSmallest ==
    ASSUME NEW S \in SUBSET (1..5), S # {}
    PROVE  Smallest(S) \in S
<1>1. \E x \in S : \A y \in S : x <= y
  <2>1. CASE 1 \in S
    BY <2>1
  <2>2. CASE 1 \notin S /\ 2 \in S
    BY <2>2
  <2>3. CASE 1 \notin S /\ 2 \notin S /\ 3 \in S
    BY <2>3
  <2>4. CASE 1 \notin S /\ 2 \notin S /\ 3 \notin S /\ 4 \in S
    BY <2>4
  <2>5. CASE 1 \notin S /\ 2 \notin S /\ 3 \notin S /\ 4 \notin S
    <3>1. PICK z \in S : TRUE
      OBVIOUS
    <3>2. \A y \in S : y \in 1..5 /\ y # 1
      BY <2>5
    <3>3. \A y \in S : y = 5
      BY <2>5, <3>2
    <3>4. QED BY <3>1, <3>3
  <2>6. QED BY <2>1, <2>2, <2>3, <2>4, <2>5
<1>2. QED BY <1>1 DEF Smallest

LEMMA RankOf ==
    ASSUME NEW e \in AllEfforts
    PROVE  EffortRank(e) \in 1..5 /\ Efforts[EffortRank(e)] = e
<1>1. \E i \in 1..5 : Efforts[i] = e
  BY DEF AllEfforts
<1>2. QED BY <1>1 DEF EffortRank

LEMMA OptionsAreEfforts ==
    ASSUME NEW cat, NEW p, NEW m
    PROVE  EffortOptions(cat, p, m) \subseteq AllEfforts /\ EffortOptions(cat, p, m) # {}
<1>1. "low" \in AllEfforts
  <2>1. Efforts[1] = "low" /\ 1 \in 1..5
    BY DEF Efforts
  <2>2. QED BY <2>1 DEF AllEfforts
<1>2. QED BY <1>1 DEF EffortOptions

\* The level a stored one stands for is one the model lists.
LEMMA EffectiveEffortOffered ==
    ASSUME NEW cat, NEW p, NEW m, NEW effort
    PROVE  EffectiveEffort(cat, p, m, effort) \in EffortOptions(cat, p, m)
<1> DEFINE options == EffortOptions(cat, p, m)
           offered == {EffortRank(e) : e \in options}
           wanted  == EffortRank(IF effort \in AllEfforts THEN effort ELSE DefaultEffort)
           upto    == {i \in offered : i <= wanted}
           rank    == IF upto = {} THEN Smallest(offered) ELSE Largest(upto)
<1>1. options \subseteq AllEfforts /\ options # {}
  BY OptionsAreEfforts
<1>2. offered \in SUBSET (1..5) /\ offered # {}
  BY <1>1, RankOf
<1>3. rank \in offered
  <2>1. CASE upto = {}
    BY <2>1, <1>2, RanksHaveSmallest
  <2>2. CASE upto # {}
    <3>1. upto \in SUBSET (1..5)
      BY <1>2
    <3>2. Largest(upto) \in upto
      BY <2>2, <3>1, RanksHaveLargest
    <3>3. QED BY <2>2, <3>2
  <2>3. QED BY <2>1, <2>2
<1>4. PICK e \in options : rank = EffortRank(e)
  BY <1>3
<1>5. Efforts[rank] = e
  BY <1>1, <1>4, RankOf
<1>6. QED BY <1>5 DEF EffectiveEffort

LEMMA WindowIsNat ==
    ASSUME NEW cat, IsCatalog(cat), NEW p, NEW m
    PROVE  Window(cat, p, m) \in Nat
<1>1. CASE m \in DOMAIN cat
  <2>1. cat[m].window \in Nat
    BY <1>1 DEF IsCatalog
  <2>2. QED BY <2>1 DEF Window, MaxContext
<1>2. CASE m \notin DOMAIN cat
  BY <1>2 DEF Window, MaxContext
<1>3. QED BY <1>1, <1>2

\* The sizes are positive, none is above the window, and the largest is the window or the
\* end of the ladder.
LEMMA SizesFit ==
    ASSUME NEW cat, IsCatalog(cat), NEW p, NEW m
    PROVE  /\ Sizes(cat, p, m) \subseteq Nat \ {0}
           /\ \A k \in Sizes(cat, p, m) : Window(cat, p, m) # 0 => k <= Window(cat, p, m)
           /\ Largest(Sizes(cat, p, m)) \in Sizes(cat, p, m)
<1> DEFINE w == Window(cat, p, m)
           S == Sizes(cat, p, m)
<1>1. w \in Nat
  BY WindowIsNat
<1>2. CASE w = 0 \/ w >= MaxContext
  <2>1. S = {64, 128, 256, 1000}
    BY <1>2 DEF Sizes, Presets
  <2>2. Largest(S) = 1000
    <3>1. S \in SUBSET Int /\ 1000 \in S /\ \A y \in S : y <= 1000
      BY <2>1
    <3>2. QED BY <3>1, LargestIs
  <2>3. QED BY <1>1, <1>2, <2>1, <2>2 DEF MaxContext
<1>3. CASE ~(w = 0 \/ w >= MaxContext)
  <2>1. S = {s \in Presets : s <= w} \cup {w}
    BY <1>3 DEF Sizes
  <2>2. Presets \subseteq Nat \ {0}
    BY DEF Presets
  <2>3. S \in SUBSET Int /\ w \in S /\ \A y \in S : y <= w
    <3>1. w \in Int /\ w <= w /\ Nat \ {0} \subseteq Int
      BY <1>1
    <3>2. QED BY <2>1, <2>2, <3>1
  <2>4. Largest(S) = w
    BY <2>3, LargestIs
  <2>5. QED BY <1>1, <1>3, <2>1, <2>2, <2>3, <2>4
<1>4. QED BY <1>2, <1>3

LEMMA DefaultSizeOffered ==
    ASSUME NEW cat, IsCatalog(cat), NEW p, NEW m
    PROVE  DefaultSize(cat, p, m) \in Sizes(cat, p, m)
<1> DEFINE w == Window(cat, p, m)
           S == Sizes(cat, p, m)
           upto == {s \in S : s <= DefaultContext}
<1>1. w \in Nat
  BY WindowIsNat
<1>2. \E x \in upto : \A y \in upto : y <= x
  <2>1. CASE w = 0 \/ w >= 256
    <3>1. 256 \in S
      BY <2>1, <1>1 DEF Sizes, Presets, MaxContext
    <3>2. QED BY <3>1 DEF DefaultContext
  <2>2. CASE w # 0 /\ w < 256
    <3>1. w \in S /\ \A y \in S : y <= w
      BY <2>2, <1>1 DEF Sizes, Presets, MaxContext
    <3>2. QED BY <2>2, <1>1, <3>1 DEF DefaultContext
  <2>3. QED BY <1>1, <2>1, <2>2
<1>3. PICK x \in upto : \A y \in upto : y <= x
  BY <1>2
<1>4. Largest(upto) = x
  <2>1. upto \in SUBSET Int
    BY SizesFit
  <2>2. QED BY <2>1, <1>3, LargestIs
<1>5. QED BY <1>3, <1>4 DEF DefaultSize

\* What a stored size means for the model is a size of the model.
LEMMA EffectiveSizeOffered ==
    ASSUME NEW cat, IsCatalog(cat), NEW p, NEW m, NEW size
    PROVE  EffectiveSize(cat, p, m, size) \in Sizes(cat, p, m)
BY SizesFit, DefaultSizeOffered DEF EffectiveSize

LEMMA ModelsAccepted ==
    ASSUME NEW cat, IsCatalog(cat), NEW own \in ModelSettings, NEW m \in OfferedModels(cat, own)
    PROVE  Accepted(cat, own, [NoChoice EXCEPT !.model = m])
<1> DEFINE choice == [NoChoice EXCEPT !.model = m]
<1>1. choice.model = m /\ choice.effort = "" /\ choice.size = 0
  BY DEF NoChoice
<1>2. Selectable(cat, own.provider, m)
  <2>1. own.provider # ""
    BY DEF OfferedModels
  <2>2. CASE own.provider = Copilot /\ cat # NoCatalog
    <3>1. Provider(own.provider) = Copilot
      BY <2>2 DEF Provider, Copilot
    <3>2. m \in AutoIds \cup DOMAIN cat
      BY <2>1, <2>2 DEF OfferedModels
    <3>3. StaticModels(own.provider) = Static
      BY <3>1 DEF StaticModels, Copilot, AiPlatform
    <3>4. m # ""
      BY <3>2, ChoicesAssumption DEF IsCatalog
    <3>5. QED BY <2>2, <3>1, <3>2, <3>3, <3>4, ChoicesAssumption DEF Selectable
  <2>3. CASE ~(own.provider = Copilot /\ cat # NoCatalog)
    <3>1. m \in StaticModels(own.provider)
      BY <2>1, <2>3 DEF OfferedModels
    <3>2. m # ""
      BY <3>1, ChoicesAssumption DEF StaticModels
    <3>3. QED BY <3>1, <3>2 DEF Selectable
  <2>4. QED BY <2>2, <2>3
<1>3. QED BY <1>1, <1>2 DEF Accepted

LEMMA EffortsAccepted ==
    ASSUME NEW cat, NEW own \in ModelSettings, NEW e \in OfferedEfforts(cat, own)
    PROVE  Accepted(cat, own, [NoChoice EXCEPT !.effort = e])
<1> DEFINE choice == [NoChoice EXCEPT !.effort = e]
<1>1. choice.model = "" /\ choice.effort = e /\ choice.size = 0 /\ NoChoice.model = ""
  BY DEF NoChoice
<1>2. ChosenModel(own, choice) = ChosenModel(own, NoChoice)
  BY <1>1 DEF ChosenModel
<1>3. own.provider # "" /\ e \in EffortOptions(cat, own.provider, ChosenModel(own, NoChoice))
  BY DEF OfferedEfforts
<1>4. QED BY <1>1, <1>2, <1>3 DEF Accepted

LEMMA SizesAccepted ==
    ASSUME NEW cat, IsCatalog(cat), NEW own \in ModelSettings, NEW k \in OfferedSizes(cat, own)
    PROVE  Accepted(cat, own, [NoChoice EXCEPT !.size = k])
<1> DEFINE choice == [NoChoice EXCEPT !.size = k]
           m == ChosenModel(own, NoChoice)
<1>1. choice.model = "" /\ choice.effort = "" /\ choice.size = k /\ NoChoice.model = ""
  BY DEF NoChoice
<1>2. ChosenModel(own, choice) = m
  BY <1>1 DEF ChosenModel
<1>3. SupportsSize(own) /\ k \in Sizes(cat, own.provider, m)
  BY DEF OfferedSizes
<1>4. Window(cat, own.provider, m) # 0 => k <= Window(cat, own.provider, m)
  BY <1>3, SizesFit
<1>5. QED BY <1>1, <1>2, <1>3, <1>4 DEF Accepted

LEMMA EverythingOffered ==
    ASSUME NEW cat, IsCatalog(cat), NEW own \in ModelSettings
    PROVE  OfferedAccepted(cat, own)
<1>1. ASSUME own.provider # "", own.model # ""
      PROVE  /\ Shown(cat, own).effort \in OfferedEfforts(cat, own)
             /\ SupportsSize(own) => Shown(cat, own).size \in OfferedSizes(cat, own)
  <2>1. ChosenModel(own, NoChoice) = own.model
    BY <1>1 DEF ChosenModel, NoChoice
  <2>2. Shown(cat, own).effort \in OfferedEfforts(cat, own)
    BY <1>1, <2>1, EffectiveEffortOffered DEF Shown, OfferedEfforts
  <2>3. SupportsSize(own) => Shown(cat, own).size \in OfferedSizes(cat, own)
    BY <2>1, EffectiveSizeOffered DEF Shown, OfferedSizes
  <2>4. QED BY <2>2, <2>3
<1>2. QED BY <1>1, ModelsAccepted, EffortsAccepted, SizesAccepted DEF OfferedAccepted

\* Whatever catalogs are reported, adopted and registered: for every assistant, whatever row
\* it has and whenever it was saved, the models, thinking levels and context sizes the
\* composer offers are accepted when they are sent, and the level and size it shows as the
\* assistant's own are among them (inference_settings_service).
THEOREM OffersAreAccepted == CatSpec => []ChoicesAccepted
<1>1. CatIInv => ChoicesAccepted
  <2>1. SUFFICES ASSUME CatIInv, NEW a \in Assistants PROVE OfferedAccepted(registered, a)
    BY DEF ChoicesAccepted
  <2>2. registered \in {NoCatalog} \cup Reported
    BY <2>1 DEF CatIInv, CatTypeOK
  <2>3. IsCatalog(NoCatalog)
    <3>1. DOMAIN NoCatalog = {}
      BY DEF NoCatalog
    <3>2. QED BY <3>1 DEF IsCatalog
  <2>4. IsCatalog(registered) /\ a \in ModelSettings
    BY <2>1, <2>2, <2>3, CatalogAssumption
  <2>5. QED BY <2>4, EverythingOffered
<1>2. QED BY <1>1, CatInitIInv, CatNextKeeps, PTL DEF CatSpec

-----------------------------------------------------------------------------
(* The error log.  One writer thread lives at a time and nobody else       *)
(* touches the rows of the Portal's loggers, so the row it found still     *)
(* stands when it writes; records reach the table in the order they were   *)
(* emitted.                                                                *)

-----------------------------------------------------------------------------
(* How occurrences add up.                                                 *)

\* Rows whose counts can be summed.
Countable(rows) == IsFiniteSet(rows) /\ \A e \in rows : e.count \in Nat

LEMMA OccasionsFinite ==
    ASSUME NEW rows, Countable(rows)
    PROVE  IsFiniteSet(Occasions(rows)) /\ Occurrences(rows) \in Nat
<1> DEFINE parts == {{e} \X (1..e.count) : e \in rows}
           f == [e \in rows |-> {e} \X (1..e.count)]
<1>1. f \in [rows -> parts] /\ \A t \in parts : \E s \in rows : f[s] = t
    OBVIOUS
<1>2. f \in Surjection(rows, parts)
    BY <1>1, Fun_IsSurj
<1>3. IsFiniteSet(parts)
    BY <1>2, FS_Surjection DEF Countable
<1>4. ASSUME NEW t \in parts PROVE IsFiniteSet(t)
    <2>1. PICK e \in rows : t = {e} \X (1..e.count)
        OBVIOUS
    <2>2. IsFiniteSet({e}) /\ IsFiniteSet(1..e.count)
        <3>1. e.count \in Int /\ 1 \in Int
            BY <2>1 DEF Countable
        <3> QED BY <3>1, FS_Singleton, FS_Interval
    <2> QED BY <2>1, <2>2, FS_Product
<1>5. IsFiniteSet(UNION parts)
    BY <1>3, <1>4, FS_UNION
<1> QED BY <1>5, FS_CardinalityType DEF Occasions, Occurrences

LEMMA CountOfOne ==
    ASSUME NEW e, e.count \in Nat
    PROVE  Countable({e}) /\ Occurrences({e}) = e.count
<1>1. Occasions({e}) = {e} \X (1..e.count)
    BY DEF Occasions
<1>2. IsFiniteSet({e}) /\ Cardinality({e}) = 1
    BY FS_Singleton
<1>3. IsFiniteSet(1..e.count) /\ Cardinality(1..e.count) = e.count
    BY FS_Interval
<1>4. Cardinality({e} \X (1..e.count)) = Cardinality({e}) * Cardinality(1..e.count)
    BY <1>2, <1>3, FS_Product
<1>5. Cardinality({e} \X (1..e.count)) = e.count
    <2>1. 1 * e.count = e.count
        OBVIOUS
    <2> QED BY <2>1, <1>2, <1>3, <1>4
<1> QED BY <1>1, <1>2, <1>5 DEF Occurrences, Countable

\* Disjoint sets of rows add up.
LEMMA CountOfBoth ==
    ASSUME NEW rows, NEW others, Countable(rows), Countable(others), rows \cap others = {}
    PROVE  Countable(rows \cup others) /\ Occurrences(rows \cup others) = Occurrences(rows) + Occurrences(others)
<1>1. IsFiniteSet(Occasions(rows)) /\ IsFiniteSet(Occasions(others))
    BY OccasionsFinite
<1>2. Occasions(rows \cup others) = Occasions(rows) \cup Occasions(others)
    BY DEF Occasions
<1>3. Occasions(rows) \cap Occasions(others) = {}
    BY DEF Occasions
<1>4. Cardinality(Occasions(rows) \cup Occasions(others))
        = Cardinality(Occasions(rows)) + Cardinality(Occasions(others)) - Cardinality({})
    BY <1>1, <1>3, FS_Union
<1>5. Occurrences(rows) \in Nat /\ Occurrences(others) \in Nat
    BY OccasionsFinite
<1>6. Occurrences(rows \cup others) = Occurrences(rows) + Occurrences(others)
    <2>1. Occurrences(rows \cup others) = Occurrences(rows) + Occurrences(others) - Cardinality({})
        BY <1>2, <1>4 DEF Occurrences
    <2>2. Cardinality({}) = 0
        BY FS_EmptySet
    <2> QED BY <2>1, <2>2, <1>5
<1>7. Countable(rows \cup others)
    BY FS_Union DEF Countable
<1> QED BY <1>6, <1>7

LEMMA CountOfPart ==
    ASSUME NEW rows, NEW some \in SUBSET rows, Countable(rows)
    PROVE  /\ Countable(some) /\ Countable(rows \ some)
           /\ Occurrences(rows) = Occurrences(some) + Occurrences(rows \ some)
<1>1. Countable(some) /\ Countable(rows \ some)
    <2>1. (rows \ some) \in SUBSET rows
        OBVIOUS
    <2> QED BY <2>1, FS_Subset DEF Countable
<1>2. some \cap (rows \ some) = {} /\ some \cup (rows \ some) = rows
    OBVIOUS
<1> QED BY <1>1, <1>2, CountOfBoth

\* The page's groups: the occurrences of a group are those of its rows, one by one.
LEMMA CountOfGroups ==
    ASSUME NEW rows, Countable(rows)
    PROVE  Occurrences(AllGroups(rows)) = Occurrences(rows) /\ Countable(AllGroups(rows))
<1> DEFINE Mine(g) == {o \in rows : Kind(o) = g.kind}
           Group(e) == [kind |-> Kind(e), count |-> Occurrences({o \in rows : Kind(o) = Kind(e)}),
                        last |-> LastSeen({o \in rows : Kind(o) = Kind(e)})]
           All == Occasions(AllGroups(rows))
<1>1. ASSUME NEW g \in AllGroups(rows)
      PROVE  /\ Countable(Mine(g)) /\ g.count = Occurrences(Mine(g)) /\ g.count \in Nat
             /\ g = [kind |-> g.kind, count |-> g.count, last |-> LastSeen(Mine(g))]
    <2>1. PICK e \in rows : g = Group(e)
        BY DEF AllGroups
    <2>2. g.kind = Kind(e) /\ g.count = Occurrences({o \in rows : Kind(o) = Kind(e)})
        BY <2>1
    <2>3. Countable(Mine(g))
        <3>1. Mine(g) \in SUBSET rows
            OBVIOUS
        <3> QED BY <3>1, CountOfPart
    <2>4. g.count = Occurrences(Mine(g)) /\ g = [kind |-> g.kind, count |-> g.count, last |-> LastSeen(Mine(g))]
        BY <2>1, <2>2
    <2>5. Occurrences(Mine(g)) \in Nat
        BY <2>3, OccasionsFinite
    <2> QED BY <2>3, <2>4, <2>5
<1>2. ASSUME NEW e \in rows PROVE \E g \in AllGroups(rows) : g.kind = Kind(e)
    <2>1. Group(e) \in AllGroups(rows) /\ Group(e).kind = Kind(e)
        BY DEF AllGroups
    <2> QED BY <2>1
<1> DEFINE Pairing(g) == CHOOSE f : f \in Bijection(1..g.count, Occasions(Mine(g)))
<1>3. ASSUME NEW g \in AllGroups(rows)
      PROVE  Pairing(g) \in Bijection(1..g.count, Occasions(Mine(g)))
    <2>1. IsFiniteSet(Occasions(Mine(g))) /\ Cardinality(Occasions(Mine(g))) = g.count
        BY <1>1, OccasionsFinite DEF Occurrences
    <2>2. ExistsBijection(1..g.count, Occasions(Mine(g)))
        BY <2>1, FS_CardinalityType
    <2>3. \E f : f \in Bijection(1..g.count, Occasions(Mine(g)))
        BY <2>2, Fun_ExistsBij
    <2> QED BY <2>3
<1> HIDE DEF Pairing
<1>4. ASSUME NEW g \in AllGroups(rows)
      PROVE  /\ Pairing(g) \in [1..g.count -> Occasions(Mine(g))]
             /\ \A i, j \in 1..g.count : Pairing(g)[i] = Pairing(g)[j] => i = j
             /\ \A o \in Occasions(Mine(g)) : \E i \in 1..g.count : Pairing(g)[i] = o
    <2> DEFINE S == 1..g.count
               O == Occasions(Mine(g))
    <2>1. Pairing(g) \in Bijection(S, O)
        BY <1>3
    <2> HIDE DEF S, O
    <2>2. /\ Pairing(g) \in [S -> O]
          /\ \A i, j \in S : Pairing(g)[i] = Pairing(g)[j] => i = j
          /\ \A o \in O : \E i \in S : Pairing(g)[i] = o
        BY <2>1, Fun_BijectionProperties
    <2> QED BY <2>2 DEF S, O
<1>5. ASSUME NEW x \in All PROVE x[1] \in AllGroups(rows) /\ x[2] \in 1..x[1].count /\ x = <<x[1], x[2]>>
    BY DEF Occasions
<1>6. ASSUME NEW g \in AllGroups(rows), NEW i \in 1..g.count PROVE <<g, i>> \in All
    BY DEF Occasions
<1>7. ASSUME NEW g \in AllGroups(rows), NEW o \in Occasions(Mine(g)) PROVE o \in Occasions(rows) /\ o[1] \in rows /\ Kind(o[1]) = g.kind
    BY DEF Occasions
<1> DEFINE h == [x \in All |-> Pairing(x[1])[x[2]]]
<1>8. h \in [All -> Occasions(rows)]
    <2>1. ASSUME NEW x \in All PROVE Pairing(x[1])[x[2]] \in Occasions(rows)
        <3>1. x[1] \in AllGroups(rows) /\ x[2] \in 1..x[1].count
            BY <1>5
        <3>2. Pairing(x[1]) \in [1..x[1].count -> Occasions(Mine(x[1]))]
            BY <3>1, <1>4
        <3>3. Pairing(x[1])[x[2]] \in Occasions(Mine(x[1]))
            BY <3>1, <3>2
        <3> QED BY <3>1, <3>3, <1>7
    <2> QED BY <2>1
<1>9. ASSUME NEW x \in All, NEW y \in All, h[x] = h[y] PROVE x = y
    <2>0. /\ x[1] \in AllGroups(rows) /\ x[2] \in 1..x[1].count
          /\ y[1] \in AllGroups(rows) /\ y[2] \in 1..y[1].count
        BY <1>5
    <2>1. h[x] \in Occasions(Mine(x[1])) /\ h[y] \in Occasions(Mine(y[1]))
        <3>1. Pairing(x[1]) \in [1..x[1].count -> Occasions(Mine(x[1]))] /\ Pairing(y[1]) \in [1..y[1].count -> Occasions(Mine(y[1]))]
            BY <2>0, <1>4
        <3> QED BY <2>0, <3>1
    <2>2. x[1].kind = y[1].kind
        <3>1. Kind(h[x][1]) = x[1].kind /\ Kind(h[y][1]) = y[1].kind
            BY <2>0, <2>1, <1>7
        <3> QED BY <3>1, <1>9
    <2>3. Mine(x[1]) = Mine(y[1])
        BY <2>2
    <2>4. x[1].count = y[1].count
        BY <2>0, <2>3, <1>1
    <2>5. x[1] = y[1]
        <3>1. /\ x[1] = [kind |-> x[1].kind, count |-> x[1].count, last |-> LastSeen(Mine(x[1]))]
              /\ y[1] = [kind |-> y[1].kind, count |-> y[1].count, last |-> LastSeen(Mine(y[1]))]
            BY <2>0, <1>1
        <3> QED BY <3>1, <2>2, <2>3, <2>4
    <2>6. Pairing(x[1])[x[2]] = Pairing(x[1])[y[2]]
        BY <1>9, <2>5
    <2>7. x[2] = y[2]
        <3>1. \A i, j \in 1..x[1].count : Pairing(x[1])[i] = Pairing(x[1])[j] => i = j
            BY <2>0, <1>4
        <3> QED BY <3>1, <2>0, <2>5, <2>6
    <2> QED BY <2>5, <2>7, <1>5
<1>10. ASSUME NEW o \in Occasions(rows) PROVE \E x \in All : h[x] = o
    <2>1. PICK e \in rows : o \in {e} \X (1..e.count)
        BY DEF Occasions
    <2>2. PICK g \in AllGroups(rows) : g.kind = Kind(e)
        BY <1>2
    <2>3. o \in Occasions(Mine(g))
        BY <2>1, <2>2 DEF Occasions
    <2>4. PICK i \in 1..g.count : Pairing(g)[i] = o
        BY <2>3, <1>4
    <2>5. h[<<g, i>>] = o /\ <<g, i>> \in All
        BY <1>6, <2>4
    <2> QED BY <2>5
<1>11. h \in Bijection(All, Occasions(rows))
    <2> HIDE DEF h, All
    <2> QED BY <1>8, <1>9, <1>10, Fun_IsBij
<1>12. ExistsBijection(Occasions(rows), All)
    BY <1>11, Fun_ExistsBij, Fun_ExistsBijSymmetric
<1>13. IsFiniteSet(Occasions(rows))
    BY OccasionsFinite
<1>14. Occurrences(AllGroups(rows)) = Occurrences(rows)
    BY <1>12, <1>13, FS_Bijection DEF Occurrences
<1>15. IsFiniteSet(AllGroups(rows))
    <2>1. AllGroups(rows) = {Group(e) : e \in rows}
        BY DEF AllGroups
    <2> DEFINE f == [e \in rows |-> Group(e)]
    <2>2. IsFiniteSet({Group(e) : e \in rows})
        <3> DEFINE T == {Group(e) : e \in rows}
        <3> HIDE DEF Group
        <3>1. f \in Surjection(rows, T)
            <4>1. f \in [rows -> T] /\ \A t \in T : \E e \in rows : f[e] = t
                OBVIOUS
            <4> HIDE DEF f, T
            <4> QED BY <4>1, Fun_IsSurj
        <3> HIDE DEF f, T
        <3> QED BY <3>1, FS_Surjection DEF Countable, T
    <2> QED BY <2>1, <2>2
<1>16. Countable(AllGroups(rows))
    BY <1>1, <1>15 DEF Countable
<1> QED BY <1>14, <1>16
-----------------------------------------------------------------------------
(* What every reachable state of the log satisfies.                        *)

Records == [source : {"log"}, problem : Problem, at : Nat]
InHandPlaces == {"hand", "drained", "found", "drain found"}
HasRecord(w) == writer[w].at \in InHandPlaces

IsEvent(e) ==
    /\ e = [id |-> e.id, source |-> e.source, problem |-> e.problem, first |-> e.first, last |-> e.last, count |-> e.count]
    /\ e.source \in {"execution", "portal", "log"} /\ e.count \in Nat /\ 1 <= e.count
    /\ e.id \in Nat /\ 1 <= e.id /\ e.id <= eventId
    /\ e.first \in Nat /\ e.last \in Nat /\ e.first <= e.last /\ e.last <= clock

Table ==
    /\ IsFiniteSet(events) /\ eventId \in Nat /\ clock \in Nat
    /\ \A e \in events : IsEvent(e)
    /\ \A e, o \in events : e.id = o.id => e = o

\* At most one writer thread lives.
Hands ==
    /\ writer = [w \in Writer |-> [at |-> writer[w].at, holds |-> writer[w].holds, found |-> writer[w].found]]
    /\ \A w \in Writer : writer[w].at \in InHandPlaces \cup {"off", "loop", "drain", "prune"}
    /\ \A v, w \in Writer : Alive(v) /\ Alive(w) => v = w

\* Records reach the table in the order they were emitted.
InOrder ==
    /\ queue \in Seq(Records)
    /\ \A i \in 1..Len(queue) : queue[i].at <= clock /\ \A j \in 1..i : queue[j].at <= queue[i].at
    /\ \A w \in Writer : HasRecord(w) =>
           /\ writer[w].holds \in Records /\ writer[w].holds.at <= clock
           /\ \A i \in 1..Len(queue) : writer[w].holds.at <= queue[i].at
    /\ \A e \in Logged(events) :
           /\ \A i \in 1..Len(queue) : e.last <= queue[i].at
           /\ \A w \in Writer : HasRecord(w) => e.last <= writer[w].holds.at

\* Nobody but the writer touches the log's rows: what it read still stands when it writes.
FoundStands == \A w \in Writer : writer[w].at \in {"found", "drain found"} => writer[w].found = Existing(writer[w].holds)

CaptureOk(c) ==
    /\ c.holds.source = "portal" /\ c.holds.at \in Nat /\ c.holds.at <= clock
    /\ c.found # None0 => /\ IsEvent(c.found) /\ c.found.source = "portal"
                          /\ \A e \in events : e.id = c.found.id => e.source = "portal"
Captures ==
    /\ server = [s \in Server |-> [at |-> server[s].at, holds |-> server[s].holds, found |-> server[s].found]]
    /\ \A s \in Server : server[s].at # "idle" => CaptureOk(server[s])

Counters ==
    /\ emitted \in Nat /\ written \in Nat /\ dropped \in Nat /\ lost \in Nat /\ pruned \in Nat
    /\ emitted = Len(queue) + Cardinality(InHand) + written + dropped + lost
    /\ Occurrences(Logged(events)) + pruned = written

Apart == \A e, o \in Logged(events) : e.problem = o.problem /\ e.id < o.id => o.first - e.last > DedupWindow

LogIInv == Table /\ Hands /\ InOrder /\ FoundStands /\ Captures /\ Counters /\ Apart

-----------------------------------------------------------------------------
(* The newest row.                                                         *)

LEMMA LeastOfAll ==
    ASSUME NEW S \in SUBSET Nat, S # {}
    PROVE  \E x \in S : \A y \in S : x <= y
<1>1. PICK x \in S : \A y \in S : ~(<<y, x>> \in OpToRel(<, Nat))
    BY WFMin, NatLessThanWellFounded
<1>2. ASSUME NEW y \in S PROVE x <= y
    <2>1. ~(y < x)
        BY <1>1 DEF OpToRel
    <2> QED BY <2>1
<1> QED BY <1>2

LEMMA NewestIsThere ==
    ASSUME Table, NEW rows \in SUBSET events, rows # {}
    PROVE  Newest(rows) \in rows
<1>1. clock \in Nat /\ eventId \in Nat
    BY DEF Table
<1>2. ASSUME NEW e \in rows PROVE e.last \in Nat /\ e.id \in Nat /\ e.last <= clock /\ e.id <= eventId
    BY DEF Table, IsEvent
<1> DEFINE ages == {clock - e.last : e \in rows}
<1>3. ages \in SUBSET Nat /\ ages # {}
    BY <1>1, <1>2
<1>4. PICK a \in ages : \A b \in ages : a <= b
    BY <1>3, LeastOfAll
<1> DEFINE latest == {e \in rows : clock - e.last = a}
           ids == {eventId - e.id : e \in latest}
<1>5. ids \in SUBSET Nat /\ ids # {}
    BY <1>1, <1>2
<1>6. PICK i \in ids : \A j \in ids : i <= j
    BY <1>5, LeastOfAll
<1>7. PICK e \in latest : eventId - e.id = i
    OBVIOUS
<1>8. ASSUME NEW o \in rows
      PROVE  \/ <<o.last, o.id>> = <<e.last, e.id>> \/ o.last < e.last \/ (o.last = e.last /\ o.id < e.id)
    <2>1. clock - e.last <= clock - o.last
        BY <1>4
    <2>2. o.last <= e.last
        BY <2>1, <1>1, <1>2
    <2>3. CASE o.last < e.last
        BY <2>3
    <2>4. CASE o.last = e.last
        <3>1. eventId - e.id <= eventId - o.id
            BY <1>6, <1>7, <2>4
        <3>2. o.id <= e.id
            BY <3>1, <1>1, <1>2
        <3> QED BY <3>2, <2>4, <1>2
    <2> QED BY <2>2, <2>3, <2>4, <1>2
<1>9. \E n \in rows : \A o \in rows : <<o.last, o.id>> = <<n.last, n.id>> \/ o.last < n.last
                                          \/ (o.last = n.last /\ o.id < n.id)
    BY <1>8
<1> QED BY <1>9 DEF Newest

LEMMA ExistingFacts ==
    ASSUME Table, NEW r
    PROVE  /\ Candidates(r) = {} => Existing(r) = None0
           /\ Candidates(r) # {} => /\ Existing(r) \in Candidates(r) /\ Existing(r) \in events
                                    /\ IsEvent(Existing(r)) /\ Existing(r) # None0
<1>1. CASE Candidates(r) = {}
    BY <1>1 DEF Existing
<1>2. CASE Candidates(r) # {}
    <2>1. Candidates(r) \in SUBSET events
        BY DEF Candidates
    <2>2. Existing(r) \in Candidates(r)
        BY <1>2, <2>1, NewestIsThere DEF Existing
    <2>3. IsEvent(Existing(r))
        BY <2>1, <2>2 DEF Table
    <2>4. None0.id = 0
        BY DEF None0
    <2>5. Existing(r).id # 0
        BY <2>3 DEF IsEvent
    <2> QED BY <1>2, <2>1, <2>2, <2>3, <2>4, <2>5
<1> QED BY <1>1, <1>2

\* What the writer looks for depends on the log's rows alone.
LEMMA ExistingOfLog ==
    ASSUME Logged(events') = Logged(events), NEW r, r.source = "log"
    PROVE  Existing(r)' = Existing(r)
<1>1. Candidates(r) = {e \in Logged(events) : e.problem = r.problem /\ e.last >= r.at - DedupWindow}
    BY DEF Candidates, Logged
<1>2. Candidates(r)' = {e \in Logged(events') : e.problem = r.problem /\ e.last >= r.at - DedupWindow}
    BY DEF Candidates, Logged
<1>3. Candidates(r)' = Candidates(r)
    BY <1>1, <1>2
<1> QED BY <1>3 DEF Existing

-----------------------------------------------------------------------------
(* Writes.                                                                 *)

LEMMA EventIn ==
    ASSUME NEW e, IsEvent(e), eventId \in Nat, clock \in Nat, eventId' \in Nat, clock' \in Nat, eventId <= eventId', clock <= clock'
    PROVE  IsEvent(e)'
BY DEF IsEvent

\* A new row.
LEMMA RowAdded ==
    ASSUME Table, NEW r, r.source \in {"execution", "portal", "log"}, r.at \in Nat, r.at <= clock,
           Recorded(None0, r), clock' = clock,
           NEW n, n = Insert(r)
    PROVE  /\ Table' /\ events' = events \cup {n} /\ eventId' = eventId + 1
           /\ n.id = eventId + 1 /\ n.source = r.source /\ n.problem = r.problem
           /\ n.first = r.at /\ n.last = r.at /\ n.count = 1
           /\ \A e \in events : e.id < n.id
<1>1. events' = events \cup {n} /\ eventId' = eventId + 1
    BY DEF Recorded
<1>2. /\ n.id = eventId + 1 /\ n.source = r.source /\ n.problem = r.problem
      /\ n.first = r.at /\ n.last = r.at /\ n.count = 1
    BY DEF Insert
<1>3. /\ eventId \in Nat /\ clock \in Nat /\ IsFiniteSet(events)
      /\ \A e \in events : IsEvent(e)
      /\ \A e, o \in events : e.id = o.id => e = o
    BY DEF Table
<1>4. \A e \in events : e.id < n.id /\ e.id # n.id
    BY <1>2, <1>3 DEF IsEvent
<1>5. IsEvent(n)'
    <2>1. eventId' \in Nat /\ clock' \in Nat /\ 1 <= eventId + 1
        BY <1>1, <1>3
    <2>2. n = [id |-> n.id, source |-> n.source, problem |-> n.problem, first |-> n.first, last |-> n.last, count |-> n.count]
        BY DEF Insert
    <2> QED BY <2>1, <2>2, <1>1, <1>2, <1>3 DEF IsEvent
<1>6. \A e \in events : IsEvent(e)'
    BY <1>1, <1>3, EventIn
<1>7. \A e, o \in events' : e.id = o.id => e = o
    BY <1>1, <1>3, <1>4
<1>8. IsFiniteSet(events')
    BY <1>1, <1>3, FS_AddElement
<1>9. Table'
    BY <1>1, <1>3, <1>5, <1>6, <1>7, <1>8 DEF Table
<1> QED BY <1>1, <1>2, <1>4, <1>9

LEMMA BumpedFields ==
    ASSUME NEW i, NEW s, NEW p, NEW b, NEW l, NEW c, NEW r, NEW f,
           f = [id |-> i, source |-> s, problem |-> p, first |-> b, last |-> l, count |-> c]
    PROVE  Bumped(f, r) = [id |-> i, source |-> s, problem |-> p, first |-> b, last |-> IF l < r.at THEN r.at ELSE l, count |-> c + 1]
<1>1. PICK g : g = Bumped(f, r)
    OBVIOUS
<1>2. DOMAIN g = DOMAIN f
    BY <1>1 DEF Bumped
<1>3. \A k \in DOMAIN f : g[k] = IF k = "last" THEN (IF f.last < r.at THEN r.at ELSE f.last)
                                 ELSE IF k = "count" THEN f.count + 1 ELSE f[k]
    BY <1>1 DEF Bumped
<1>4. g = [k \in DOMAIN f |-> g[k]]
    BY <1>1, <1>2 DEF Bumped
<1>5. g = [id |-> i, source |-> s, problem |-> p, first |-> b, last |-> IF l < r.at THEN r.at ELSE l, count |-> c + 1]
    BY <1>2, <1>3, <1>4
<1> QED BY <1>1, <1>5

\* A row written back: the row of its id, if it is still there, is replaced.
LEMMA RowBumped ==
    ASSUME Table, NEW f, IsEvent(f), f # None0, NEW r, r.at \in Nat, r.at <= clock, Recorded(f, r), clock' = clock
    PROVE  /\ Table' /\ events' = {e \in events : e.id # f.id} \cup {Bumped(f, r)} /\ eventId' = eventId
           /\ Bumped(f, r).id = f.id /\ Bumped(f, r).source = f.source /\ Bumped(f, r).problem = f.problem
           /\ Bumped(f, r).first = f.first /\ Bumped(f, r).count = f.count + 1
           /\ Bumped(f, r).last = (IF f.last < r.at THEN r.at ELSE f.last)
<1> DEFINE g == Bumped(f, r)
<1>1. events' = {e \in events : e.id # f.id} \cup {g} /\ eventId' = eventId
    BY DEF Recorded
<1>2. g = [id |-> f.id, source |-> f.source, problem |-> f.problem, first |-> f.first,
           last |-> IF f.last < r.at THEN r.at ELSE f.last, count |-> f.count + 1]
    <2>1. f = [id |-> f.id, source |-> f.source, problem |-> f.problem, first |-> f.first, last |-> f.last, count |-> f.count]
        BY DEF IsEvent
    <2> QED BY <2>1, BumpedFields
<1>3. /\ g.id = f.id /\ g.source = f.source /\ g.problem = f.problem /\ g.first = f.first
      /\ g.count = f.count + 1 /\ g.last = IF f.last < r.at THEN r.at ELSE f.last
    BY <1>2
<1>4. /\ eventId \in Nat /\ clock \in Nat /\ IsFiniteSet(events)
      /\ \A e \in events : IsEvent(e)
      /\ \A e, o \in events : e.id = o.id => e = o
    BY DEF Table
<1> HIDE DEF g
<1>5. IsEvent(g)
    <2>1. f.first \in Nat /\ f.last \in Nat /\ f.first <= f.last /\ f.last <= clock /\ f.count \in Nat
        BY DEF IsEvent
    <2>2. g.first \in Nat /\ g.last \in Nat /\ g.first <= g.last /\ g.last <= clock /\ g.count \in Nat
        BY <2>1, <1>3, <1>4
    <2>3. g = [id |-> g.id, source |-> g.source, problem |-> g.problem, first |-> g.first, last |-> g.last, count |-> g.count]
        BY <1>2, <1>3
    <2> QED BY <2>2, <2>3, <1>3 DEF IsEvent
<1>6. IsEvent(g)' /\ \A e \in events : IsEvent(e)'
    BY <1>1, <1>4, <1>5, EventIn
<1>7. \A e, o \in events' : e.id = o.id => e = o
    BY <1>1, <1>3, <1>4
<1>8. IsFiniteSet(events')
    <2>1. {e \in events : e.id # f.id} \in SUBSET events
        OBVIOUS
    <2>2. IsFiniteSet({e \in events : e.id # f.id})
        BY <2>1, <1>4, FS_Subset
    <2> QED BY <2>2, <1>1, FS_AddElement
<1>9. Table'
    BY <1>1, <1>4, <1>6, <1>7, <1>8 DEF Table
<1> QED BY <1>1, <1>3, <1>9 DEF g

LEMMA TableKept ==
    ASSUME Table, events' \in SUBSET events, eventId' = eventId, clock' \in Nat, clock <= clock'
    PROVE  Table'
<1>1. /\ eventId \in Nat /\ clock \in Nat /\ IsFiniteSet(events)
      /\ \A e \in events : IsEvent(e)
      /\ \A e, o \in events : e.id = o.id => e = o
    BY DEF Table
<1>2. \A e \in events' : IsEvent(e)'
    BY <1>1, EventIn
<1>3. IsFiniteSet(events')
    BY <1>1, FS_Subset
<1> QED BY <1>1, <1>2, <1>3 DEF Table
-----------------------------------------------------------------------------
(* What a step leaves as it was.                                           *)

\* Ids are not taken over by rows of another source.
SourcesStay == \A e \in events' : e.id <= eventId => \E o \in events : o.id = e.id /\ o.source = e.source

LEMMA TableCounts ==
    ASSUME Table
    PROVE  Countable(events) /\ Countable(Logged(events)) /\ Occurrences(Logged(events)) \in Nat
<1>1. Countable(events)
    BY DEF Table, IsEvent, Countable
<1>2. Logged(events) \in SUBSET events
    BY DEF Logged
<1> QED BY <1>1, <1>2, CountOfPart, OccasionsFinite

LEMMA CaptureStays ==
    ASSUME Table, NEW c, CaptureOk(c), SourcesStay, eventId' \in Nat, clock' \in Nat, eventId <= eventId', clock <= clock'
    PROVE  CaptureOk(c)'
<1>1. eventId \in Nat /\ clock \in Nat
    BY DEF Table
<1>2. c.holds.source = "portal" /\ c.holds.at \in Nat /\ c.holds.at <= clock'
    BY <1>1 DEF CaptureOk
<1>3. ASSUME c.found # None0
      PROVE  IsEvent(c.found)' /\ c.found.source = "portal" /\ \A e \in events' : e.id = c.found.id => e.source = "portal"
    <2>1. IsEvent(c.found) /\ c.found.source = "portal" /\ \A e \in events : e.id = c.found.id => e.source = "portal"
        BY <1>3 DEF CaptureOk
    <2>2. c.found.id <= eventId
        BY <2>1 DEF IsEvent
    <2>3. \A e \in events' : e.id = c.found.id => e.source = "portal"
        BY <2>1, <2>2 DEF SourcesStay
    <2>4. PICK f : f = c.found
        OBVIOUS
    <2>5. IsEvent(f)'
        BY <2>1, <2>4, <1>1, EventIn
    <2> QED BY <2>1, <2>3, <2>4, <2>5
<1> QED BY <1>2, <1>3 DEF CaptureOk

LEMMA CapturesStay ==
    ASSUME Table, Captures, server' = server, SourcesStay, eventId' \in Nat, clock' \in Nat, eventId <= eventId', clock <= clock'
    PROVE  Captures'
<1>1. ASSUME NEW s \in Server, server[s].at # "idle" PROVE CaptureOk(server[s])'
    <2>1. PICK c : c = server[s]
        OBVIOUS
    <2>2. CaptureOk(c)
        BY <1>1, <2>1 DEF Captures
    <2>3. CaptureOk(c)'
        BY <2>2, CaptureStays
    <2>4. c = server'[s]
        BY <2>1
    <2> QED BY <2>1, <2>3, <2>4 DEF CaptureOk
<1> QED BY <1>1 DEF Captures

LEMMA OrderStays ==
    ASSUME InOrder, queue' = queue, writer' = writer, Logged(events') \in SUBSET Logged(events),
           clock \in Nat, clock' \in Nat, clock <= clock'
    PROVE  InOrder'
<1>1. /\ queue \in Seq(Records)
      /\ \A i \in 1..Len(queue) : queue[i].at <= clock /\ \A j \in 1..i : queue[j].at <= queue[i].at
    BY DEF InOrder
<1>2. \A w \in Writer : HasRecord(w)' => HasRecord(w) /\ writer'[w].holds = writer[w].holds
    BY DEF HasRecord
<1>3. \A i \in 1..Len(queue) : queue[i].at \in Nat
    <2>1. \A i \in 1..Len(queue) : queue[i] \in Records
        BY <1>1
    <2> QED BY <2>1 DEF Records
<1>4. \A i \in 1..Len(queue) : queue[i].at <= clock'
    BY <1>1, <1>3
<1>5. \A w \in Writer : HasRecord(w)' =>
           /\ writer'[w].holds \in Records /\ writer'[w].holds.at <= clock'
           /\ \A i \in 1..Len(queue) : writer'[w].holds.at <= queue[i].at
    BY <1>2 DEF InOrder, Records
<1>6. \A e \in Logged(events') : /\ \A i \in 1..Len(queue) : e.last <= queue[i].at
                                 /\ \A w \in Writer : HasRecord(w)' => e.last <= writer'[w].holds.at
    BY <1>2 DEF InOrder
<1> QED BY <1>1, <1>4, <1>5, <1>6 DEF InOrder

LEMMA FoundStays ==
    ASSUME FoundStands, InOrder, writer' = writer, Logged(events') = Logged(events)
    PROVE  FoundStands'
<1>1. ASSUME NEW w \in Writer, writer[w].at \in {"found", "drain found"}
      PROVE  writer'[w].found = Existing(writer[w].holds)'
    <2>1. PICK r : r = writer[w].holds
        OBVIOUS
    <2>2. r.source = "log"
        BY <1>1, <2>1 DEF InOrder, HasRecord, InHandPlaces, Records
    <2>3. Existing(r)' = Existing(r)
        BY <2>2, ExistingOfLog
    <2>4. writer[w].found = Existing(r)
        BY <1>1, <2>1 DEF FoundStands
    <2>5. r = writer'[w].holds
        BY <2>1
    <2> QED BY <2>1, <2>3, <2>4, <2>5
<1> QED BY <1>1 DEF FoundStands

LEMMA ApartStays ==
    ASSUME Apart, Logged(events') \in SUBSET Logged(events)
    PROVE  Apart'
BY DEF Apart

LEMMA InHandIs == InHand = {w \in Writer : HasRecord(w)}
BY DEF InHand, HasRecord, InHandPlaces, Holding

\* Steps that touch no row of the log, no record and no writer.
LEMMA LogUntouched ==
    ASSUME LogIInv, Logged(events') = Logged(events), clock' \in Nat, clock <= clock',
           UNCHANGED <<queue, writer, emitted, written, dropped, lost, pruned>>
    PROVE  Hands' /\ InOrder' /\ FoundStands' /\ Counters' /\ Apart'
<1>1. Hands'
    BY DEF LogIInv, Hands, Alive
<1>2. clock \in Nat
    BY DEF LogIInv, Table
<1>3. InOrder' /\ FoundStands' /\ Apart'
    BY <1>2, OrderStays, FoundStays, ApartStays DEF LogIInv
<1>4. InHand' = InHand
    BY DEF InHand
<1>5. Counters'
    BY <1>4 DEF LogIInv, Counters
<1> QED BY <1>1, <1>3, <1>5

\* A row of another source, added or written back.
LEMMA OtherRowAdded ==
    ASSUME LogIInv, NEW r, r.source \in {"execution", "portal"}, r.at \in Nat, r.at <= clock, Recorded(None0, r), clock' = clock
    PROVE  Table' /\ Logged(events') = Logged(events) /\ SourcesStay /\ eventId' \in Nat /\ eventId <= eventId'
<1>1. PICK n : n = Insert(r)
    OBVIOUS
<1>2. Table
    BY DEF LogIInv
<1>3. /\ Table' /\ events' = events \cup {n} /\ eventId' = eventId + 1
      /\ n.id = eventId + 1 /\ n.source = r.source
    BY <1>1, <1>2, RowAdded
<1>4. eventId \in Nat
    BY <1>2 DEF Table
<1>5. Logged(events') = Logged(events)
    BY <1>3 DEF Logged
<1>6. SourcesStay
    BY <1>3, <1>4 DEF SourcesStay
<1> QED BY <1>3, <1>4, <1>5, <1>6

LEMMA OtherRowBumped ==
    ASSUME LogIInv, NEW c, CaptureOk(c), c.found # None0, Fits(c.found), Recorded(c.found, c.holds), clock' = clock
    PROVE  Table' /\ Logged(events') = Logged(events) /\ SourcesStay /\ eventId' \in Nat /\ eventId <= eventId'
<1>1. PICK f, r : f = c.found /\ r = c.holds
    OBVIOUS
<1>2. /\ IsEvent(f) /\ f # None0 /\ f.source = "portal" /\ r.at \in Nat /\ r.at <= clock
      /\ \A e \in events : e.id = f.id => e.source = "portal"
    BY <1>1 DEF CaptureOk
<1>3. Table
    BY DEF LogIInv
<1>4. PICK g : g = Bumped(f, r)
    OBVIOUS
<1>5. /\ Table' /\ events' = {e \in events : e.id # f.id} \cup {g} /\ eventId' = eventId
      /\ g.id = f.id /\ g.source = f.source
    BY <1>1, <1>2, <1>3, <1>4, RowBumped
<1>6. Logged(events') = Logged(events)
    <2>1. \A e \in events : e.source = "log" => e.id # f.id
        BY <1>2
    <2>2. g.source # "log"
        BY <1>2, <1>5
    <2> QED BY <2>1, <2>2, <1>5 DEF Logged
<1>7. SourcesStay
    <2>1. PICK o \in events : o.id = f.id
        BY <1>1, <1>2 DEF Fits
    <2>2. o.source = g.source
        BY <2>1, <1>2, <1>5
    <2> QED BY <2>1, <2>2, <1>5 DEF SourcesStay
<1>8. eventId \in Nat
    BY <1>3 DEF Table
<1> QED BY <1>5, <1>6, <1>7, <1>8
-----------------------------------------------------------------------------
(* The writer.                                                             *)

LEMMA BusyLives ==
    ASSUME Hands, NEW w \in Writer, Alive(w)
    PROVE  /\ \A v \in Writer : v # w => writer[v].at = "off" /\ ~HasRecord(v)
           /\ HasRecord(w) => Cardinality(InHand) = 1
           /\ ~HasRecord(w) => Cardinality(InHand) = 0
<1>1. \A v \in Writer : v # w => writer[v].at = "off"
    BY DEF Hands, Alive
<1>2. \A v \in Writer : v # w => ~HasRecord(v)
    BY <1>1 DEF HasRecord, InHandPlaces
<1>3. HasRecord(w) => InHand = {w}
    BY <1>2, InHandIs
<1>4. ~HasRecord(w) => InHand = {}
    BY <1>2, InHandIs
<1> QED BY <1>1, <1>2, <1>3, <1>4, FS_Singleton, FS_EmptySet

\* The living writer goes on to another place.
LEMMA WriterMoves ==
    ASSUME Hands, NEW w \in Writer, Alive(w), NEW n,
           n = [at |-> n.at, holds |-> n.holds, found |-> n.found],
           n.at \in InHandPlaces \cup {"off", "loop", "drain", "prune"},
           writer' = [writer EXCEPT ![w] = n]
    PROVE  /\ Hands' /\ writer'[w] = n
           /\ \A v \in Writer : v # w => ~HasRecord(v)' /\ ~HasRecord(v) /\ writer'[v].at \notin {"found", "drain found"}
           /\ HasRecord(w)' <=> n.at \in InHandPlaces
           /\ HasRecord(w)' => Cardinality(InHand') = 1
           /\ ~HasRecord(w)' => Cardinality(InHand') = 0
<1>1. writer'[w] = n /\ DOMAIN writer = Writer
    BY DEF Hands
<1>2. \A v \in Writer : v # w => writer'[v] = writer[v] /\ writer[v].at = "off" /\ ~HasRecord(v)
    BY <1>1, BusyLives
<1>3. \A v \in Writer : v # w => ~HasRecord(v)' /\ writer'[v].at \notin {"found", "drain found"}
    BY <1>2 DEF HasRecord, InHandPlaces
<1>4. HasRecord(w)' <=> n.at \in InHandPlaces
    BY <1>1 DEF HasRecord
<1>5. Hands'
    <2>1. writer' = [v \in Writer |-> writer'[v]]
        BY DEF Hands
    <2>2. ASSUME NEW v \in Writer
          PROVE  /\ writer'[v] = [at |-> writer'[v].at, holds |-> writer'[v].holds, found |-> writer'[v].found]
                 /\ writer'[v].at \in InHandPlaces \cup {"off", "loop", "drain", "prune"}
        <3>1. CASE v = w
            BY <3>1, <1>1
        <3>2. CASE v # w
            BY <3>2, <1>2 DEF Hands
        <3> QED BY <3>1, <3>2
    <2>3. writer' = [v \in Writer |-> [at |-> writer'[v].at, holds |-> writer'[v].holds, found |-> writer'[v].found]]
        BY <2>1, <2>2
    <2>4. \A u, v \in Writer : Alive(u)' /\ Alive(v)' => u = v
        BY <1>2 DEF Alive
    <2> QED BY <2>2, <2>3, <2>4 DEF Hands
<1>6. HasRecord(w)' => InHand' = {w}
    BY <1>3, InHandIs DEF InHand, HasRecord, Holding, InHandPlaces
<1>7. ~HasRecord(w)' => InHand' = {}
    BY <1>3, InHandIs DEF InHand, HasRecord, Holding, InHandPlaces
<1> QED BY <1>1, <1>2, <1>3, <1>4, <1>5, <1>6, <1>7, FS_Singleton, FS_EmptySet

\* A record goes into the queue or is dropped, and a writer is started where none lives.
LEMMA WriterEnsured ==
    ASSUME Hands, EnsureWriter
    PROVE  /\ Hands' /\ InHand' = InHand
           /\ \A w \in Writer : HasRecord(w)' => HasRecord(w) /\ writer'[w] = writer[w]
           /\ \A w \in Writer : writer'[w].at \in {"found", "drain found"} => writer'[w] = writer[w]
<1>1. CASE \E w \in Writer : Alive(w)
    <2>1. writer' = writer
        BY <1>1 DEF EnsureWriter
    <2> QED BY <2>1 DEF Hands, Alive, HasRecord, InHand
<1>2. CASE ~\E w \in Writer : Alive(w)
    <2> DEFINE u == CHOOSE w \in Writer : TRUE
    <2>1. u \in Writer
        BY ErrorLogAssumption
    <2>2. writer' = [writer EXCEPT ![u] = Resting("loop")]
        BY <1>2 DEF EnsureWriter
    <2> HIDE DEF u
    <2>3. \A w \in Writer : writer[w].at = "off"
        BY <1>2 DEF Alive
    <2>4. DOMAIN writer = Writer
        BY DEF Hands
    <2>5. writer'[u] = Resting("loop") /\ \A w \in Writer : w # u => writer'[w] = writer[w]
        BY <2>1, <2>2, <2>4
    <2>6. writer'[u].at = "loop" /\ writer'[u] = [at |-> writer'[u].at, holds |-> writer'[u].holds, found |-> writer'[u].found]
        BY <2>5 DEF Resting
    <2>7. \A w \in Writer : ~HasRecord(w) /\ ~HasRecord(w)' /\ writer'[w].at \notin {"found", "drain found"}
        BY <2>3, <2>5, <2>6 DEF HasRecord, InHandPlaces
    <2>8. InHand = {} /\ InHand' = {}
        BY <2>7, InHandIs DEF InHand, HasRecord, Holding, InHandPlaces
    <2>9. Hands'
        <3>1. ASSUME NEW v \in Writer
              PROVE  /\ writer'[v] = [at |-> writer'[v].at, holds |-> writer'[v].holds, found |-> writer'[v].found]
                     /\ writer'[v].at \in InHandPlaces \cup {"off", "loop", "drain", "prune"}
            <4>1. CASE v = u
                BY <4>1, <2>6
            <4>2. CASE v # u
                BY <4>2, <2>5 DEF Hands
            <4> QED BY <4>1, <4>2
        <3>2. writer' = [v \in Writer |-> writer'[v]]
            BY <2>2, <2>4
        <3>3. writer' = [v \in Writer |-> [at |-> writer'[v].at, holds |-> writer'[v].holds, found |-> writer'[v].found]]
            BY <3>1, <3>2
        <3>4. \A v, w \in Writer : Alive(v)' /\ Alive(w)' => v = w
            BY <2>3, <2>5 DEF Alive
        <3> QED BY <3>1, <3>3, <3>4 DEF Hands
    <2> QED BY <2>7, <2>8, <2>9
<1> QED BY <1>1, <1>2
-----------------------------------------------------------------------------
(* One lemma for each step.                                                *)

LEMMA RowsSame ==
    ASSUME LogIInv, UNCHANGED <<events, eventId>>, clock' \in Nat, clock <= clock'
    PROVE  Table' /\ SourcesStay /\ eventId' \in Nat /\ eventId <= eventId' /\ Logged(events') = Logged(events)
           /\ (server' = server => Captures')
<1>1. Table /\ Captures
    BY DEF LogIInv
<1>2. eventId \in Nat
    BY <1>1 DEF Table
<1>3. SourcesStay
    BY DEF SourcesStay
<1>4. Table'
    BY <1>1, TableKept
<1> QED BY <1>1, <1>2, <1>3, <1>4, CapturesStay

LEMMA ClockIs == ASSUME LogIInv PROVE clock \in Nat /\ clock <= clock
BY DEF LogIInv, Table

LEMMA HandCounts ==
    ASSUME Hands
    PROVE  Cardinality(InHand) \in Nat
<1>1. CASE \E w \in Writer : Alive(w)
    BY <1>1, BusyLives
<1>2. CASE ~\E w \in Writer : Alive(w)
    <2>1. InHand = {}
        BY <1>2, InHandIs DEF HasRecord, InHandPlaces, Alive
    <2> QED BY <2>1, FS_EmptySet
<1> QED BY <1>1, <1>2

\* The sums of the records' fates, as their parts change.
LEMMA FatesAdd ==
    ASSUME NEW e \in Nat, NEW q \in Nat, NEW h \in Nat, NEW w \in Nat, NEW d \in Nat, NEW l \in Nat, e = q + h + w + d + l
    PROVE  /\ e + 1 = q + h + w + (d + 1) + l /\ e + 1 = (q + 1) + h + w + d + l
           /\ h = 0 /\ q >= 1 => e = (q - 1) + 1 + w + d + l
           /\ h = 1 => e = q + 0 + (w + 1) + d + l /\ e = q + 0 + w + d + (l + 1)
OBVIOUS

LEMMA EmitAdds ==
    ASSUME Counters, Hands, InOrder, Logged(events') = Logged(events), InHand' = InHand, emitted' = emitted + 1,
           UNCHANGED <<written, lost, pruned>>,
           \/ dropped' = dropped + 1 /\ queue' = queue
           \/ dropped' = dropped /\ Len(queue') = Len(queue) + 1
    PROVE  Counters'
<1>1. Len(queue) \in Nat /\ Cardinality(InHand) \in Nat
    BY HandCounts DEF InOrder
<1>2. /\ emitted \in Nat /\ written \in Nat /\ dropped \in Nat /\ lost \in Nat /\ pruned \in Nat
      /\ emitted = Len(queue) + Cardinality(InHand) + written + dropped + lost
      /\ Occurrences(Logged(events)) + pruned = written
    BY DEF Counters
<1>3. emitted' = Len(queue') + Cardinality(InHand) + written + dropped' + lost /\ emitted' \in Nat /\ dropped' \in Nat
    <2>1. /\ emitted + 1 = Len(queue) + Cardinality(InHand) + written + (dropped + 1) + lost
          /\ emitted + 1 = (Len(queue) + 1) + Cardinality(InHand) + written + dropped + lost
        BY <1>1, <1>2, FatesAdd
    <2>2. emitted' = Len(queue') + Cardinality(InHand) + written + dropped' + lost
        BY <2>1, <1>1
    <2>3. emitted' \in Nat /\ dropped' \in Nat
        BY <1>2
    <2> QED BY <2>2, <2>3
<1>4. Occurrences(Logged(events')) + pruned = written
    BY <1>2
<1> QED BY <1>2, <1>3, <1>4 DEF Counters

LEMMA EmitKeeps == ASSUME LogIInv, NEW p \in Problem, Emit(p) PROVE LogIInv'
<1>1. /\ Table' /\ Captures' /\ Logged(events') = Logged(events)
    <2>1. UNCHANGED <<events, eventId, clock, server>>
        BY DEF Emit
    <2> QED BY <2>1, ClockIs, RowsSame
<1>2. Hands /\ InOrder /\ Counters /\ FoundStands /\ Apart /\ clock \in Nat
    BY ClockIs DEF LogIInv
<1>3. UNCHANGED <<events, clock, written, lost, pruned>> /\ emitted' = emitted + 1
    BY DEF Emit
<1>4. Apart'
    BY <1>1, <1>2, ApartStays
<1>5. CASE spent' > Budget
    <2>1. dropped' = dropped + 1 /\ UNCHANGED <<queue, writer>>
        BY <1>5 DEF Emit
    <2>2. Hands' /\ InHand' = InHand
        BY <1>2, <2>1 DEF Hands, Alive, InHand
    <2>3. InOrder' /\ FoundStands'
        BY <1>1, <1>2, <1>3, <2>1, OrderStays, FoundStays
    <2>4. Counters'
        BY <1>1, <1>2, <1>3, <2>1, <2>2, EmitAdds
    <2> QED BY <1>1, <1>4, <2>2, <2>3, <2>4 DEF LogIInv
<1>6. CASE ~(spent' > Budget)
    <2>1. EnsureWriter
        BY <1>6 DEF Emit
    <2>2. /\ Hands' /\ InHand' = InHand
          /\ \A w \in Writer : HasRecord(w)' => HasRecord(w) /\ writer'[w] = writer[w]
          /\ \A w \in Writer : writer'[w].at \in {"found", "drain found"} => writer'[w] = writer[w]
        BY <1>2, <2>1, WriterEnsured
    <2>3. FoundStands'
        <3>1. ASSUME NEW w \in Writer, writer'[w].at \in {"found", "drain found"}
              PROVE  writer'[w].found = Existing(writer[w].holds)'
            <4>1. PICK r : r = writer[w].holds
                OBVIOUS
            <4>2. writer'[w] = writer[w] /\ writer[w].at \in {"found", "drain found"}
                BY <3>1, <2>2
            <4>3. r.source = "log"
                BY <1>2, <4>1, <4>2 DEF InOrder, HasRecord, InHandPlaces, Records
            <4>4. Existing(r)' = Existing(r)
                BY <4>3, <1>1, ExistingOfLog
            <4>5. writer[w].found = Existing(r)
                BY <1>2, <4>1, <4>2 DEF FoundStands
            <4>6. r = writer'[w].holds
                BY <4>1, <4>2
            <4> QED BY <4>1, <4>2, <4>4, <4>5, <4>6
        <3> QED BY <3>1 DEF FoundStands
    <2>4. CASE Len(queue) = QueueSize
        <3>1. dropped' = dropped + 1 /\ queue' = queue
            BY <1>6, <2>4 DEF Emit
        <3>2. InOrder'
            BY <1>1, <1>2, <1>3, <2>2, <3>1 DEF InOrder
        <3>3. Counters'
            BY <1>1, <1>2, <1>3, <2>2, <3>1, EmitAdds
        <3> QED BY <1>1, <1>4, <2>2, <2>3, <3>2, <3>3 DEF LogIInv
    <2>5. CASE Len(queue) # QueueSize
        <3>1. PICK r : r = Row("log", p, clock)
            OBVIOUS
        <3>2. dropped' = dropped /\ queue' = Append(queue, r)
            BY <1>6, <2>5, <3>1 DEF Emit
        <3>3. r \in Records /\ r.at = clock
            BY <1>2, <3>1 DEF Row, Records
        <3>4. /\ queue \in Seq(Records)
              /\ \A i \in 1..Len(queue) : queue[i].at <= clock /\ \A j \in 1..i : queue[j].at <= queue[i].at
            BY <1>2 DEF InOrder
        <3>5. /\ queue' \in Seq(Records) /\ Len(queue') = Len(queue) + 1 /\ Len(queue) \in Nat
              /\ \A i \in 1..Len(queue) : queue'[i] = queue[i]
              /\ queue'[Len(queue) + 1] = r
            BY <3>2, <3>3, <3>4
        <3>6. InOrder'
            <4>1. ASSUME NEW i \in 1..Len(queue')
                  PROVE  queue'[i].at <= clock' /\ \A j \in 1..i : queue'[j].at <= queue'[i].at
                <5>1. CASE i \in 1..Len(queue)
                    BY <5>1, <3>4, <3>5, <1>3
                <5>2. CASE i = Len(queue) + 1
                    <6>1. \A j \in 1..Len(queue) : queue'[j].at <= clock
                        BY <3>4, <3>5
                    <6> QED BY <5>2, <6>1, <3>3, <3>5, <1>2, <1>3
                <5> QED BY <5>1, <5>2, <3>5
            <4>2. ASSUME NEW w \in Writer, HasRecord(w)'
                  PROVE  /\ writer'[w].holds \in Records /\ writer'[w].holds.at <= clock'
                         /\ \A i \in 1..Len(queue') : writer'[w].holds.at <= queue'[i].at
                <5>1. HasRecord(w) /\ writer'[w] = writer[w]
                    BY <4>2, <2>2
                <5>2. /\ writer[w].holds \in Records /\ writer[w].holds.at <= clock
                      /\ \A i \in 1..Len(queue) : writer[w].holds.at <= queue[i].at
                    BY <5>1, <1>2 DEF InOrder
                <5> QED BY <5>1, <5>2, <3>3, <3>5, <1>3
            <4>3. ASSUME NEW e \in Logged(events')
                  PROVE  /\ \A i \in 1..Len(queue') : e.last <= queue'[i].at
                         /\ \A w \in Writer : HasRecord(w)' => e.last <= writer'[w].holds.at
                <5>1. /\ \A i \in 1..Len(queue) : e.last <= queue[i].at
                      /\ \A w \in Writer : HasRecord(w) => e.last <= writer[w].holds.at
                    BY <4>3, <1>1, <1>2 DEF InOrder
                <5>2. e.last <= clock
                    BY <4>3, <1>1 DEF Logged, LogIInv, Table, IsEvent
                <5>3. \A i \in 1..Len(queue') : e.last <= queue'[i].at
                    BY <5>1, <5>2, <3>3, <3>5
                <5>4. \A w \in Writer : HasRecord(w)' => e.last <= writer'[w].holds.at
                    BY <5>1, <2>2
                <5> QED BY <5>3, <5>4
            <4> QED BY <4>1, <4>2, <4>3, <3>5 DEF InOrder
        <3>7. Counters'
            BY <1>1, <1>2, <1>3, <2>2, <3>2, <3>5, EmitAdds
        <3> QED BY <1>1, <1>4, <2>2, <2>3, <3>6, <3>7 DEF LogIInv
    <2> QED BY <2>4, <2>5
<1> QED BY <1>5, <1>6

LEMMA TakeKeeps == ASSUME LogIInv, NEW w \in Writer, Take(w) PROVE LogIInv'
<1>1. /\ Table' /\ Captures' /\ Logged(events') = Logged(events)
    <2>1. UNCHANGED <<events, eventId, clock, server>>
        BY DEF Take
    <2> QED BY <2>1, ClockIs, RowsSame
<1>2. Hands /\ InOrder /\ Counters /\ FoundStands /\ Apart /\ clock \in Nat
    BY ClockIs DEF LogIInv
<1>3. /\ writer[w].at \in {"loop", "drain"} /\ queue # <<>> /\ queue' = Tail(queue)
      /\ UNCHANGED <<events, clock, emitted, written, dropped, lost, pruned>>
    BY DEF Take
<1>4. Alive(w) /\ ~HasRecord(w)
    BY <1>3 DEF Alive, HasRecord, InHandPlaces
<1>5. PICK n : n = [at |-> IF writer[w].at = "loop" THEN "hand" ELSE "drained", holds |-> Head(queue), found |-> None0]
    OBVIOUS
<1>6. writer' = [writer EXCEPT ![w] = n] /\ n = [at |-> n.at, holds |-> n.holds, found |-> n.found]
      /\ n.at \in {"hand", "drained"} /\ n.holds = Head(queue)
    <2>1. DOMAIN writer = Writer
        BY <1>2 DEF Hands
    <2> QED BY <1>5, <2>1 DEF Take
<1>7. n.at \in InHandPlaces
    BY <1>6 DEF InHandPlaces
<1>8. /\ Hands' /\ writer'[w] = n /\ Cardinality(InHand) = 0 /\ Cardinality(InHand') = 1
      /\ \A v \in Writer : v # w => ~HasRecord(v)' /\ writer'[v].at \notin {"found", "drain found"}
    BY <1>2, <1>4, <1>6, <1>7, WriterMoves, BusyLives
<1>9. /\ queue \in Seq(Records) /\ Len(queue) \in Nat /\ Len(queue) >= 1
      /\ \A i \in 1..Len(queue) : queue[i].at <= clock /\ \A j \in 1..i : queue[j].at <= queue[i].at
    BY <1>2, <1>3 DEF InOrder
<1>10. /\ queue' \in Seq(Records) /\ Len(queue') = Len(queue) - 1 /\ Head(queue) \in Records /\ Head(queue) = queue[1]
       /\ \A i \in 1..Len(queue') : queue'[i] = queue[i + 1]
    BY <1>3, <1>9
<1>11. InOrder'
    <2>1. ASSUME NEW i \in 1..Len(queue')
          PROVE  queue'[i].at <= clock' /\ \A j \in 1..i : queue'[j].at <= queue'[i].at
        <3>1. i + 1 \in 1..Len(queue)
            BY <1>9, <1>10
        <3>2. ASSUME NEW j \in 1..i PROVE queue'[j].at <= queue'[i].at
            <4>1. j \in 1..Len(queue') /\ j + 1 \in 1..(i + 1)
                BY <1>9, <1>10
            <4> QED BY <4>1, <3>1, <1>9, <1>10
        <3> QED BY <3>1, <3>2, <1>3, <1>9, <1>10
    <2>2. ASSUME NEW v \in Writer, HasRecord(v)'
          PROVE  /\ writer'[v].holds \in Records /\ writer'[v].holds.at <= clock'
                 /\ \A i \in 1..Len(queue') : writer'[v].holds.at <= queue'[i].at
        <3>1. writer'[v].holds = queue[1]
            BY <2>2, <1>6, <1>8, <1>10
        <3>2. ASSUME NEW i \in 1..Len(queue') PROVE queue[1].at <= queue'[i].at
            <4>1. i + 1 \in 1..Len(queue) /\ 1 \in 1..(i + 1)
                BY <1>9, <1>10
            <4> QED BY <4>1, <1>9, <1>10
        <3>3. 1 \in 1..Len(queue)
            BY <1>9
        <3> QED BY <3>1, <3>2, <3>3, <1>3, <1>9, <1>10
    <2>3. ASSUME NEW e \in Logged(events')
          PROVE  /\ \A i \in 1..Len(queue') : e.last <= queue'[i].at
                 /\ \A v \in Writer : HasRecord(v)' => e.last <= writer'[v].holds.at
        <3>1. \A i \in 1..Len(queue) : e.last <= queue[i].at
            BY <2>3, <1>1, <1>2 DEF InOrder
        <3>2. 1 \in 1..Len(queue)
            BY <1>9
        <3>3. \A v \in Writer : HasRecord(v)' => e.last <= writer'[v].holds.at
            BY <3>1, <3>2, <1>6, <1>8, <1>10
        <3>4. ASSUME NEW i \in 1..Len(queue') PROVE e.last <= queue'[i].at
            <4>1. i + 1 \in 1..Len(queue)
                BY <1>9, <1>10
            <4> QED BY <4>1, <3>1, <1>10
        <3> QED BY <3>3, <3>4
    <2> QED BY <2>1, <2>2, <2>3, <1>10 DEF InOrder
<1>12. FoundStands'
    BY <1>6, <1>8 DEF FoundStands
<1>13. Apart'
    BY <1>1, <1>2, ApartStays
<1>14. Counters'
    <2>1. /\ emitted \in Nat /\ written \in Nat /\ dropped \in Nat /\ lost \in Nat /\ pruned \in Nat
          /\ emitted = Len(queue) + Cardinality(InHand) + written + dropped + lost
          /\ Occurrences(Logged(events)) + pruned = written
        BY <1>2 DEF Counters
    <2>2. emitted = Len(queue') + 1 + written + dropped + lost
        <3>1. Cardinality(InHand) = 0 /\ Cardinality(InHand) \in Nat
            BY <1>2, <1>8, HandCounts
        <3>2. emitted = (Len(queue) - 1) + 1 + written + dropped + lost
            BY <3>1, <2>1, <1>9, FatesAdd
        <3> QED BY <3>2, <1>10
    <2> QED BY <2>1, <2>2, <1>1, <1>3, <1>8 DEF Counters
<1> QED BY <1>1, <1>8, <1>11, <1>12, <1>13, <1>14 DEF LogIInv

\* A writer that stays with its record, or stays without one.
LEMMA PlaceKeeps ==
    ASSUME LogIInv, NEW w \in Writer, Alive(w), NEW n,
           n = [at |-> n.at, holds |-> n.holds, found |-> n.found],
           n.at \in InHandPlaces \cup {"off", "loop", "drain", "prune"},
           writer' = [writer EXCEPT ![w] = n],
           n.at \in InHandPlaces <=> HasRecord(w),
           HasRecord(w) => n.holds = writer[w].holds,
           n.at \in {"found", "drain found"} => n.found = Existing(n.holds),
           UNCHANGED <<events, eventId, queue, clock, emitted, written, dropped, lost, pruned, server>>
    PROVE  LogIInv'
<1>1. /\ Table' /\ Captures' /\ Logged(events') = Logged(events)
    BY ClockIs, RowsSame
<1>2. Hands /\ InOrder /\ Counters /\ FoundStands /\ Apart /\ clock \in Nat
    BY ClockIs DEF LogIInv
<1>3. /\ Hands' /\ writer'[w] = n /\ Cardinality(InHand') = Cardinality(InHand)
      /\ \A v \in Writer : v # w => ~HasRecord(v)' /\ writer'[v].at \notin {"found", "drain found"}
      /\ HasRecord(w)' <=> HasRecord(w)
    BY <1>2, WriterMoves, BusyLives
<1>4. InOrder'
    <2>1. \A v \in Writer : HasRecord(v)' => HasRecord(v) /\ writer'[v].holds = writer[v].holds
        BY <1>3
    <2>2. Logged(events') = Logged(events) /\ queue' = queue /\ clock' = clock
        BY <1>1
    <2> QED BY <2>1, <2>2, <1>2 DEF InOrder
<1>5. FoundStands'
    <2>1. ASSUME NEW v \in Writer, writer'[v].at \in {"found", "drain found"}
          PROVE  writer'[v].found = Existing(writer[v].holds)'
        <3>1. PICK r : r = n.holds
            OBVIOUS
        <3>2. v = w /\ n.at \in {"found", "drain found"}
            BY <2>1, <1>3
        <3>3. Existing(r)' = Existing(r)
            BY DEF Existing, Candidates
        <3>4. writer'[v].found = Existing(r) /\ writer'[v].holds = r
            BY <3>1, <3>2, <1>3
        <3> QED BY <3>3, <3>4
    <2> QED BY <2>1 DEF FoundStands
<1>6. Apart'
    BY <1>1, <1>2, ApartStays
<1>7. Counters'
    <2>1. /\ emitted \in Nat /\ written \in Nat /\ dropped \in Nat /\ lost \in Nat /\ pruned \in Nat
          /\ emitted = Len(queue) + Cardinality(InHand) + written + dropped + lost
          /\ Occurrences(Logged(events)) + pruned = written
        BY <1>2 DEF Counters
    <2> QED BY <2>1, <1>1, <1>3 DEF Counters
<1> QED BY <1>1, <1>3, <1>4, <1>5, <1>6, <1>7 DEF LogIInv

\* EXCEPT on a thread: the fields it names change.
LEMMA ThreadEdited ==
    ASSUME NEW f, NEW w \in DOMAIN f, f[w] = [at |-> f[w].at, holds |-> f[w].holds, found |-> f[w].found], NEW x
    PROVE  [f EXCEPT ![w].found = x, ![w].at = IF @ = "hand" THEN "found" ELSE "drain found"]
             = [f EXCEPT ![w] = [at |-> IF f[w].at = "hand" THEN "found" ELSE "drain found", holds |-> f[w].holds, found |-> x]]
<1>1. PICK h : h = f[w]
    OBVIOUS
<1>2. h = [at |-> h.at, holds |-> h.holds, found |-> h.found]
    BY <1>1
<1>3. PICK g : g = [h EXCEPT !.found = x]
    OBVIOUS
<1>4. g = [at |-> h.at, holds |-> h.holds, found |-> x]
    BY <1>2, <1>3
<1>5. \A b : [g EXCEPT !.at = b] = [at |-> b, holds |-> h.holds, found |-> x]
    BY <1>4
<1>6. [f EXCEPT ![w].found = x] = [f EXCEPT ![w] = g]
    BY <1>1, <1>3
<1>7. PICK k : k = [f EXCEPT ![w].found = x]
    OBVIOUS
<1>8. k[w] = g /\ k = [f EXCEPT ![w] = g]
    BY <1>2, <1>6, <1>7
<1>9. \A b : [k EXCEPT ![w].at = b] = [f EXCEPT ![w] = [g EXCEPT !.at = b]]
    BY <1>8
<1>10. [f EXCEPT ![w].found = x, ![w].at = IF @ = "hand" THEN "found" ELSE "drain found"]
         = [k EXCEPT ![w].at = IF k[w].at = "hand" THEN "found" ELSE "drain found"]
    BY <1>7
<1>11. [k EXCEPT ![w].at = IF k[w].at = "hand" THEN "found" ELSE "drain found"]
         = [f EXCEPT ![w] = [at |-> IF k[w].at = "hand" THEN "found" ELSE "drain found", holds |-> f[w].holds, found |-> x]]
    BY <1>1, <1>5, <1>9
<1>12. k[w].at = f[w].at
    BY <1>1, <1>4, <1>8
<1> QED BY <1>10, <1>11, <1>12

LEMMA LookKeeps == ASSUME LogIInv, NEW w \in Writer, Look(w) PROVE LogIInv'
<1>1. writer[w].at \in {"hand", "drained"}
    BY DEF Look, Holding
<1>2. writer = [v \in Writer |-> [at |-> writer[v].at, holds |-> writer[v].holds, found |-> writer[v].found]]
    BY DEF LogIInv, Hands
<1>3. PICK n : n = [at |-> IF writer[w].at = "hand" THEN "found" ELSE "drain found", holds |-> writer[w].holds,
                    found |-> Existing(writer[w].holds)]
    OBVIOUS
<1>4. writer' = [writer EXCEPT ![w] = n]
    <2>1. w \in DOMAIN writer /\ writer[w] = [at |-> writer[w].at, holds |-> writer[w].holds, found |-> writer[w].found]
        BY <1>2
    <2> QED BY <2>1, <1>3, ThreadEdited DEF Look
<1>5. /\ n = [at |-> n.at, holds |-> n.holds, found |-> n.found]
      /\ n.at \in {"found", "drain found"} /\ n.holds = writer[w].holds /\ n.found = Existing(n.holds)
    BY <1>3
<1>6. Alive(w) /\ HasRecord(w) /\ n.at \in InHandPlaces
    BY <1>1, <1>5 DEF Alive, HasRecord, InHandPlaces
<1>7. UNCHANGED <<events, eventId, queue, clock, emitted, written, dropped, lost, pruned, server>>
    BY DEF Look
<1> QED BY <1>4, <1>5, <1>6, <1>7, PlaceKeeps

LEMMA WriterRestsKeeps == ASSUME LogIInv, NEW w \in Writer, WriterRests(w) PROVE LogIInv'
<1>1. writer = [v \in Writer |-> [at |-> writer[v].at, holds |-> writer[v].holds, found |-> writer[v].found]]
    BY DEF LogIInv, Hands
<1>2. PICK place \in {"off", "loop", "drain", "prune"} : writer' = [writer EXCEPT ![w].at = place]
    BY DEF WriterRests
<1>3. writer[w].at \in {"loop", "drain", "prune"}
    BY DEF WriterRests
<1>4. PICK n : n = [at |-> place, holds |-> writer[w].holds, found |-> writer[w].found]
    OBVIOUS
<1>5. writer' = [writer EXCEPT ![w] = n]
    <2>1. [writer EXCEPT ![w].at = place]
            = [writer EXCEPT ![w] = [at |-> place, holds |-> writer[w].holds, found |-> writer[w].found]]
        <3>1. w \in DOMAIN writer /\ writer[w] = [at |-> writer[w].at, holds |-> writer[w].holds, found |-> writer[w].found]
            BY <1>1
        <3>2. PICK h : h = writer[w]
            OBVIOUS
        <3>3. [h EXCEPT !.at = place] = [at |-> place, holds |-> h.holds, found |-> h.found]
            BY <3>1, <3>2
        <3>4. [writer EXCEPT ![w].at = place] = [writer EXCEPT ![w] = [h EXCEPT !.at = place]]
            BY <3>2
        <3> QED BY <3>2, <3>3, <3>4
    <2> QED BY <2>1, <1>2, <1>4
<1>6. n = [at |-> n.at, holds |-> n.holds, found |-> n.found] /\ n.at = place
    BY <1>4
<1>7. Alive(w) /\ ~HasRecord(w) /\ n.at \notin InHandPlaces /\ n.at \notin {"found", "drain found"}
    BY <1>2, <1>3, <1>6 DEF Alive, HasRecord, InHandPlaces
<1>8. UNCHANGED <<events, eventId, queue, clock, emitted, written, dropped, lost, pruned, server>>
    BY DEF WriterRests
<1> QED BY <1>2, <1>5, <1>6, <1>7, <1>8, PlaceKeeps

\* What the writer writes: one occurrence more, of a row not newer than the record.
LEMMA RecordWritten ==
    ASSUME LogIInv, NEW r \in Records, r.at <= clock, \A e \in Logged(events) : e.last <= r.at,
           NEW f, f = Existing(r), Recorded(f, r), clock' = clock
    PROVE  /\ Table' /\ SourcesStay /\ eventId' \in Nat /\ eventId <= eventId' /\ Apart'
           /\ Occurrences(Logged(events')) = Occurrences(Logged(events)) + 1
           /\ \A e \in Logged(events') : e.last <= r.at
<1>1. Table /\ Apart /\ eventId \in Nat /\ clock \in Nat /\ DedupWindow \in Nat
    BY ErrorLogAssumption DEF LogIInv, Table
<1>2. r.at \in Nat /\ r.source = "log"
    BY DEF Records
<1>3. /\ \A e \in events : IsEvent(e)
      /\ \A e, o \in events : e.id = o.id => e = o
    BY <1>1 DEF Table
<1>4. \A e \in events : e.first \in Nat /\ e.last \in Nat /\ e.first <= e.last /\ e.id \in Nat /\ e.id <= eventId /\ e.count \in Nat
    BY <1>3 DEF IsEvent
<1>5. CASE Candidates(r) = {}
    <2>1. f = None0
        BY <1>1, <1>5, ExistingFacts
    <2>2. PICK n : n = Insert(r)
        OBVIOUS
    <2>3. /\ Table' /\ events' = events \cup {n} /\ eventId' = eventId + 1
          /\ n.id = eventId + 1 /\ n.source = "log" /\ n.problem = r.problem
          /\ n.first = r.at /\ n.last = r.at /\ n.count = 1
          /\ \A e \in events : e.id < n.id
        BY <1>1, <1>2, <2>1, <2>2, RowAdded
    <2>4. Logged(events') = Logged(events) \cup {n} /\ n \notin Logged(events)
        BY <2>3, <1>4 DEF Logged
    <2>5. Occurrences(Logged(events')) = Occurrences(Logged(events)) + 1
        <3>1. Countable({n}) /\ Occurrences({n}) = 1
            <4>1. n.count \in Nat /\ n.count = 1
                BY <2>3
            <4> QED BY <4>1, CountOfOne
        <3>2. Logged(events) \cap {n} = {}
            BY <2>4
        <3> QED BY <3>1, <3>2, <1>1, <2>4, TableCounts, CountOfBoth
    <2>6. \A e \in Logged(events') : e.last <= r.at
        BY <2>3, <2>4, <1>2
    <2>7. SourcesStay
        BY <2>3, <1>1 DEF SourcesStay
    <2>8. ASSUME NEW e \in Logged(events), e.problem = r.problem PROVE r.at - e.last > DedupWindow
        <3>1. e \in events /\ e.source = "log"
            BY DEF Logged
        <3>2. ~(e.last >= r.at - DedupWindow)
            BY <3>1, <2>8, <1>2, <1>5 DEF Candidates
        <3> QED BY <3>1, <3>2, <1>1, <1>2, <1>4
    <2>9. ASSUME NEW e \in Logged(events'), NEW o \in Logged(events'), e.problem = o.problem, e.id < o.id
          PROVE  o.first - e.last > DedupWindow
        <3>1. CASE e \in Logged(events) /\ o \in Logged(events)
            BY <3>1, <2>9, <1>1 DEF Apart
        <3>2. CASE e \in Logged(events) /\ o = n
            BY <3>2, <2>3, <2>8, <2>9
        <3>3. e # n
            <4>1. SUFFICES ASSUME e = n PROVE FALSE
                OBVIOUS
            <4>2. o.id <= n.id
                BY <2>3, <2>4, <1>1, <1>4 DEF Logged
            <4>3. o.id \in Nat
                BY <2>3, <2>4, <1>1, <1>4 DEF Logged
            <4> QED BY <4>1, <4>2, <4>3, <2>3, <2>9, <1>1
        <3> QED BY <3>1, <3>2, <3>3, <2>4
    <2>10. eventId' \in Nat /\ eventId <= eventId'
        BY <2>3, <1>1
    <2> QED BY <2>3, <2>5, <2>6, <2>7, <2>9, <2>10 DEF Apart
<1>6. CASE Candidates(r) # {}
    <2>1. f \in Candidates(r) /\ f \in events /\ IsEvent(f) /\ f # None0
        BY <1>1, <1>6, ExistingFacts
    <2>2. f.source = "log" /\ f.problem = r.problem /\ f.last >= r.at - DedupWindow /\ f \in Logged(events)
        BY <2>1, <1>2 DEF Candidates, Logged
    <2>3. f.last <= r.at
        BY <2>2
    <2>4. PICK g : g = Bumped(f, r)
        OBVIOUS
    <2>5. /\ Table' /\ events' = {e \in events : e.id # f.id} \cup {g} /\ eventId' = eventId
          /\ g.id = f.id /\ g.source = f.source /\ g.problem = f.problem
          /\ g.first = f.first /\ g.count = f.count + 1
          /\ g.last = (IF f.last < r.at THEN r.at ELSE f.last)
        BY <1>1, <1>2, <2>1, <2>4, RowBumped
    <2>6. g.last = r.at
        BY <2>3, <2>5, <2>1, <1>2, <1>4
    <2>7. {e \in events : e.id # f.id} = events \ {f}
        BY <2>1, <1>3
    <2>8. Logged(events') = (Logged(events) \ {f}) \cup {g}
        BY <2>2, <2>5, <2>7 DEF Logged
    <2>9. g \notin Logged(events) \ {f}
        BY <2>1, <2>5, <1>3 DEF Logged
    <2>10. Occurrences(Logged(events')) = Occurrences(Logged(events)) + 1
        <3>1. f.count \in Nat /\ g.count \in Nat
            BY <2>1, <2>5, <1>4
        <3>2. Countable({g}) /\ Occurrences({g}) = f.count + 1 /\ Occurrences({f}) = f.count
            BY <3>1, <2>5, CountOfOne
        <3>3. Countable(Logged(events)) /\ {f} \in SUBSET Logged(events)
            BY <1>1, <2>2, TableCounts
        <3>4. /\ Countable(Logged(events) \ {f})
              /\ Occurrences(Logged(events)) = Occurrences({f}) + Occurrences(Logged(events) \ {f})
            BY <3>3, CountOfPart
        <3>5. (Logged(events) \ {f}) \cap {g} = {}
            BY <2>9
        <3>6. Occurrences(Logged(events')) = Occurrences(Logged(events) \ {f}) + Occurrences({g})
            BY <3>2, <3>4, <3>5, <2>8, CountOfBoth
        <3>7. Occurrences(Logged(events) \ {f}) \in Nat
            BY <3>4, OccasionsFinite
        <3> QED BY <3>1, <3>2, <3>4, <3>6, <3>7
    <2>11. \A e \in Logged(events') : e.last <= r.at
        BY <2>6, <2>8, <1>2
    <2>12. SourcesStay
        BY <2>1, <2>5 DEF SourcesStay
    <2>13. ASSUME NEW o \in Logged(events), o.problem = f.problem PROVE ~(f.id < o.id)
        <3>1. SUFFICES ASSUME f.id < o.id PROVE FALSE
            OBVIOUS
        <3>2. o.first - f.last > DedupWindow
            BY <3>1, <2>2, <2>13, <1>1 DEF Apart
        <3>3. o \in events /\ o.last <= r.at
            BY DEF Logged
        <3>4. /\ o.first \in Nat /\ o.last \in Nat /\ o.first <= o.last /\ f.last \in Nat
              /\ f.last >= r.at - DedupWindow
            BY <3>3, <2>1, <2>2, <1>4
        <3> QED BY <3>2, <3>3, <3>4, <1>1, <1>2
    <2>14. ASSUME NEW e \in Logged(events'), NEW o \in Logged(events'), e.problem = o.problem, e.id < o.id
          PROVE  o.first - e.last > DedupWindow
        <3>1. CASE e \in Logged(events) /\ o \in Logged(events)
            BY <3>1, <2>14, <1>1 DEF Apart
        <3>2. CASE e \in Logged(events) /\ o = g
            BY <3>2, <2>2, <2>5, <2>14, <1>1 DEF Apart
        <3>3. CASE e = g /\ o \in Logged(events)
            BY <3>3, <2>5, <2>13, <2>14
        <3>4. CASE e = g /\ o = g
            <4>1. g.id \in Nat
                BY <2>1, <2>5, <1>4
            <4> QED BY <4>1, <3>4, <2>14
        <3> QED BY <3>1, <3>2, <3>3, <3>4, <2>8
    <2>15. eventId' \in Nat /\ eventId <= eventId'
        BY <2>5, <1>1
    <2> QED BY <2>5, <2>10, <2>11, <2>12, <2>14, <2>15 DEF Apart
<1> QED BY <1>5, <1>6

LEMMA WriterWritesKeeps == ASSUME LogIInv, NEW w \in Writer, WriterWrites(w) PROVE LogIInv'
<1>1. /\ writer[w].at \in {"found", "drain found"}
      /\ UNCHANGED <<queue, server, clock, emitted, dropped, pruned>>
    BY DEF WriterWrites
<1>2. Table /\ Hands /\ InOrder /\ Counters /\ FoundStands /\ Captures /\ Apart /\ clock \in Nat
    BY ClockIs DEF LogIInv
<1>3. Alive(w) /\ HasRecord(w)
    BY <1>1 DEF Alive, HasRecord, InHandPlaces
<1>4. PICK n : n = Resting(Rest(w))
    OBVIOUS
<1>5. /\ writer' = [writer EXCEPT ![w] = n] /\ n = [at |-> n.at, holds |-> n.holds, found |-> n.found]
      /\ n.at \in {"prune", "drain"}
    BY <1>4 DEF WriterWrites, Resting, Rest
<1>6. n.at \notin InHandPlaces
    BY <1>5 DEF InHandPlaces
<1>7. /\ Hands' /\ Cardinality(InHand) = 1 /\ Cardinality(InHand') = 0 /\ writer'[w] = n
      /\ \A v \in Writer : ~HasRecord(v)' /\ writer'[v].at \notin {"found", "drain found"}
    <2>1. n.at \in InHandPlaces \cup {"off", "loop", "drain", "prune"} /\ n.at \notin {"found", "drain found"}
        BY <1>5
    <2>2. /\ Hands' /\ Cardinality(InHand') = 0 /\ writer'[w] = n /\ ~HasRecord(w)'
          /\ \A v \in Writer : v # w => ~HasRecord(v)' /\ writer'[v].at \notin {"found", "drain found"}
        BY <2>1, <1>2, <1>3, <1>5, <1>6, WriterMoves
    <2>3. Cardinality(InHand) = 1
        BY <1>2, <1>3, BusyLives
    <2> QED BY <2>1, <2>2, <2>3
<1>8. FoundStands'
    BY <1>7 DEF FoundStands
<1>9. PICK r : r = writer[w].holds
    OBVIOUS
<1>10. /\ r \in Records /\ r.at <= clock /\ \A i \in 1..Len(queue) : r.at <= queue[i].at
       /\ \A e \in Logged(events) : e.last <= r.at
       /\ queue \in Seq(Records) /\ Len(queue) \in Nat
    BY <1>2, <1>3, <1>9 DEF InOrder
<1>11. /\ emitted \in Nat /\ written \in Nat /\ dropped \in Nat /\ lost \in Nat /\ pruned \in Nat
       /\ emitted = Len(queue) + Cardinality(InHand) + written + dropped + lost
       /\ Occurrences(Logged(events)) + pruned = written
    BY <1>2 DEF Counters
<1>12. /\ emitted = Len(queue) + 0 + (written + 1) + dropped + lost
       /\ emitted = Len(queue) + 0 + written + dropped + (lost + 1)
    <2>1. Cardinality(InHand) \in Nat /\ Cardinality(InHand) = 1 /\ Len(queue) \in Nat
        BY <1>2, <1>7, <1>10, HandCounts
    <2> QED BY <2>1, <1>11, FatesAdd
<1>13. CASE Fits(writer[w].found) /\ Recorded(writer[w].found, writer[w].holds) /\ written' = written + 1 /\ lost' = lost
    <2>1. PICK f : f = writer[w].found
        OBVIOUS
    <2>2. f = Existing(r)
        BY <1>1, <1>2, <1>9, <2>1 DEF FoundStands
    <2>3. Recorded(f, r)
        BY <1>9, <1>13, <2>1
    <2>4. /\ Table' /\ SourcesStay /\ eventId' \in Nat /\ eventId <= eventId' /\ Apart'
          /\ Occurrences(Logged(events')) = Occurrences(Logged(events)) + 1
          /\ \A e \in Logged(events') : e.last <= r.at
        BY <1>1, <1>10, <2>2, <2>3, RecordWritten
    <2>5. Captures'
        <3>1. server' = server /\ clock' = clock
            BY <1>1
        <3>2. clock' \in Nat /\ clock <= clock'
            BY <3>1, ClockIs
        <3> QED BY <3>1, <3>2, <1>2, <2>4, CapturesStay
    <2>6. InOrder'
        <3>1. ASSUME NEW e \in Logged(events'), NEW i \in 1..Len(queue) PROVE e.last <= queue[i].at
            <4>1. queue[i] \in Records
                BY <1>10
            <4>2. queue[i].at \in Nat /\ r.at \in Nat
                BY <4>1, <1>10 DEF Records
            <4>3. e.last \in Nat
                BY <2>4 DEF Logged, Table, IsEvent
            <4> QED BY <4>2, <4>3, <1>10, <2>4
        <3> QED BY <3>1, <1>1, <1>2, <1>7 DEF InOrder
    <2>7. Counters'
        <3>1. Occurrences(Logged(events)) \in Nat
            BY <1>2, TableCounts
        <3>2. Occurrences(Logged(events')) + pruned = written + 1
            BY <3>1, <2>4, <1>11
        <3>3. written + 1 \in Nat
            BY <1>11
        <3> QED BY <3>2, <3>3, <1>1, <1>7, <1>11, <1>12, <1>13 DEF Counters
    <2> QED BY <1>7, <1>8, <2>4, <2>5, <2>6, <2>7 DEF LogIInv
<1>14. CASE lost' = lost + 1 /\ UNCHANGED <<events, eventId, written>>
    <2>1. Table' /\ Captures' /\ Logged(events') = Logged(events)
        BY <1>1, <1>14, ClockIs, RowsSame
    <2>2. InOrder'
        BY <1>1, <1>2, <1>7, <2>1 DEF InOrder
    <2>3. Apart'
        BY <1>2, <2>1, ApartStays
    <2>4. Counters'
        <3>1. lost + 1 \in Nat
            BY <1>11
        <3> QED BY <3>1, <1>1, <1>7, <1>11, <1>12, <1>14, <2>1 DEF Counters
    <2> QED BY <1>7, <1>8, <2>1, <2>2, <2>3, <2>4 DEF LogIInv
<1> QED BY <1>13, <1>14 DEF WriterWrites

LEMMA PruneKeeps == ASSUME LogIInv, NEW w \in Writer, Prune(w) PROVE LogIInv'
<1>1. /\ writer[w].at = "prune"
      /\ UNCHANGED <<eventId, queue, server, clock, emitted, dropped, written, lost>>
    BY DEF Prune
<1>2. Table /\ Hands /\ InOrder /\ Counters /\ FoundStands /\ Captures /\ Apart /\ clock \in Nat
    BY ClockIs DEF LogIInv
<1>3. Alive(w) /\ ~HasRecord(w)
    BY <1>1 DEF Alive, HasRecord, InHandPlaces
<1>4. PICK n : n = [at |-> "loop", holds |-> writer[w].holds, found |-> writer[w].found]
    OBVIOUS
<1>5. writer' = [writer EXCEPT ![w] = n] /\ n = [at |-> n.at, holds |-> n.holds, found |-> n.found] /\ n.at = "loop"
    <2>1. PICK h : h = writer[w]
        OBVIOUS
    <2>2. h = [at |-> h.at, holds |-> h.holds, found |-> h.found]
        BY <1>2, <2>1 DEF Hands
    <2>3. [h EXCEPT !.at = "loop"] = n
        BY <1>4, <2>1, <2>2
    <2>4. writer' = [writer EXCEPT ![w] = [h EXCEPT !.at = "loop"]]
        BY <2>1 DEF Prune
    <2> QED BY <2>3, <2>4, <1>4
<1>6. n.at \notin InHandPlaces
    BY <1>5 DEF InHandPlaces
<1>7. /\ Hands' /\ Cardinality(InHand) = 0 /\ Cardinality(InHand') = 0 /\ writer'[w] = n
      /\ \A v \in Writer : ~HasRecord(v)' /\ writer'[v].at \notin {"found", "drain found"}
    BY <1>2, <1>3, <1>5, <1>6, WriterMoves, BusyLives
<1>8. FoundStands'
    BY <1>7 DEF FoundStands
<1>9. /\ emitted \in Nat /\ written \in Nat /\ dropped \in Nat /\ lost \in Nat /\ pruned \in Nat
      /\ emitted = Len(queue) + Cardinality(InHand) + written + dropped + lost
      /\ Occurrences(Logged(events)) + pruned = written
    BY <1>2 DEF Counters
<1>10. PICK gone \in SUBSET events : events' = events \ gone /\ pruned' = pruned + Occurrences(Logged(gone))
    <2>1. CASE events' = events \ (Old \cup OverCap) /\ pruned' = pruned + Occurrences(Logged(Old \cup OverCap))
        <3>1. (Old \cup OverCap) \in SUBSET events
            BY DEF Old, OverCap
        <3> QED BY <2>1, <3>1
    <2>2. CASE UNCHANGED <<events, pruned>>
        <3>1. Logged({}) = {} /\ Occasions({}) = {}
            BY DEF Logged, Occasions
        <3>2. Occurrences(Logged({})) = 0
            BY <3>1, FS_EmptySet DEF Occurrences
        <3>3. events' = events \ {} /\ pruned' = pruned + 0
            BY <2>2, <1>9
        <3> QED BY <3>2, <3>3
    <2> QED BY <2>1, <2>2 DEF Prune
<1>11. Table' /\ SourcesStay
    <2>1. events' \in SUBSET events /\ clock' \in Nat /\ clock <= clock' /\ eventId' = eventId
        BY <1>1, <1>2, <1>10
    <2>2. Table'
        BY <1>2, <2>1, TableKept
    <2> QED BY <2>1, <2>2 DEF SourcesStay
<1>12. Captures'
    <2>1. server' = server /\ clock' \in Nat /\ clock <= clock' /\ eventId' \in Nat /\ eventId <= eventId'
        BY <1>1, <1>2 DEF Table
    <2> QED BY <2>1, <1>2, <1>11, CapturesStay
<1>13. Logged(events') = Logged(events) \ Logged(gone) /\ Logged(gone) \in SUBSET Logged(events)
    BY <1>10 DEF Logged
<1>14. InOrder'
    BY <1>1, <1>2, <1>7, <1>13 DEF InOrder
<1>15. Apart'
    BY <1>2, <1>13, ApartStays
<1>16. Counters'
    <2>1. Countable(Logged(events))
        BY <1>2, TableCounts
    <2>2. /\ Countable(Logged(gone)) /\ Countable(Logged(events'))
          /\ Occurrences(Logged(events)) = Occurrences(Logged(gone)) + Occurrences(Logged(events'))
        BY <2>1, <1>13, CountOfPart
    <2>3. Occurrences(Logged(gone)) \in Nat /\ Occurrences(Logged(events')) \in Nat
        BY <2>2, OccasionsFinite
    <2>4. pruned' \in Nat /\ Occurrences(Logged(events')) + pruned' = written
        BY <2>2, <2>3, <1>9, <1>10
    <2> QED BY <2>4, <1>1, <1>7, <1>9 DEF Counters
<1> QED BY <1>7, <1>8, <1>11, <1>12, <1>14, <1>15, <1>16 DEF LogIInv

LEMMA CloseKeeps == ASSUME LogIInv, Close PROVE LogIInv'
<1>1. UNCHANGED <<events, eventId, queue, writer, server, clock, emitted, dropped, written, lost, pruned>>
    BY DEF Close
<1>2. clock' \in Nat /\ clock <= clock'
    BY <1>1, ClockIs
<1> QED BY <1>1, <1>2, RowsSame, LogUntouched DEF LogIInv

LEMMA HourKeeps == ASSUME LogIInv, HourPasses PROVE LogIInv'
<1>1. UNCHANGED <<events, eventId, queue, writer, server, emitted, dropped, written, lost, pruned>> /\ clock' = clock + 1
    BY DEF HourPasses
<1>2. clock' \in Nat /\ clock <= clock'
    BY <1>1, ClockIs
<1> QED BY <1>1, <1>2, RowsSame, LogUntouched DEF LogIInv

\* A serving thread goes on: the others' captures are as sound as they were.
LEMMA ServerMoves ==
    ASSUME Table, Captures, SourcesStay, eventId' \in Nat, clock' \in Nat, eventId <= eventId', clock <= clock',
           NEW s \in Server, NEW n, n = [at |-> n.at, holds |-> n.holds, found |-> n.found],
           server' = [server EXCEPT ![s] = n], n.at # "idle" => CaptureOk(n)'
    PROVE  Captures'
<1>1. DOMAIN server = Server
    BY DEF Captures
<1>2. server'[s] = n /\ \A t \in Server : t # s => server'[t] = server[t]
    BY <1>1
<1>3. ASSUME NEW t \in Server PROVE server'[t] = [at |-> server'[t].at, holds |-> server'[t].holds, found |-> server'[t].found]
    <2>1. CASE t = s
        BY <2>1, <1>2
    <2>2. CASE t # s
        BY <2>2, <1>2 DEF Captures
    <2> QED BY <2>1, <2>2
<1>4. server' = [t \in Server |-> [at |-> server'[t].at, holds |-> server'[t].holds, found |-> server'[t].found]]
    <2>1. server' = [t \in Server |-> server'[t]]
        BY <1>1
    <2> QED BY <2>1, <1>3
<1>5. ASSUME NEW t \in Server, server'[t].at # "idle" PROVE CaptureOk(server[t])'
    <2>1. PICK c : c = server'[t]
        OBVIOUS
    <2>2. CASE t = s
        <3>1. c = n /\ CaptureOk(c)'
            BY <1>2, <1>5, <2>1, <2>2
        <3> QED BY <2>1, <3>1 DEF CaptureOk
    <2>3. CASE t # s
        <3>1. CaptureOk(c)
            BY <1>2, <1>5, <2>1, <2>3 DEF Captures
        <3>2. CaptureOk(c)'
            BY <3>1, CaptureStays
        <3> QED BY <2>1, <3>2 DEF CaptureOk
    <2> QED BY <2>2, <2>3
<1> QED BY <1>4, <1>5 DEF Captures

LEMMA CaptureKeeps == ASSUME LogIInv, NEW s \in Server, NEW p \in Problem, Capture(s, p) PROVE LogIInv'
<1>1. UNCHANGED <<events, eventId, queue, writer, clock, emitted, dropped, written, lost, pruned>>
    BY DEF Capture
<1>2. clock' \in Nat /\ clock <= clock' /\ clock \in Nat
    BY <1>1, ClockIs
<1>3. Table' /\ SourcesStay /\ eventId' \in Nat /\ eventId <= eventId' /\ Logged(events') = Logged(events)
    BY <1>1, <1>2, RowsSame
<1>4. PICK n : n = [at |-> "look", holds |-> Row("portal", p, clock), found |-> None0]
    OBVIOUS
<1>5. server' = [server EXCEPT ![s] = n] /\ n = [at |-> n.at, holds |-> n.holds, found |-> n.found]
    BY <1>4 DEF Capture
<1>6. CaptureOk(n)'
    BY <1>1, <1>2, <1>4 DEF CaptureOk, Row
<1>7. Captures'
    BY <1>2, <1>3, <1>5, <1>6, ServerMoves DEF LogIInv
<1> QED BY <1>1, <1>2, <1>3, <1>7, LogUntouched DEF LogIInv

LEMMA CaptureLookKeeps == ASSUME LogIInv, NEW s \in Server, CaptureLook(s) PROVE LogIInv'
<1>1. UNCHANGED <<events, eventId, queue, writer, clock, emitted, dropped, written, lost, pruned>> /\ server[s].at = "look"
    BY DEF CaptureLook
<1>2. clock' \in Nat /\ clock <= clock' /\ clock \in Nat
    BY <1>1, ClockIs
<1>3. Table' /\ SourcesStay /\ eventId' \in Nat /\ eventId <= eventId' /\ Logged(events') = Logged(events)
    BY <1>1, <1>2, RowsSame
<1>4. PICK r, h : h = server[s] /\ r = h.holds
    OBVIOUS
<1>5. h = [at |-> h.at, holds |-> h.holds, found |-> h.found] /\ CaptureOk(h)
    BY <1>1, <1>4 DEF LogIInv, Captures
<1>6. PICK n : n = [at |-> "commit", holds |-> r, found |-> Existing(r)]
    OBVIOUS
<1>7. n = [at |-> n.at, holds |-> n.holds, found |-> n.found]
    BY <1>6
<1>8. server' = [server EXCEPT ![s] = n]
    <2>1. server' = [server EXCEPT ![s].found = Existing(r), ![s].at = "commit"]
        BY <1>4 DEF CaptureLook
    <2>2. s \in DOMAIN server /\ server[s] = [at |-> server[s].at, holds |-> server[s].holds, found |-> server[s].found]
        BY <1>4, <1>5 DEF LogIInv, Captures
    <2>3. PICK k, x, g : k = [server EXCEPT ![s].found = x] /\ x = Existing(r) /\ g = [h EXCEPT !.found = x]
        OBVIOUS
    <2>4. g = [at |-> h.at, holds |-> r, found |-> x]
        BY <1>4, <1>5, <2>3
    <2>5. [g EXCEPT !.at = "commit"] = n
        <3>1. [g EXCEPT !.at = "commit"] = [at |-> "commit", holds |-> r, found |-> x]
            BY <2>4
        <3>2. n = [at |-> "commit", holds |-> r, found |-> x]
            BY <1>6, <2>3
        <3> QED BY <3>1, <3>2
    <2>6. k = [server EXCEPT ![s] = g] /\ k[s] = g
        BY <1>4, <2>2, <2>3
    <2>7. [k EXCEPT ![s].at = "commit"] = [server EXCEPT ![s] = [g EXCEPT !.at = "commit"]]
        BY <2>6
    <2>8. server' = [k EXCEPT ![s].at = "commit"]
        BY <2>1, <2>3
    <2> QED BY <2>5, <2>7, <2>8
<1>9. CaptureOk(n)
    <2>1. r.source = "portal" /\ r.at \in Nat /\ r.at <= clock
        BY <1>4, <1>5 DEF CaptureOk
    <2>2. ASSUME Existing(r) # None0
          PROVE  /\ IsEvent(Existing(r)) /\ Existing(r).source = "portal"
                 /\ \A e \in events : e.id = Existing(r).id => e.source = "portal"
        <3>1. Table
            BY DEF LogIInv
        <3>2. Candidates(r) # {}
            BY <2>2, <3>1, ExistingFacts
        <3>3. Existing(r) \in Candidates(r) /\ Existing(r) \in events /\ IsEvent(Existing(r))
            BY <3>1, <3>2, ExistingFacts
        <3>4. Existing(r).source = "portal"
            BY <3>3, <2>1 DEF Candidates
        <3>5. \A e \in events : e.id = Existing(r).id => e = Existing(r)
            BY <3>1, <3>3 DEF Table
        <3> QED BY <3>3, <3>4, <3>5
    <2> QED BY <2>1, <2>2, <1>6 DEF CaptureOk
<1>10. CaptureOk(n)'
    BY <1>2, <1>3, <1>9, CaptureStays DEF LogIInv
<1>11. Captures'
    BY <1>2, <1>3, <1>7, <1>8, <1>10, ServerMoves DEF LogIInv
<1> QED BY <1>1, <1>2, <1>3, <1>11, LogUntouched DEF LogIInv

LEMMA CaptureWriteKeeps == ASSUME LogIInv, NEW s \in Server, CaptureWrite(s) PROVE LogIInv'
<1>1. UNCHANGED <<queue, writer, clock, emitted, dropped, written, lost, pruned>> /\ server[s].at = "commit"
    BY DEF CaptureWrite
<1>2. clock' \in Nat /\ clock <= clock' /\ clock \in Nat
    BY <1>1, ClockIs
<1>3. PICK c : c = server[s]
    OBVIOUS
<1>4. CaptureOk(c)
    BY <1>1, <1>3 DEF LogIInv, Captures
<1>5. Table' /\ SourcesStay /\ eventId' \in Nat /\ eventId <= eventId' /\ Logged(events') = Logged(events)
    <2>1. CASE UNCHANGED <<events, eventId>>
        BY <2>1, <1>2, RowsSame
    <2>2. CASE Fits(c.found) /\ Recorded(c.found, c.holds)
        <3>1. CASE c.found = None0
            <4>1. PICK r : r = c.holds
                OBVIOUS
            <4>2. r.source \in {"execution", "portal"} /\ r.at \in Nat /\ r.at <= clock /\ Recorded(None0, r) /\ clock' = clock
                BY <1>1, <1>4, <2>2, <3>1, <4>1 DEF CaptureOk
            <4> QED BY <4>2, OtherRowAdded
        <3>2. CASE c.found # None0
            BY <1>1, <1>4, <2>2, <3>2, OtherRowBumped
        <3> QED BY <3>1, <3>2
    <2> QED BY <2>1, <2>2, <1>3 DEF CaptureWrite
<1>6. PICK n : n = Resting("idle")
    OBVIOUS
<1>7. server' = [server EXCEPT ![s] = n] /\ n = [at |-> n.at, holds |-> n.holds, found |-> n.found] /\ n.at = "idle"
    BY <1>6 DEF CaptureWrite, Resting
<1>8. Captures'
    BY <1>2, <1>5, <1>7, ServerMoves DEF LogIInv
<1> QED BY <1>1, <1>2, <1>5, <1>8, LogUntouched DEF LogIInv

LEMMA RecordRunKeeps == ASSUME LogIInv, NEW p \in Problem, RecordRun(p) PROVE LogIInv'
<1>1. UNCHANGED <<queue, writer, server, clock, emitted, dropped, written, lost, pruned>>
    BY DEF RecordRun
<1>2. clock' \in Nat /\ clock <= clock' /\ clock \in Nat
    BY <1>1, ClockIs
<1>3. PICK r : r = Row("execution", p, clock)
    OBVIOUS
<1>4. r.source \in {"execution", "portal"} /\ r.at \in Nat /\ r.at <= clock /\ Recorded(None0, r)
    BY <1>2, <1>3 DEF RecordRun, Row
<1>5. Table' /\ SourcesStay /\ eventId' \in Nat /\ eventId <= eventId' /\ Logged(events') = Logged(events)
    BY <1>1, <1>4, OtherRowAdded
<1>6. Captures'
    BY <1>1, <1>2, <1>5, CapturesStay DEF LogIInv
<1> QED BY <1>1, <1>2, <1>5, <1>6, LogUntouched DEF LogIInv

-----------------------------------------------------------------------------
ErrSpec == ErrInit /\ [][ErrNext]_errVars

LEMMA LogStarts == ASSUME ErrInit PROVE LogIInv
<1>1. Logged({}) = {} /\ Occasions({}) = {}
    BY DEF Logged, Occasions
<1>2. Occurrences(Logged({})) = 0 /\ IsFiniteSet({}) /\ Cardinality({}) = 0
    BY <1>1, FS_EmptySet DEF Occurrences
<1>3. events = {} /\ eventId = 0 /\ clock = 0 /\ queue = <<>> /\ emitted = 0 /\ written = 0 /\ dropped = 0 /\ lost = 0 /\ pruned = 0
    BY DEF ErrInit
<1>4. \A w \in Writer : writer[w].at = "off"
    BY DEF ErrInit, Resting
<1>5. \A w \in Writer : ~HasRecord(w)
    BY <1>4 DEF HasRecord, InHandPlaces
<1>6. InHand = {}
    BY <1>5, InHandIs
<1>7. Table
    BY <1>2, <1>3 DEF Table
<1>8. Hands
    BY <1>4 DEF Hands, ErrInit, Resting, Alive
<1>9. InOrder
    BY <1>1, <1>3, <1>5 DEF InOrder
<1>10. FoundStands
    BY <1>4 DEF FoundStands
<1>11. Captures
    BY DEF Captures, ErrInit, Resting
<1>12. Counters
    <2>1. Len(queue) = 0
        BY <1>3
    <2> QED BY <2>1, <1>2, <1>3, <1>6 DEF Counters
<1>13. Apart
    BY <1>1, <1>3 DEF Apart
<1> QED BY <1>7, <1>8, <1>9, <1>10, <1>11, <1>12, <1>13 DEF LogIInv

LEMMA LogGoesOn == ASSUME LogIInv, [ErrNext]_errVars PROVE LogIInv'
<1>1. CASE \E p \in Problem : Emit(p) \/ RecordRun(p)
    BY <1>1, EmitKeeps, RecordRunKeeps
<1>2. CASE \E w \in Writer : Take(w) \/ Look(w) \/ WriterWrites(w) \/ WriterRests(w) \/ Prune(w)
    BY <1>2, TakeKeeps, LookKeeps, WriterWritesKeeps, WriterRestsKeeps, PruneKeeps
<1>3. CASE \E s \in Server : CaptureLook(s) \/ CaptureWrite(s)
    BY <1>3, CaptureLookKeeps, CaptureWriteKeeps
<1>4. CASE \E s \in Server, p \in Problem : Capture(s, p)
    BY <1>4, CaptureKeeps
<1>5. CASE Close
    BY <1>5, CloseKeeps
<1>6. CASE HourPasses
    BY <1>6, HourKeeps
<1>7. CASE UNCHANGED errVars
    <2>1. UNCHANGED <<events, eventId, queue, writer, server, clock, emitted, dropped, written, lost, pruned>>
        BY <1>7 DEF errVars
    <2>2. clock' \in Nat /\ clock <= clock'
        BY <2>1, ClockIs
    <2> QED BY <2>1, <2>2, RowsSame, LogUntouched DEF LogIInv
<1> QED BY <1>1, <1>2, <1>3, <1>4, <1>5, <1>6, <1>7 DEF ErrNext

\* A row has one occasion at least, and so has what it is in.
LEMMA CountOfSome ==
    ASSUME NEW rows, Countable(rows), NEW e \in rows, 1 <= e.count
    PROVE  Occurrences(rows) \in Nat /\ 1 <= Occurrences(rows)
<1>1. IsFiniteSet(Occasions(rows)) /\ Occurrences(rows) \in Nat
    BY OccasionsFinite
<1>2. e.count \in Nat
    BY DEF Countable
<1>3. <<e, 1>> \in Occasions(rows)
    BY <1>2 DEF Occasions
<1>4. Occurrences(rows) # 0
    BY <1>1, <1>3, FS_EmptySet DEF Occurrences
<1> QED BY <1>1, <1>4

\* The groups a page shows come to the total if all fit, and to less otherwise.
LEMMA PageShows ==
    ASSUME NEW rows, Countable(rows), \A e \in rows : 1 <= e.count, NEW page \in Groups(rows)
    PROVE  IF Cardinality(AllGroups(rows)) <= GroupLimit
           THEN Occurrences(page) = Occurrences(rows) ELSE Occurrences(page) < Occurrences(rows)
<1> DEFINE all == AllGroups(rows)
           left == all \ page
<1>1. Countable(all) /\ Occurrences(all) = Occurrences(rows)
    BY CountOfGroups
<1>2. /\ page \in SUBSET all /\ (page = all \/ Cardinality(page) = GroupLimit)
      /\ Cardinality(page) <= GroupLimit
    BY DEF Groups
<1>3. IsFiniteSet(all) /\ Cardinality(all) \in Nat /\ GroupLimit \in Nat
    BY <1>1, FS_CardinalityType, ErrorLogAssumption DEF Countable
<1>4. /\ Countable(page) /\ Countable(left)
      /\ Occurrences(all) = Occurrences(page) + Occurrences(left)
    <2> HIDE DEF all
    <2> QED BY <1>1, <1>2, CountOfPart
<1>5. Occurrences(page) \in Nat /\ Occurrences(left) \in Nat
    BY <1>4, OccasionsFinite
<1>6. CASE Cardinality(all) <= GroupLimit
    <2>1. page = all
        <3>1. Cardinality(page) = Cardinality(all) => page = all
            <4> HIDE DEF all
            <4> QED BY <1>2, <1>3, FS_Subset
        <3>2. Cardinality(page) <= Cardinality(all)
            <4> HIDE DEF all
            <4> QED BY <1>2, <1>3, FS_Subset
        <3> QED BY <3>1, <3>2, <1>2, <1>3, <1>6
    <2> QED BY <2>1, <1>1, <1>6
<1>7. CASE ~(Cardinality(all) <= GroupLimit)
    <2>1. page # all
        BY <1>2, <1>7
    <2>2. PICK g \in left : TRUE
        <3>1. \E g : g \in left
            <4> HIDE DEF all
            <4> QED BY <2>1, <1>2
        <3> QED BY <3>1
    <2> DEFINE alike == {o \in rows : Kind(o) = g.kind}
    <2>3. g.count = Occurrences(alike) /\ \E e \in rows : Kind(e) = g.kind
        <3>1. PICK e \in rows : g = [kind |-> Kind(e), count |-> Occurrences({o \in rows : Kind(o) = Kind(e)}),
                                     last |-> LastSeen({o \in rows : Kind(o) = Kind(e)})]
            BY <2>2 DEF AllGroups
        <3>2. g.kind = Kind(e) /\ g.count = Occurrences({o \in rows : Kind(o) = Kind(e)})
            BY <3>1
        <3> QED BY <3>2
    <2>4. Countable(alike)
        BY CountOfPart
    <2>5. 1 <= g.count
        <3>1. PICK e \in alike : 1 <= e.count
            BY <2>3
        <3> HIDE DEF alike
        <3> QED BY <3>1, <2>3, <2>4, CountOfSome
    <2>6. 1 <= Occurrences(left)
        <3> HIDE DEF left
        <3> QED BY <2>2, <2>5, <1>4, CountOfSome
    <2> QED BY <2>6, <1>1, <1>4, <1>5, <1>7
<1> QED BY <1>6, <1>7

\* The page's figures: of any rows of the log, the sources add up to the total.
LEMMA PageAddsUp ==
    ASSUME NEW shown, Countable(shown), \A e \in shown : e.source \in {"execution", "portal", "log"}
    PROVE  /\ Totals(shown).events = BySource(shown)["execution"] + BySource(shown)["portal"] + BySource(shown)["log"]
           /\ Totals(shown).events = Occurrences(shown)
<1> DEFINE Part(source) == {e \in shown : e.source = source}
<1>1. /\ Totals(shown).events = Occurrences(shown)
      /\ BySource(shown)["execution"] = Occurrences(Part("execution"))
      /\ BySource(shown)["portal"] = Occurrences(Part("portal"))
      /\ BySource(shown)["log"] = Occurrences(Part("log"))
    BY DEF Totals, BySource
<1>2. Part("execution") \in SUBSET shown /\ Part("portal") \in SUBSET shown \ Part("execution")
    OBVIOUS
<1>3. (shown \ Part("execution")) \ Part("portal") = Part("log")
    OBVIOUS
<1>4. /\ Countable(Part("execution")) /\ Countable(shown \ Part("execution"))
      /\ Occurrences(shown) = Occurrences(Part("execution")) + Occurrences(shown \ Part("execution"))
    BY <1>2, CountOfPart
<1>5. /\ Countable(Part("portal")) /\ Countable(Part("log"))
      /\ Occurrences(shown \ Part("execution")) = Occurrences(Part("portal")) + Occurrences(Part("log"))
    BY <1>2, <1>3, <1>4, CountOfPart
<1>6. /\ Occurrences(Part("execution")) \in Nat /\ Occurrences(Part("portal")) \in Nat /\ Occurrences(Part("log")) \in Nat
    BY <1>4, <1>5, OccasionsFinite
<1>7. Occurrences(shown) = Occurrences(Part("execution")) + Occurrences(Part("portal")) + Occurrences(Part("log"))
    BY <1>4, <1>5, <1>6
<1> QED BY <1>1, <1>7

\* Every warning is accounted for, rows of one problem of the log lie more than a window
\* apart, and the page's totals are those of its sources, and of its groups when all of them
\* fit on it: whatever requests, the writer, the prune and the shutdown do in whatever order.
THEOREM WarningsAddUp == ErrSpec => []ErrorsAddUp
<1>1. ErrInit => LogIInv
    BY LogStarts
<1>2. LogIInv /\ [ErrNext]_errVars => LogIInv'
    BY LogGoesOn
<1>3. LogIInv => ErrorsAddUp
    <2>1. SUFFICES ASSUME LogIInv PROVE ErrorsAddUp
        OBVIOUS
    <2>2. Table /\ Counters /\ Apart
        BY <2>1 DEF LogIInv
    <2>3. ASSUME NEW source \in {"", "execution", "portal", "log"}, NEW days \in 0..1, NEW shown, shown = Filtered(days, source)
          PROVE  /\ Totals(shown).events = BySource(shown)["execution"] + BySource(shown)["portal"] + BySource(shown)["log"]
                 /\ \A page \in Groups(shown) :
                       IF Cardinality(AllGroups(shown)) <= GroupLimit
                       THEN Occurrences(page) = Totals(shown).events ELSE Occurrences(page) < Totals(shown).events
        <3>1. shown \in SUBSET events
            BY <2>3 DEF Filtered
        <3>2. Countable(shown)
            BY <3>1, <2>2, TableCounts, CountOfPart
        <3>3. \A e \in shown : e.source \in {"execution", "portal", "log"}
            BY <3>1, <2>2 DEF Table, IsEvent
        <3>4. \A e \in shown : 1 <= e.count
            BY <3>1, <2>2 DEF Table, IsEvent
        <3>5. Totals(shown).events = Occurrences(shown)
            BY DEF Totals
        <3>6. ASSUME NEW page \in Groups(shown)
              PROVE  IF Cardinality(AllGroups(shown)) <= GroupLimit
                     THEN Occurrences(page) = Totals(shown).events ELSE Occurrences(page) < Totals(shown).events
            BY <3>2, <3>4, <3>5, <3>6, PageShows
        <3> QED BY <3>2, <3>3, <3>6, PageAddsUp
    <2> QED BY <2>2, <2>3 DEF ErrorsAddUp, Counters, Apart
<1> QED BY <1>1, <1>2, <1>3, PTL DEF ErrSpec
================================================================================
