------------------------------- MODULE Members -------------------------------
(***************************************************************************)
(* Who may use the Portal: accounts, the allowlist, the requests of        *)
(* administrators that change either, sign-in through the company's SSO    *)
(* and GitHub's device flow, and what start-up puts right.  Requests run   *)
(* on threads; each step below ends with a commit or reads what the next   *)
(* one is decided on.                                                      *)
(***************************************************************************)
EXTENDS Integers, FiniteSets

CONSTANTS
    Person,
    Bootstrap,      \* the configured bootstrap administrator
    HasPassword,    \* the deployment sets a password for it
    Listed,         \* names the deployment allowlists
    Clerk,          \* requests of administrators that run at once
    Visitor,        \* requests that sign somebody in
    CheckInterval, Lifetime,    \* of the device flow: between two checks, until it expires
    MaxDeeds, MaxMoment     \* bounds: requests, time

ASSUME MembersAssumption == /\ IsFiniteSet(Person) /\ Bootstrap \in Person /\ Listed \subseteq Person
                             /\ HasPassword \in BOOLEAN /\ CheckInterval \in Nat

VARIABLES
    accounts,       \* per person: "none" or the role of the account
    entry,          \* per person: the role of the allowlist entry and whether it is active
    profile,        \* per person: the model provider of the settings row, "none" without a row
    clerk, visitor, \* the requests under way
    device,         \* the sign-in with GitHub under way: its record at the Portal, and at GitHub
    moment, serving, deeds,
    muddled         \* history: persons whose roles two requests wrote at once, or one in part,
                    \* or whom start-up gave an entry that is not their account's

memberVars == <<accounts, entry, profile, clerk, visitor, device, moment, serving, deeds, muddled>>

MemberRoles == {"admin", "user"}
NoEntryYet  == [role |-> "none", active |-> FALSE]
Ready       == [at |-> "ready", who |-> Bootstrap, role |-> "user", by |-> "sso", read |-> "none"]
NoDevice    == [known |-> FALSE, last |-> 0, wait |-> CheckInterval, until |-> 0, github |-> "none"]

Allowed(p)        == entry[p].active
EffectiveAdmin(p) == accounts[p] = "admin" /\ Allowed(p)
EffectiveAdmins   == {p \in Person : EffectiveAdmin(p)}

\* The database of an earlier version: accounts and entries that agree; an entry may be inactive.
MembersInit ==
    /\ accounts \in [Person -> {"none"} \cup MemberRoles]
    /\ entry \in [Person -> {NoEntryYet} \cup [role : MemberRoles, active : BOOLEAN]]
    /\ \A p \in Person : accounts[p] # "none" /\ entry[p] # NoEntryYet => entry[p].role = accounts[p]
    /\ profile = [p \in Person |-> "none"]
    /\ clerk = [c \in Clerk |-> Ready] /\ visitor = [v \in Visitor |-> Ready] /\ device = NoDevice
    /\ moment = 0 /\ serving = FALSE /\ deeds = 0 /\ muddled = {}

Deed == serving /\ deeds < MaxDeeds /\ deeds' = deeds + 1

-----------------------------------------------------------------------------
(* Start-up, alone in the database.                                        *)

\* Names of the deployment get an entry, or theirs back; a role they have stays.
ListedIn(entries) ==
    [p \in Person |-> IF p \notin Listed THEN entries[p]
                      ELSE [role |-> IF entries[p] = NoEntryYet THEN "user" ELSE entries[p].role, active |-> TRUE]]
\* The bootstrap administrator is created or promoted when there is a password for it.
Promotes == accounts[Bootstrap] = "admin" \/ HasPassword
\* An administrator who was removed and is listed comes back as a user with an
\* administrator's account.
Relisted == {p \in Listed : entry[p] = NoEntryYet /\ accounts[p] = "admin" /\ ~(Promotes /\ p = Bootstrap)}
StartUp ==
    /\ ~serving /\ serving' = TRUE
    /\ accounts' = IF Promotes THEN [accounts EXCEPT ![Bootstrap] = "admin"] ELSE accounts
    /\ entry' = IF Promotes THEN [ListedIn(entry) EXCEPT ![Bootstrap] = [role |-> "admin", active |-> TRUE]]
                ELSE ListedIn(entry)
    /\ profile' = [p \in Person |-> IF accounts'[p] # "none" /\ profile[p] = "none" THEN "seeded" ELSE profile[p]]
    /\ muddled' = muddled \cup Relisted
    /\ UNCHANGED <<clerk, visitor, device, moment, deeds>>

\* What requests had under way stays as far as they had come; the device flows are forgotten,
\* the cookies are not.
Busy(r)   == r.at # "ready"
InPart    == {clerk[c].who : c \in {k \in Clerk : Busy(clerk[k])}}
ShutDown ==
    /\ serving /\ serving' = FALSE /\ deeds < MaxDeeds /\ deeds' = deeds + 1
    /\ clerk' = [c \in Clerk |-> Ready] /\ device' = NoDevice
    /\ visitor' = [v \in Visitor |-> IF visitor[v].at = "in" THEN visitor[v] ELSE Ready]
    /\ muddled' = muddled \cup InPart
    /\ UNCHANGED <<accounts, entry, profile, moment>>

-----------------------------------------------------------------------------
(* User Management.                                                        *)

\* Two requests about the same person's roles.
Touched(p) == {c \in Clerk : Busy(clerk[c]) /\ clerk[c].who = p}
                \cup {v \in Visitor : visitor[v].at = "create" /\ visitor[v].who = p}
Mixed(p)   == muddled' = IF Touched(p) = {} THEN muddled ELSE muddled \cup {p}
ClerkGoes(c, r) == clerk' = [clerk EXCEPT ![c] = r]
For(c, p, role, at) == /\ ~Busy(clerk[c]) /\ Deed /\ Mixed(p)
                       /\ ClerkGoes(c, [at |-> at, who |-> p, role |-> role, by |-> "admin", read |-> accounts[p]])

\* Adding a name, alone or one of many: refused, or passed over, when it is active already.
Allow(c, admin, p, role) ==
    /\ EffectiveAdmin(admin) /\ ~Allowed(p) /\ For(c, p, role, "entry")
    /\ UNCHANGED <<accounts, entry, profile, visitor, device, moment, serving>>

CreateUser(c, admin, p, role) ==
    /\ EffectiveAdmin(admin) /\ accounts[p] = "none" /\ For(c, p, role, "entry of new")
    /\ UNCHANGED <<accounts, entry, profile, visitor, device, moment, serving>>

WriteEntry(c) ==
    /\ clerk[c].at \in {"entry", "entry of new"}
    /\ entry' = [entry EXCEPT ![clerk[c].who] = [role |-> clerk[c].role, active |-> TRUE]]
    /\ ClerkGoes(c, [clerk[c] EXCEPT !.at = IF @ = "entry" THEN "account" ELSE "new account"])
    /\ UNCHANGED <<accounts, profile, visitor, device, moment, serving, deeds, muddled>>

\* An account there is gets the role of the entry.
WriteAccount(c) ==
    /\ clerk[c].at = "account"
    /\ accounts' = [accounts EXCEPT ![clerk[c].who] = IF @ = "none" THEN @ ELSE clerk[c].role]
    /\ ClerkGoes(c, Ready)
    /\ UNCHANGED <<entry, profile, visitor, device, moment, serving, deeds, muddled>>

\* The name may be taken by now: the request fails, the entry stays.
WriteNewAccount(c) ==
    LET p == clerk[c].who IN
    /\ clerk[c].at = "new account" /\ ClerkGoes(c, Ready)
    /\ IF accounts[p] # "none" THEN UNCHANGED <<accounts, profile>>
       ELSE accounts' = [accounts EXCEPT ![p] = clerk[c].role] /\ profile' = [profile EXCEPT ![p] = "seeded"]
    /\ UNCHANGED <<entry, visitor, device, moment, serving, deeds, muddled>>

LastAdmin(p) == EffectiveAdmin(p) /\ Cardinality(EffectiveAdmins) <= 1
\* Mutant: nobody stands up for the bootstrap administrator.
MayLoseUnlessLast(admin, p) == p # admin /\ ~LastAdmin(p)
\* Never the bootstrap administrator, oneself or the last effective administrator.
MayLose(admin, p) == p # Bootstrap /\ p # admin /\ ~LastAdmin(p)

ChangeRole(c, admin, p, role) ==
    /\ EffectiveAdmin(admin) /\ accounts[p] # "none" /\ (role # "admin" => MayLose(admin, p)) /\ For(c, p, role, "role")
    /\ UNCHANGED <<accounts, entry, profile, visitor, device, moment, serving>>
\* A role the request found already is not written.
WriteRole(c) ==
    /\ clerk[c].at = "role"
    /\ accounts' = [accounts EXCEPT ![clerk[c].who] = IF clerk[c].read = clerk[c].role THEN @ ELSE clerk[c].role]
    /\ ClerkGoes(c, [clerk[c] EXCEPT !.at = "role of entry"])
    /\ UNCHANGED <<entry, profile, visitor, device, moment, serving, deeds, muddled>>
WriteEntryRole(c) ==
    /\ clerk[c].at = "role of entry" /\ ClerkGoes(c, Ready)
    /\ entry' = [entry EXCEPT ![clerk[c].who].role = IF entry[clerk[c].who] = NoEntryYet THEN @ ELSE clerk[c].role]
    /\ UNCHANGED <<accounts, profile, visitor, device, moment, serving, deeds, muddled>>

\* By entry, of whoever may never have signed in, or by account, while it is allowed.
RemoveAccess(c, admin, p) ==
    /\ EffectiveAdmin(admin) /\ entry[p] # NoEntryYet /\ MayLose(admin, p) /\ For(c, p, "user", "remove")
    /\ UNCHANGED <<accounts, entry, profile, visitor, device, moment, serving>>
DeleteEntry(c) ==
    /\ clerk[c].at = "remove" /\ ClerkGoes(c, Ready)
    /\ entry' = [entry EXCEPT ![clerk[c].who] = NoEntryYet]
    /\ UNCHANGED <<accounts, profile, visitor, device, moment, serving, deeds, muddled>>

ClerkStep(c) == WriteEntry(c) \/ WriteAccount(c) \/ WriteNewAccount(c) \/ WriteRole(c) \/ WriteEntryRole(c) \/ DeleteEntry(c)

-----------------------------------------------------------------------------
(* Signing in.                                                             *)

VisitorGoes(v, r) == visitor' = [visitor EXCEPT ![v] = r]

\* GitHub gives a code; the record expires, and is asked about no sooner than the interval.
StartDevice ==
    /\ Deed /\ ~device.known /\ device.github = "none"
    /\ device' = [NoDevice EXCEPT !.known = TRUE, !.last = moment, !.until = moment + Lifetime, !.github = "waiting"]
    /\ UNCHANGED <<accounts, entry, profile, clerk, visitor, moment, serving, muddled>>
\* At GitHub, in the member's browser.
DecideAtGitHub(how) ==
    /\ device.github = "waiting" /\ device' = [device EXCEPT !.github = how]
    /\ UNCHANGED <<accounts, entry, profile, clerk, visitor, moment, serving, deeds, muddled>>

\* A check too soon is answered without GitHub; one too late forgets the flow.
CheckDevice(v) ==
    /\ ~Busy(visitor[v]) /\ serving /\ device.known
    /\ IF moment - device.last <= device.wait THEN UNCHANGED <<visitor, device>>
       ELSE IF device.until <= moment THEN device' = [device EXCEPT !.known = FALSE] /\ UNCHANGED visitor
       ELSE VisitorGoes(v, [Ready EXCEPT !.at = "asking", !.by = "github"]) /\ UNCHANGED device
    /\ UNCHANGED <<accounts, entry, profile, clerk, moment, serving, deeds, muddled>>

\* GitHub gives the token once, and with it who it is of; an impatient page is told to wait longer.
GitHubAnswers(v, p) ==
    /\ visitor[v].at = "asking"
    /\ CASE device.github = "waiting" ->
              /\ VisitorGoes(v, Ready)
              /\ \E longer \in {0, 1} : device' = [device EXCEPT !.known = TRUE, !.last = moment, !.wait = IF device.known THEN @ + longer ELSE @]
         [] device.github = "approved" ->
              /\ VisitorGoes(v, [visitor[v] EXCEPT !.at = "look", !.who = p])
              /\ device' = [device EXCEPT !.known = FALSE, !.github = "given"]
         [] device.github = "declined" -> VisitorGoes(v, Ready) /\ device' = [device EXCEPT !.known = FALSE]
         [] OTHER -> VisitorGoes(v, Ready) /\ UNCHANGED device
    /\ UNCHANGED <<accounts, entry, profile, clerk, moment, serving, deeds, muddled>>

\* The identity provider says who it is: a member by the name without the enterprise's suffix.
ArriveBySSO(v, p) ==
    /\ ~Busy(visitor[v]) /\ Deed /\ VisitorGoes(v, [Ready EXCEPT !.at = "look", !.who = p])
    /\ UNCHANGED <<accounts, entry, profile, clerk, device, moment, serving, muddled>>

\* A new account takes the role of the entry, active or not.
LookUp(v) ==
    LET p == visitor[v].who IN
    /\ visitor[v].at = "look"
    /\ VisitorGoes(v, [visitor[v] EXCEPT !.at = IF accounts[p] = "none" THEN "create" ELSE "profile",
                                   !.role = IF entry[p].role \in MemberRoles THEN entry[p].role ELSE "user"])
    /\ muddled' = (IF accounts[p] = "none" /\ Touched(p) # {} THEN muddled \cup {p} ELSE muddled)
    /\ UNCHANGED <<accounts, entry, profile, clerk, device, moment, serving, deeds>>

\* Whoever comes second finds the account the first one made.
CreateAccount(v) ==
    /\ visitor[v].at = "create" /\ VisitorGoes(v, [visitor[v] EXCEPT !.at = "profile"])
    /\ accounts' = [accounts EXCEPT ![visitor[v].who] = IF @ = "none" THEN visitor[v].role ELSE @]
    /\ UNCHANGED <<entry, profile, clerk, device, moment, serving, deeds, muddled>>

\* The settings row, one for each member, from the Default connectors.
EnsureProfile(v) ==
    /\ visitor[v].at = "profile"
    /\ profile' = [profile EXCEPT ![visitor[v].who] = IF @ = "none" THEN "seeded" ELSE @]
    /\ VisitorGoes(v, [visitor[v] EXCEPT !.at = IF @ = "profile" /\ visitor[v].by = "github" THEN "token" ELSE "in"])
    /\ UNCHANGED <<accounts, entry, clerk, device, moment, serving, deeds, muddled>>

\* GitHub's token goes onto it, unless the member has chosen another provider.
Synced(p) == IF profile[p] = "ai_platform" THEN profile[p] ELSE "github_copilot"
SyncToken(v) ==
    /\ visitor[v].at = "token"
    /\ profile' = [profile EXCEPT ![visitor[v].who] = Synced(visitor[v].who)]
    /\ VisitorGoes(v, [visitor[v] EXCEPT !.at = "in"])
    /\ UNCHANGED <<accounts, entry, clerk, device, moment, serving, deeds, muddled>>

\* The cookie holds the account's id for a year; each request looks the account and an
\* active entry up again.
HasSession(v) == visitor[v].at = "in"
SignedIn(v) == HasSession(v) /\ accounts[visitor[v].who] # "none"
MayUse(v)   == SignedIn(v) /\ Allowed(visitor[v].who)
SignOut(v)  == /\ HasSession(v) /\ VisitorGoes(v, Ready)
               /\ UNCHANGED <<accounts, entry, profile, clerk, device, moment, serving, deeds, muddled>>
ChooseProvider(p) ==
    /\ Deed /\ profile[p] \in {"seeded", "github_copilot"} /\ profile' = [profile EXCEPT ![p] = "ai_platform"]
    /\ UNCHANGED <<accounts, entry, clerk, visitor, device, moment, serving, muddled>>

LaterOn == /\ device.known /\ moment < MaxMoment /\ moment' = moment + 1
           /\ UNCHANGED <<accounts, entry, profile, clerk, visitor, device, serving, deeds, muddled>>

VisitorStep(v) == CheckDevice(v) \/ LookUp(v) \/ CreateAccount(v) \/ EnsureProfile(v) \/ SyncToken(v) \/ SignOut(v)

MembersNext ==
    \/ StartUp \/ ShutDown \/ StartDevice \/ LaterOn
    \/ \E how \in {"approved", "declined"} : DecideAtGitHub(how)
    \/ \E c \in Clerk : ClerkStep(c)
    \/ \E c \in Clerk, admin, p \in Person : RemoveAccess(c, admin, p)
    \/ \E c \in Clerk, admin, p \in Person, role \in MemberRoles :
           Allow(c, admin, p, role) \/ CreateUser(c, admin, p, role) \/ ChangeRole(c, admin, p, role)
    \/ \E v \in Visitor : VisitorStep(v)
    \/ \E v \in Visitor, p \in Person : ArriveBySSO(v, p) \/ GitHubAnswers(v, p)
    \/ \E p \in Person : ChooseProvider(p)

MembersSpec == MembersInit /\ [][MembersNext]_memberVars

-----------------------------------------------------------------------------
\* The Members panel: rows of accounts, entries nobody has used yet.
Overview == [total   |-> Cardinality({p \in Person : accounts[p] # "none"}),
             allowed |-> Cardinality({p \in Person : accounts[p] # "none" /\ Allowed(p)}),
             admins  |-> Cardinality(EffectiveAdmins),
             pending |-> Cardinality({p \in Person : accounts[p] = "none" /\ entry[p] # NoEntryYet})]
-----------------------------------------------------------------------------
\* Whoever removes, demotes, adds and signs in beside whom: as long as the Portal serves, the
\* bootstrap administrator it has a password for can administer it, and the panel counts an
\* administrator (without a password two requests at once may remove the last ones).  A role
\* of an account is that of its entry, but for three cases: two requests about the person ran
\* at once; one broke off; start-up listed an administrator again whose entry had been removed,
\* with an entry for a user.  Whoever signed in has an account and a settings row, with
\* GitHub's token when they came through GitHub and use its models.
MembersHold ==
    /\ serving /\ HasPassword => EffectiveAdmin(Bootstrap) /\ Overview.admins >= 1
    /\ serving => \A p \in Person \ muddled :
         accounts[p] # "none" /\ entry[p] # NoEntryYet /\ Touched(p) = {} => accounts[p] = entry[p].role
    /\ \A v \in Visitor : HasSession(v) =>
         /\ SignedIn(v) /\ profile[visitor[v].who] # "none"
         /\ visitor[v].by = "github" => profile[visitor[v].who] \in {"github_copilot", "ai_platform"}
=============================================================================
