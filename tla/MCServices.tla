------------------------------ MODULE MCServices ------------------------------
(* The services around the core on small instances.  Each has tables and   *)
(* actors of its own, so a behaviour is of one of them while the others    *)
(* stay in one of their initial states.                                    *)
EXTENDS ErrorLog, SessionShares, ChatRun, SessionMetadata, DelegationSources, DelegationForm, Members

Said(role, text, images, others, blocks, answered) ==
    [role |-> role, text |-> text, images |-> images, others |-> others, blocks |-> blocks, answered |-> answered]
MCSession == <<Said("user", TRUE, {"f1"}, {}, FALSE, FALSE), Said("assistant", TRUE, {}, {}, FALSE, FALSE)>>

\* Delegations: one of each source, with and without conditions.
Wants(place, labels, drafts, statuses) == [place |-> place, labels |-> labels, drafts |-> drafts, statuses |-> statuses]
Watch(source, wants, skips) == [source |-> source, wants |-> wants, skips |-> skips]
Anything == Wants("", {}, TRUE, {})
MCRules ==
    { Watch("github_pr_review", Wants("here", {"go"}, FALSE, {}), FALSE), Watch("github_pr_review", Anything, FALSE),
      Watch("github_pr_mention", Anything, FALSE), Watch("jira_assignee", Wants("here", {"go"}, TRUE, {}), FALSE),
      Watch("jira_mention", Anything, FALSE), Watch("jira_status", Wants("", {}, TRUE, {"test", "done"}), FALSE),
      Watch("timer", Anything, FALSE), Watch("timer", Anything, TRUE) }

Slot(type, expression, zone, every, misfire, overlap) ==
    [type |-> type, expression |-> expression, zone |-> zone, every |-> every, misfire |-> misfire, overlap |-> overlap]
EveryTwo == Slot("interval", "", "", 2, "", "")
MCSchedules ==
    { Slot("", "", "", Never, "", ""), EveryTwo, Slot("", "hourly", "", Never, "", "allow"), Slot("interval", "", "", 0, "", ""),
      Slot("cron", "bad", "", Never, "", ""), Slot("cron", "hourly", "XX", Never, "", ""),
      Slot("cron", "hourly", "UTC", Never, "later", ""), Slot("daily", "", "", 2, "", "") }

Conn(found, github, jira, rows) == [found |-> found, github |-> github, jira |-> jira, rows |-> rows]
JiraRow(name, on, url, auth)    == [name |-> name, on |-> on, url |-> url, auth |-> auth]
MCConnections ==
    { Conn(FALSE, FALSE, FALSE, <<>>),
      Conn(TRUE, TRUE, TRUE, <<JiraRow("two", FALSE, "u2", TRUE), JiraRow("one", TRUE, "u1", TRUE)>>),
      Conn(TRUE, TRUE, TRUE, <<JiraRow("", TRUE, "two", TRUE), JiraRow("one", TRUE, "u1", FALSE)>>) }

Post(source, scope, schedule, on) ==
    [source |-> source, scope |-> scope, conditions |-> {"status", "labels", "authors"}, prompt |-> source = "timer",
     schedule |-> schedule, enabled |-> on]
MCPosts == {Post("github_pr_review", "", s, FALSE) : s \in MCSchedules} \cup {Post("timer", "one", s, TRUE) : s \in MCSchedules}
             \cup {Post("jira_status", scope, EveryTwo, TRUE) : scope \in {"", "one"}}
MCEdits ==
    { [enabled |-> TRUE], [enabled |-> FALSE], [schedule |-> Slot("", "hourly", "", Never, "", "")],
      [schedule |-> Slot("", "", "", Never, "", ""), enabled |-> TRUE], [source |-> "timer", prompt |-> TRUE],
      [source |-> "jira_status", conditions |-> {"status", "authors"}, scope |-> "one"], [source |-> "github_pr_review"],
      [conditions |-> {}], [prompt |-> FALSE] }

-----------------------------------------------------------------------------
VARIABLE part

Services == {"errors", "shares", "chat", "metadata", "sources", "form", "members"}

\* A service that is not the behaviour's own stays in one initial state; a link there is
\* from the start is open to anyone.
Pinned ==
    /\ share = NoShare \/ (part = "shares" /\ share.scope = "anyone")
    /\ part # "sources" => watch = Watch("timer", Anything, FALSE)
    /\ part # "form" => ~saved.found
    /\ part # "members" => \A p \in Person : accounts[p] = "none" /\ entry[p] = NoEntryYet

Init == /\ part \in Services /\ ErrInit /\ ShareInit /\ ChatInit /\ MetaInit /\ SrcInit /\ FormRowInit /\ MembersInit
        /\ Pinned

\* Each state names the tables that stay: all but those of the part.
OthersStay ==
    /\ part # "errors" => UNCHANGED errVars
    /\ part # "shares" => UNCHANGED shareVars
    /\ part # "chat" => UNCHANGED chatVars
    /\ part # "metadata" => UNCHANGED metaVars
    /\ part # "sources" => UNCHANGED srcVars
    /\ part # "form" => UNCHANGED formRowVars
    /\ part # "members" => UNCHANGED memberVars
Next ==
    /\ UNCHANGED part
    /\ OthersStay
    /\ \/ part = "errors" /\ ErrNext
       \/ part = "shares" /\ ShareNext
       \/ part = "chat" /\ ChatNext
       \/ part = "metadata" /\ MetaNext
       \/ part = "sources" /\ SrcNext
       \/ part = "form" /\ FormRowNext
       \/ part = "members" /\ MembersNext

allVars == <<errVars, shareVars, chatVars, metaVars, srcVars, formRowVars, memberVars, part>>
Spec == Init /\ [][Next]_allVars /\ ShareFairness
=============================================================================
