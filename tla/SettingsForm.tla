---------------------------- MODULE SettingsForm ----------------------------
(***************************************************************************)
(* The Connectors pages: what a posted form makes of a member's settings   *)
(* row.  A form is of one connector: its plain fields, and its cards (one  *)
(* per row, with the name and address the row had when it was rendered).   *)
(* A field that is not posted keeps the stored value; one posted blank     *)
(* clears it.  A refused form leaves the row as it is.                     *)
(***************************************************************************)
EXTENDS ProfileSettings

Ticked(w)   == Lower(w) \in {"1", "true", "on", "yes"}
Switched(f) == "enabled" :> (IF Ticked(Text(f, "enabled")) THEN "true" ELSE "false")
Overlaid(m, f, ks) == Texts(f, ks) @@ Without(m, DOMAIN f \cap ks)
HasCards(form, k)  == k \in DOMAIN form

-----------------------------------------------------------------------------
(* Cards *)

Identity(w) == Lower(Site(w))
Unique(rows, P(_)) == IF Cardinality(Where(rows, P)) = 1 THEN FirstWith(rows, P, Nothing) ELSE Nothing

\* The stored row a card was rendered from: by name and address, else by the name alone,
\* else by the address, each only when it tells one row from all others.
Origin(card, rows) ==
    LET name == Identity(Text(card, "original_name"))
        url  == Identity(Text(card, "original_url"))
        isName(r) == Identity(Text(r, "name")) = name
        isUrl(r)  == Identity(Text(r, "url")) = url
        found == <<Unique(rows, LAMBDA r : isName(r) /\ isUrl(r)),
                   IF name = "" THEN Nothing ELSE Unique(rows, isName),
                   IF url = "" THEN Nothing ELSE Unique(rows, isUrl)>>
    IN  IF name = "" /\ url = "" THEN Nothing ELSE FirstWith(found, LAMBDA r : DOMAIN r # {}, Nothing)

\* ks: what the card posts; kept: what a card that does not carry it keeps of its row.
CardRow(card, ks, kept, rows) ==
    [k \in ks |->
        IF k = "enabled" THEN Switched(card).enabled
        ELSE IF k = "regions" THEN Rows(card, k)
        ELSE IF k \in kept /\ Ticked(Text(card, k \o "_clear")) THEN ""
        ELSE IF k \in kept /\ ~Has(card, k) THEN Text(Origin(card, rows), k)
        ELSE Text(card, k)]
CardRows(cards, ks, kept, rows) ==
    Filtered(Map(LAMBDA c : CardRow(c, ks, kept, rows), cards),
              LAMBDA r : Text(r, "name") # "" \/ Text(r, "url") # "")

TrackerFields == [jira |-> {"enabled", "name", "url", "username", "password", "token", "project", "api_version"},
                  confluence |-> {"enabled", "name", "url", "username", "password", "token", "space"},
                  jenkins |-> {"enabled", "name", "url", "username", "password", "token"}]
CardFields    == [nexus |-> {"enabled", "name", "url", "username", "password", "token"},
                  splunk |-> {"enabled", "name", "url", "username", "password", "token", "default_index",
                              "default_earliest", "max_results", "app", "owner"},
                  pgsql |-> {"enabled", "name", "host", "port", "database", "username", "password"}]
Required      == [nexus |-> {"url"}, splunk |-> {"url"}, pgsql |-> {"host", "database", "username"}]
CardSecrets   == {"password", "token"}
AccountFields == {"enabled", "name", "account_id", "role", "regions", "role_arn", "profile"}
ApiOnly       == {"role_arn", "profile"}
ClusterFields == {"enabled", "account", "cluster", "region", "private_endpoint", "server_ca", "tls_server_name"}
ProxyFields   == {"name", "url", "username", "password", "no_proxy"}

Typed(card, ks)  == \E k \in ks : Text(card, k) # ""
Nameless(cards, ks) == \E i \in DOMAIN cards : Text(cards[i], "name") = "" /\ Typed(cards[i], ks)
Repeated(rows, Key(_)) == \E i, j \in DOMAIN rows : i < j /\ Key(rows[i]) = Key(rows[j])
BadNumber(row, k, lo, hi) == Text(row, k) # "" /\ ~InRange(Text(row, k), lo, hi)
BadPort(row)    == Text(row, "port") # "" /\ ~IsPort(row.port)
BadResults(row) == BadNumber(row, "max_results", 1, 10000)
BadSession(f)   == BadNumber(f, "session_duration_seconds", 900, 43200)

-----------------------------------------------------------------------------
(* One section at a time: what the form makes of it, and when it is refused. *)

TrackerMerged(s, m, form) ==
    Switched(form.fields)
      @@ (IF HasCards(form, "cards")
            THEN "instances" :> CardRows(form.cards, TrackerFields[s], CardSecrets, Rows(m, "instances"))
            ELSE Nothing) @@ m

\* The single fields of a page from before there were cards are one instance.
JenkinsMerged(m, form) ==
    LET stored == JenkinsRows(m)
        name   == IF Empty(stored) \/ Text(stored[1], "name") = "" THEN "jenkins" ELSE stored[1].name
        flat   == ("name" :> name) @@ Texts(form.fields, {"url", "username", "password"})
    IN  IF HasCards(form, "cards") THEN TrackerMerged("jenkins", ("instances" :> stored) @@ m, form)
        ELSE IF DOMAIN form.fields \cap {"url", "username", "password"} # {}
          THEN Switched(form.fields) @@ ("instances" :> (IF Has(flat, "url") THEN <<flat>> ELSE <<>>)) @@ m
        ELSE Switched(form.fields) @@ m

GitHubMerged(m, f) == Switched(f) @@ Overlaid(m, f, {"api_token", "base_url"})
GitMerged(m, f) ==
    LET user == Overlaid(Sub(m, "user"), f, {"name", "email"}) IN KeptMap("user", user) @@ Without(m, {"user"})

\* The settings every PostgreSQL instance shares: blank is the runtime's default.
SharedForm(f)    == DOMAIN f \cap (SharedFields \cup {"access"})
Spelled(k, w)    == IF k = "access" THEN Access(w) ELSE Shared(k, w)
SharedRefused(f) == \E k \in SharedForm(f) : f[k] # "" /\ Spelled(k, f[k]) = ""
SharedMerged(m, f) ==
    IF SharedForm(f) = {} THEN m
    ELSE [k \in {x \in SharedForm(f) : f[x] # ""} |-> Spelled(k, f[k])]
           @@ (IF Has(m, "instances")
                 THEN "instances" :> Map(LAMBDA r : Without(r, SharedFields \cup {"proxy"}), m.instances) ELSE Nothing)
           @@ Without(m, SharedForm(f))

NamedMerged(s, m, form) ==
    LET listed == Switched(form.fields)
                    @@ (IF HasCards(form, "cards")
                          THEN "instances" :> CardRows(form.cards, CardFields[s], CardSecrets, Rows(m, "instances"))
                          ELSE Nothing)
                    @@ Overlaid(m, form.fields, {"default_instance"})
    IN  IF s = "pgsql" THEN SharedMerged(listed, form.fields) ELSE listed
NamedRowRefused(s, merged, form) ==
    LET rows == Rows(merged, "instances")
    IN  \/ /\ HasCards(form, "cards")
           /\ \/ Nameless(form.cards, CardFields[s] \ {"enabled", "name"})
              \/ Repeated(rows, FoldedName)
              \/ \E i \in DOMAIN rows : (\E k \in Required[s] : Text(rows[i], k) = "") \/ BadPort(rows[i]) \/ BadResults(rows[i])
        \/ s = "pgsql" /\ SharedRefused(form.fields)
        \/ ~DefaultInstanceHolds(merged)
NamedRefused(s, m, form) == NamedRowRefused(s, NamedMerged(s, m, form), form)

AwsTexts == {"domain", "username", "password", "provider", "idp_url", "source_profile", "default_account",
             "default_region", "kubeconfig_path"}
ClusterCards(cards) ==
    Filtered(Map(LAMBDA c : CardRow(c, ClusterFields, {}, <<>>), cards),
              LAMBDA r : Typed(r, ClusterFields \ {"enabled"}))
AwsMerged(m, form) ==
    Switched(form.fields)
      @@ (IF HasCards(form, "cards")
            THEN "accounts" :> CardRows(form.cards, AccountFields, ApiOnly, Rows(m, "accounts")) ELSE Nothing)
      @@ (IF HasCards(form, "clusters") THEN "eks_clusters" :> ClusterCards(form.clusters) ELSE Nothing)
      @@ Overlaid(m, form.fields, AwsTexts \cup {"session_duration_seconds"})
Unsupported(row) == \E i \in DOMAIN Rows(row, "regions") : Lower(row["regions"][i]) \notin Regions
AwsRowRefused(merged, form) ==
    LET accounts == Rows(merged, "accounts")
        clusters == Rows(merged, "eks_clusters")
        f        == form.fields
    IN  \/ Text(f, "provider") # "" /\ Lower(f.provider) \notin AwsProviders
        \/ Text(f, "default_region") # "" /\ Lower(f.default_region) \notin Regions
        \/ BadSession(f)
        \/ /\ HasCards(form, "cards")
           /\ \/ Nameless(form.cards, {"account_id", "role"})
              \/ \E i \in DOMAIN form.cards : Text(form.cards[i], "name") = "" /\ ~Empty(Rows(form.cards[i], "regions"))
              \/ Repeated(accounts, FoldedName)
              \/ \E i \in DOMAIN accounts : Text(accounts[i], "account_id") \notin AccountIds \/ Unsupported(accounts[i])
        \/ /\ HasCards(form, "clusters")
           /\ \/ ~ClusterAccountsHold(merged)
              \/ \E i \in DOMAIN clusters :
                    \/ ~UsableCluster(clusters[i])
                    \/ Text(clusters[i], "server_ca") # "" /\ Lower(clusters[i].server_ca) \notin {"cluster", "system"}
              \/ Repeated(clusters, ClusterKey)
        \/ ~DefaultAccountHolds(merged)
AwsRefused(m, form) == AwsRowRefused(AwsMerged(m, form), form)

\* The cards, or the single address of a page from before there were cards, which
\* rewrites the default proxy and leaves the others.
ProxyCards(m, form) == CardRows(form.cards, ProxyFields, {"password"}, Rows(Proxy(m), "proxies"))
SingleEntry(f, name, stored) ==
    ("name" :> name) @@ Only(stored, {"no_proxy"})
      @@ Only(Overlaid(stored, f, {"url", "username", "password"}), {"url", "username", "password"})
Before(entry, rows) == [i \in 1..Cardinality(DOMAIN rows) + 1 |-> IF i = 1 THEN entry ELSE rows[i - 1]]
WithEntry(rows, entry) ==
    IF ~Has(entry, "url") THEN Filtered(rows, LAMBDA r : r.name # entry.name)
    ELSE IF entry.name \notin NamesOf(rows) THEN Before(entry, rows)
    ELSE Map(LAMBDA r : IF r.name = entry.name THEN entry ELSE r, rows)
\* current: the section as the sanitizer reads it.
SingleProxy(f, current) ==
    LET name == IF Text(current, "default") = "" THEN "default" ELSE current.default
        at   == FirstWith(Rows(current, "proxies"), LAMBDA r : r.name = name, Nothing)
    IN  Switched(f) @@ Only(current, {"assignments"})
          @@ DefaultAmong(WithEntry(Rows(current, "proxies"), SingleEntry(f, name, at)), name)
CardProxy(rows, form) ==
    LET chosen == Texts(Sub(form, "assign"), Assignable)
    IN  Switched(form.fields)
          @@ (IF Empty(rows) THEN Nothing
              ELSE [proxies |-> rows,
                    default |-> IF Text(form.fields, "default") = "" THEN rows[1].name ELSE form.fields.default])
          @@ KeptMap("assignments", [c \in DOMAIN chosen |-> IF Lower(chosen[c]) = "none" THEN "none" ELSE chosen[c]])
ProxyMerged(m, form) ==
    IF ~HasCards(form, "cards") THEN SingleProxy(form.fields, Proxy(m))
    ELSE CardProxy(Map(LAMBDA r : Texts(r, ProxyFields), ProxyCards(m, form)), form)
\* Mutant: an address no proxy can have is let pass.
ProxyUnchecked(m, form) == HasCards(form, "cards") /\ Repeated(ProxyCards(m, form), FoldedName)

ProxyRowsRefused(rows, form) ==
    LET names  == NamesOf(rows)
        chosen == Texts(Sub(form, "assign"), Assignable)
    IN  \/ \E i \in DOMAIN rows : Text(rows[i], "name") \notin ProxyNames \/ ProxyUrl(Text(rows[i], "url")) = ""
        \/ Repeated(rows, FoldedName)
        \/ ~Empty(rows) /\ Text(form.fields, "default") \notin names \cup {""}
        \/ \E c \in DOMAIN chosen : Lower(chosen[c]) # "none" /\ chosen[c] \notin names
ProxyRefused(m, form) == HasCards(form, "cards") /\ ProxyRowsRefused(ProxyCards(m, form), form)

HubAddresses == {w \in DOMAIN Address : Address[w].scheme = "https" /\ Address[w].host = "browserstack.com"}
DeviceForm   == {"platform", "network_mode", "idle_timeout_seconds", "appium_version", "video", "interactive_debugging"}
MobileMerged(m, f) ==
    LET hub == Overlaid(Sub(m, "browserstack"), f, {"username", "access_key", "appium_base_url", "api_base_url"})
    IN  Switched(f) @@ ("default_provider" :> "browserstack")
          @@ KeptMap("defaults", Overlaid(Sub(m, "defaults"), f, DeviceForm))
          @@ KeptMap("browserstack", IF Ticked(Text(f, "access_key_clear")) /\ ~Has(f, "access_key")
                                       THEN Without(hub, {"access_key"}) ELSE hub)
          @@ Without(m, {"defaults", "browserstack"})
MobileRefused(f) ==
    \/ Lower(Text(f, "platform")) \notin {"", "android", "ios"}
    \/ Lower(Text(f, "network_mode")) \notin {"", "public", "private-managed", "private-external"}
    \/ BadNumber(f, "idle_timeout_seconds", 30, 300)
    \/ Text(f, "appium_version") \notin Versions \cup {""}
    \/ \E k \in {"appium_base_url", "api_base_url"} : Text(f, k) \notin HubAddresses \cup {""}

\* The account of AI Platform: the password alone survives being left blank.
LlmMerged(llm, f) ==
    LET chosen == Overlaid(llm, f, {"provider", "model", "reasoning_effort", "max_context_tokens", "max_tokens",
                                    "api_key"})
        ai     == Provider(Lower(Text(chosen, "provider"))) = AiPlatform
        stored == Sub(Sub(llm, "ai_platform"), "auth")
        auth   == Texts(f, {"username", "usercase", "password"})
                    @@ (IF Ticked(Text(f, "password_clear")) THEN Nothing ELSE Texts(stored, {"password"}))
    IN  IF ai THEN ("ai_platform" :> ("auth" :> auth)) @@ Without(chosen, {"api_key"})
        ELSE Without(chosen, {"ai_platform"} \cup IF Ticked(Text(f, "api_key_clear")) /\ Text(f, "api_key") = ""
                                                    THEN {"api_key"} ELSE {})
LlmRefused(cat, llm, f) ==
    LET merged == LlmMerged(llm, f)
        p      == Lower(Text(merged, "provider"))
        m      == Text(merged, "model")
    IN  \/ Has(f, "reasoning_effort") /\ Lower(f.reasoning_effort) \notin EffortOptions(cat, p, m)
        \/ Has(f, "max_context_tokens")
             /\ ~\E size \in Sizes(cat, p, m) : InRange(f.max_context_tokens, 1000 * size, 1000 * size)
        \/ Text(f, "max_tokens") \notin DOMAIN Number \cup {""}
        \/ Provider(p) = AiPlatform /\ DOMAIN merged.ai_platform.auth # {"username", "usercase", "password"}

-----------------------------------------------------------------------------
(* The whole form *)

Merged(config, form) ==
    LET s == form.section
        m == Sub(config, s)
    IN  (s :> CASE s \in {"jira", "confluence"} -> TrackerMerged(s, m, form)
                [] s = "jenkins" -> JenkinsMerged(m, form)
                [] s = "github" -> GitHubMerged(m, form.fields)
                [] s \in Named -> NamedMerged(s, m, form)
                [] s = "aws" -> AwsMerged(m, form)
                [] s = "proxy" -> ProxyMerged(m, form)
                [] s = "mobile-auto" -> MobileMerged(m, form.fields)
                [] s = "git" -> GitMerged(m, form.fields)
                [] s = "llm" -> LlmMerged(m, form.fields)) @@ config

Refused(cat, config, form) ==
    LET m == Sub(config, form.section)
    IN  CASE form.section \in Named -> NamedRefused(form.section, m, form)
          [] form.section = "aws" -> AwsRefused(m, form)
          [] form.section = "proxy" -> ProxyRefused(m, form)
          [] form.section = "mobile-auto" -> MobileRefused(form.fields)
          [] form.section = "llm" -> LlmRefused(cat, m, form.fields)
          [] OTHER -> FALSE

Saved(cat, config, form) == Canonical(cat, Sanitized(Merged(config, form)))

-----------------------------------------------------------------------------
CONSTANTS
    Forms,          \* the forms that may be posted
    Given,          \* the configs a client of the API may send whole
    Catalogs,       \* what may be registered of Copilot's models
    MaxSections     \* bound: sections a row holds at once

\* The fields of a section that are lists of rows.
ListFields(s) ==
    CASE s \in {"jira", "confluence", "jenkins"} \cup Named -> {"instances"}
      [] s = "aws" -> {"accounts", "eks_clusters"}
      [] s = "proxy" -> {"proxies"}
      [] OTHER -> {}
ListsHold(s, m) ==
    /\ \A k \in ListFields(s) : IsList(Rows(m, k))
    /\ s = "aws" => \A i \in DOMAIN Rows(m, "accounts") : IsList(Rows(m["accounts"][i], "regions"))

\* What is posted or sent has lists where lists belong.
ASSUME FormsAssumption ==
    /\ \A form \in Forms :
          /\ IsList(Rows(form, "cards")) /\ IsList(Rows(form, "clusters"))
          /\ \A i \in DOMAIN Rows(form, "cards") : IsList(Rows(form["cards"][i], "regions"))
    /\ \A given \in Given : \A s \in DOMAIN given : ListsHold(s, given[s])

VARIABLES config, catalog

formVars == <<config, catalog>>

FormInit == config = Nothing /\ catalog = NoCatalog

Post(form) ==
    /\ Cardinality(DOMAIN config \cup {form.section}) <= MaxSections
    /\ ~Refused(catalog, config, form)
    /\ config' = Saved(catalog, config, form)
    /\ UNCHANGED catalog

Refuse(form) ==
    /\ Refused(catalog, config, form)
    /\ UNCHANGED formVars

\* An API client replaces the whole row; its references are not checked.
Replace(given) ==
    /\ config' = Canonical(catalog, Sanitized(given))
    /\ UNCHANGED catalog

\* A runtime reported its models.
Registered(cat) == catalog' = cat /\ UNCHANGED config

FormNext ==
    \/ \E form \in Forms : Post(form) \/ Refuse(form)
    \/ \E given \in Given : Replace(given)
    \/ \E cat \in Catalogs : Registered(cat)

FormSpec == FormInit /\ [][FormNext]_formVars

-----------------------------------------------------------------------------
\* Reading the row again gives the row: a stored value the next read, save or comparison
\* with the Default connectors would take for another one never arises.  And a proxy is
\* only referred to by the name of one that is there, whatever shapes the row came in.
SettingsSettle ==
    LET proxy == Sub(config, "proxy")
        names == NamesOf(Rows(proxy, "proxies"))
    IN
    /\ Sanitized(config) = config
    /\ \A cat \in Catalogs \cup {NoCatalog} :
          LET once == Canonical(cat, config) IN Canonical(cat, once) = once
    /\ names # {} => Text(proxy, "default") \in names
    /\ \A c \in DOMAIN Sub(proxy, "assignments") : proxy.assignments[c] \in names \cup {"none"}

\* The rows a form posts, by name, that its pages promise to keep or to refuse.
PostedNames(form) ==
    IF ~HasCards(form, "cards") THEN {}
    ELSE {Text(form.cards[i], "name") : i \in DOMAIN form.cards} \ {""}
StoredNames(s, m) ==
    NamesOf(Rows(m, CASE s = "aws" -> "accounts" [] s = "proxy" -> "proxies" [] OTHER -> "instances"))

\* A card with an address is an instance of its name at that address.
SitesStored(cards, rows) ==
    \A i \in DOMAIN cards : Text(cards[i], "url") # "" =>
        \E n \in DOMAIN rows : Text(rows[n], "name") = Text(cards[i], "name") /\ Text(rows[n], "url") = Site(Text(cards[i], "url"))
\* Every region of an account's card is one of the account's.
RegionsStored(cards, rows) ==
    \A i \in DOMAIN cards : \A j \in DOMAIN Rows(cards[i], "regions") :
        \E n \in DOMAIN rows : \E k \in DOMAIN Rows(rows[n], "regions") :
            Text(rows[n], "name") = Text(cards[i], "name") /\ rows[n]["regions"][k] = Lower(cards[i]["regions"][j])
\* A card with anything in it is a cluster of its account, region and name.
ClustersStored(cards, rows) ==
    \A i \in DOMAIN cards : Typed(cards[i], ClusterFields \ {"enabled"}) =>
        \E n \in DOMAIN rows : ClusterKey(rows[n]) = ClusterKey(cards[i])

LosesNothing(form, saved) ==
    LET s == form.section
        m == Sub(saved, s)
    IN
    /\ s \in Named \cup {"aws", "proxy"} => PostedNames(form) \subseteq StoredNames(s, m)
    /\ s \in {"jira", "confluence", "jenkins"} => SitesStored(Rows(form, "cards"), Rows(m, "instances"))
    /\ s = "aws" => /\ RegionsStored(Rows(form, "cards"), Rows(m, "accounts"))
                    /\ ClustersStored(Rows(form, "clusters"), Rows(m, "eks_clusters"))
    /\ \A t \in (DOMAIN config \cup DOMAIN saved) \ {s, "llm"} : ~Differs(config, saved, t)

\* The checks of a form let pass only what the sanitizer keeps.  Of a form that is not refused
\* what is stored has every Nexus, Splunk and PostgreSQL instance, AWS account and proxy that
\* has a name, with the account's regions; every EKS cluster with anything typed in; and every
\* Jira, Confluence and Jenkins card with an address.  A card of those three with a name and no
\* address is the exception: the form takes it and the sanitizer drops it.  Of a card's other
\* fields nothing is said here: one that is posted blank is cleared, a secret too.  The sections
\* of the other connectors are as they were, but the model of a member, which canonicalising
\* repairs on every save.
AcceptedIsKept ==
    \A form \in Forms : Refused(catalog, config, form) \/ LosesNothing(form, Saved(catalog, config, form))

\* The word at that place is the sealing of what the row has there.
SealedFrom(secret, stored) == \E plain \in stored : plain[1] = secret[1] /\ secret[2] = Encrypted(plain[2])

Covers(said) == \A path \in said.secrets : path[1] \in said.sections

\* What the API answers with holds no secret and no name and password in an address; what
\* goes into the Secret holds none unsealed; and the audit row of a change names the
\* section of every secret it names.
SecretsHidden ==
    /\ Secrets(Public(config)) = {}
    /\ \A s \in DOMAIN config : \A i \in DOMAIN Rows(config[s], "proxies") :
          Parts(Public(config)[s].proxies[i].url).user = ""
    /\ \A s \in Secrets(Sealed(config)) : s[2] \in Covered \/ SealedFrom(s, Secrets(config))
    /\ \A other \in Given :
          Covers(Audited(config, Canonical(catalog, Sanitized(other))))
=============================================================================
