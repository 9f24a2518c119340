---------------------------- MODULE SettingsShapes ----------------------------
(***************************************************************************)
(* What the proofs about settings say of them: what a plan of proxies, a   *)
(* section, a row of instances and a form may hold once they were read,    *)
(* which fields hold secrets and at which depth, and which checks make a   *)
(* form one that loses no card.                                            *)
(***************************************************************************)
EXTENDS Settings

\* A map with nothing but its fields.
IsFcn(f) == f = [x \in DOMAIN f |-> f[x]]

\* A plan as the proxies of a sanitized section make it: named entries, a default among
\* them, and assignments that name one or none.
Planned(plan) ==
    /\ IsList(plan.entries)
    /\ \A i \in DOMAIN plan.entries : "name" \in DOMAIN plan.entries[i] /\ plan.entries[i].name # ""
    /\ IF Empty(plan.entries) THEN plan.default = Nothing
       ELSE "name" \in DOMAIN plan.default /\ plan.default = Entry(plan, plan.default.name)
    /\ \A c : Text(plan.assignments, c) \in {"", "none"} \cup NamesOf(plan.entries)

\* The hosts an entry exempts, by either spelling.
NoProxyText(m) == FirstText(m, <<"no_proxy", "noProxy">>)

\* The fields of a proxy that was cut from a row.
EntryFields(m) ==
    {"name", "url"} \cup {k \in DOMAIN m \cap {"username", "password"} : m[k] # ""}
      \cup (IF NoProxyText(m) = "" THEN {} ELSE {"no_proxy"})

\* The entry has the row's credentials.
Carries(e, m) == \A k \in DOMAIN m \cap {"username", "password"} : m[k] # "" => e[k] = m[k]

\* The entry was cut from the row, which has a name and an address a proxy may have.
EntryOf(e, r) == /\ Text(r, "name") \in ProxyNames /\ ProxyUrl(Text(r, "url")) # ""
                 /\ e = ProxyEntry(r, Text(r, "name"))

\* What a proxy may be called; a section from before names has the default.
ProxyName == ProxyNames \cup {"default"}

\* The proxies of a sanitized section: each cut to size, under a name of its own.
AreEntries(rows) ==
    /\ IsList(rows) /\ IsFcn(rows)
    /\ \A n \in DOMAIN rows : \E r : /\ rows[n] = ProxyEntry(r, rows[n].name) /\ ProxyUrl(Text(r, "url")) # ""
                                     /\ rows[n].name \in ProxyName
    /\ \A a, b \in DOMAIN rows : a # b => rows[a].name # rows[b].name

\* A sanitized section of proxies.
ProxySection(p) ==
    /\ DOMAIN p \subseteq {"enabled", "proxies", "default", "assignments"}
    /\ Has(p, "enabled") => p.enabled \in {"true", "false"}
    /\ AreEntries(Rows(p, "proxies"))
    /\ Has(p, "proxies") <=> Has(p, "default")
    /\ Has(p, "proxies") => ~Empty(p.proxies) /\ p.default \in NamesOf(p.proxies)
    /\ \A c \in DOMAIN Sub(p, "assignments") :
          c \in Assignable /\ p.assignments[c] \in (NamesOf(Rows(p, "proxies")) \ {""}) \cup {"none"}

\* What an image from before named proxies does not read.
OldKeys == {"proxies", "default", "assignments"}

\* What it does read.
OldFields(m, d) ==
    (DOMAIN m \cap {"enabled"}) \cup (IF d = Nothing THEN {} ELSE {k \in DOMAIN d \cap FlatFields : d[k] # ""})

\* The connectors with instances.
Services == {"jira", "confluence", "jenkins"} \cup Named

\* Rows with an address, as the sanitizer leaves them.
AreSites(kind, rows) ==
    /\ IsList(rows) /\ IsFcn(rows)
    /\ \A i \in DOMAIN rows : \E r : rows[i] = SiteRow(kind, r) /\ SiteOf(r) # ""
\* Databases that can be reached, as the sanitizer leaves them.
AreDatabases(rows) ==
    /\ IsList(rows) /\ IsFcn(rows)
    /\ \A i \in DOMAIN rows : \E r : rows[i] = Database(r) /\ "" \notin {rows[i].name, rows[i].host, rows[i].database, rows[i].username}

\* What a service's section holds: no address of its own, and rows that have one.
ServiceSection(s, p) ==
    /\ DOMAIN p \subseteq {"enabled", "default_instance", "instances", "access"} \cup SharedFields
    /\ IsFcn(p)
    /\ IF s = "pgsql" THEN AreDatabases(Rows(p, "instances")) ELSE AreSites(s, Rows(p, "instances"))

\* The fields only one kind of instance has.
FieldsOfKind == {"project", "api_version", "space", "default_index", "default_earliest", "app", "owner", "max_results"}

\* Rows with an address are usable when they are on, and an assistant that may use the
\* connector has one.
HasAddress(s, r) ==
    /\ Text(r, AddressField(s)) # ""
    /\ FirstText(r, IF s = "pgsql" THEN <<"host">> ELSE <<"url", "base_url", "baseUrl", "uri">>) # ""

\* A provider's settings that name the provider as a runtime does.
NativeRead(llm) == IsFcn(llm) /\ (Text(llm, "provider") # "" => llm["provider"] = Provider(llm["provider"]))

\* What a section is once it was read.
SectionRead(s, m) == m = Nothing \/ \E x : ListsHold(s, x) /\ m = Section(s, x)

\* Every section of a row was read by the sanitizer.
RowRead(row) == \A s : s # "llm" => SectionRead(s, Sub(row, s))

\* The row of a member's settings is always one that was read.
ConfigRead == RowRead(config)

\* No secret here; nor in the maps and rows here; nor in theirs; nor in those.
Clean0(m) == \A k \in DOMAIN m \cap SecretFields : m[k] = ""
Clean1(m) == /\ Clean0(m)
             /\ \A k \in DOMAIN m \cap MapFields : Clean0(m[k])
             /\ \A k \in DOMAIN m \cap RowFields : \A i \in DOMAIN m[k] : Clean0(m[k][i])
Clean2(m) == /\ Clean0(m)
             /\ \A k \in DOMAIN m \cap MapFields : Clean1(m[k])
             /\ \A k \in DOMAIN m \cap RowFields : \A i \in DOMAIN m[k] : Clean1(m[k][i])
Clean3(m) == /\ Clean0(m)
             /\ \A k \in DOMAIN m \cap MapFields : Clean2(m[k])
             /\ \A k \in DOMAIN m \cap RowFields : \A i \in DOMAIN m[k] : Clean2(m[k][i])

\* A path leads somewhere.
IsPath(p) == p # <<>> /\ \E S : p \in Seq(S)

\* The same fields with the secrets sealed: here; in the maps and rows here; in theirs; in
\* those.
Sealed0(w, m) == DOMAIN w = DOMAIN m /\ \A k \in DOMAIN m \cap SecretFields : w[k] = SealedField(m, k)
Sealed1(w, m) == /\ Sealed0(w, m)
                 /\ \A k \in DOMAIN m \cap MapFields : Sealed0(w[k], m[k])
                 /\ \A k \in DOMAIN m \cap RowFields : DOMAIN w[k] = DOMAIN m[k] /\ \A i \in DOMAIN m[k] : Sealed0(w[k][i], m[k][i])
Sealed2(w, m) == /\ Sealed0(w, m)
                 /\ \A k \in DOMAIN m \cap MapFields : Sealed1(w[k], m[k])
                 /\ \A k \in DOMAIN m \cap RowFields : DOMAIN w[k] = DOMAIN m[k] /\ \A i \in DOMAIN m[k] : Sealed1(w[k][i], m[k][i])
Sealed3(w, m) == /\ Sealed0(w, m)
                 /\ \A k \in DOMAIN m \cap MapFields : Sealed2(w[k], m[k])
                 /\ \A k \in DOMAIN m \cap RowFields : DOMAIN w[k] = DOMAIN m[k] /\ \A i \in DOMAIN m[k] : Sealed2(w[k][i], m[k][i])

\* What two maps have at one place.
SamePlace(w, m, a, b) ==
    \/ \E k \in DOMAIN m \cap MapFields : a = w[k] /\ b = m[k]
    \/ \E k \in DOMAIN m \cap RowFields : \E i \in DOMAIN m[k] : a = w[k][i] /\ b = m[k][i]

\* A map without maps and rows of its own.
Leaf(m) == DOMAIN m \cap (MapFields \cup RowFields) = {}

\* The fields of rows.
RowNames == {"name", "password", "url", "username", "token", "enabled", "host", "database", "port", "no_proxy"} \cup FieldsOfKind
AwsRowNames == {"name", "account_id", "role", "role_arn", "profile", "enabled", "regions", "account", "cluster",
                "tls_server_name", "private_endpoint", "region", "server_ca"}
RowsNamed(rows) == \A i \in DOMAIN rows : DOMAIN rows[i] \subseteq RowNames

\* The words that say whether a secret is there are none, and no maps.
Presences == {"password_present", "token_present", "api_key_present", "api_token_present", "access_key_present"}
\* AWS.
AwsFields == {"enabled", "provider", "default_region", "domain", "username", "password", "idp_url", "source_profile",
              "default_account", "kubeconfig_path", "session_duration_seconds", "accounts", "eks_clusters"}
\* BrowserStack.
DeviceFields == {"platform", "network_mode", "idle_timeout_seconds", "new_command_timeout_seconds", "appium_version",
                 "interactive_debugging", "video"}
TunnelFields == {"mode", "binary", "binary_env", "proxy_host", "proxy_user_env", "proxy_pass_env", "default_hold_minutes",
                 "max_hold_minutes", "ready_timeout_seconds", "heartbeat_seconds", "proxy_port", "force_local",
                 "disable_proxy_discovery", "force_proxy", "only_automate", "force"}
HubFields    == {"username_env", "access_key_env", "username", "access_key", "ca_cert", "api_base_url",
                 "appium_base_url", "verify_ssl", "http_proxy", "local"}
MobileFields == {"enabled", "default_provider", "state_dir", "artifacts_dir", "retention_hours", "defaults", "browserstack"}
MobileSection(m) ==
    /\ DOMAIN m \subseteq MobileFields
    /\ DOMAIN Sub(m, "defaults") \subseteq DeviceFields
    /\ DOMAIN Sub(m, "browserstack") \subseteq HubFields
    /\ DOMAIN Sub(Sub(m, "browserstack"), "http_proxy") \subseteq TunnelFields
    /\ DOMAIN Sub(Sub(m, "browserstack"), "local") \subseteq TunnelFields

\* The model provider.
LlmFields == {"provider", "model", "max_tokens", "api_key", "base_url", "api_base", "baseURL", "endpoint",
              "reasoning_effort", "max_context_tokens", "ai_platform"}
LlmSection(m) ==
    /\ DOMAIN m \subseteq LlmFields
    /\ DOMAIN Sub(m, "ai_platform") \subseteq {"auth"}
    /\ DOMAIN Sub(Sub(m, "ai_platform"), "auth") \subseteq {"username", "password", "usercase"}

\* The AWS section.
AwsSection(m) ==
    /\ DOMAIN m \subseteq AwsFields
    /\ \A k \in {"accounts", "eks_clusters"} : \A i \in DOMAIN Rows(m, k) : DOMAIN Rows(m, k)[i] \subseteq AwsRowNames
RowFits(row) == DOMAIN row \subseteq Sections /\ LlmSection(Sub(row, "llm"))
ConfigFits == RowFits(config)

\* On these fields the map is as the part says.
Agrees(y, p, ks) == \A k \in ks : (Has(y, k) <=> Has(p, k)) /\ (Has(p, k) => y[k] = p[k])

\* The rows with a key no earlier row has.
Firsts(rows, key) == At(rows, {i \in DOMAIN rows : \A j \in DOMAIN rows : j < i => key[j] # key[i]})
AllApart(key) == \A i, j \in DOMAIN key : i # j => key[i] # key[j]

\* One row per name.
Names(rows) == [i \in DOMAIN rows |-> FoldedName(rows[i])]
OneEach(rows) == IsList(rows) /\ IsFcn(rows) /\ AllApart(Names(rows))

\* The regions of an account, each once.
Chosen(words) ==
    LET folded == [i \in DOMAIN words |-> Lower(words[i])]
        kept   == At(folded, {i \in DOMAIN folded : folded[i] \in Regions})
    IN  At(kept, {i \in DOMAIN kept : \A j \in DOMAIN kept : j < i => kept[j] # kept[i]})

LlmTexts == {"api_key", "base_url", "api_base", "baseURL", "endpoint"}
Account3 == {"username", "password", "usercase"}
Tokens(x) == Within(x, "max_context_tokens", 1, 1000000)
Inner(w)  == [k \in DOMAIN w \cap {"auth"} |-> Only(w.auth, Account3)]
Platform(x) == IF Has(x, "ai_platform") THEN "ai_platform" :> Inner(x.ai_platform) ELSE Nothing

\* A model provider that was read, whatever its provider and model are set to since.
AiRead(w) == /\ IsFcn(w) /\ DOMAIN w \subseteq {"auth"}
             /\ Has(w, "auth") => IsFcn(w["auth"]) /\ DOMAIN w["auth"] \subseteq Account3
LlmRead(l) ==
    /\ IsFcn(l) /\ DOMAIN l \subseteq LlmFields
    /\ \E x : /\ Agrees(l, Texts(x, LlmTexts), LlmTexts)
              /\ Agrees(l, OneOf(x, "reasoning_effort", AllEfforts), {"reasoning_effort"})
              /\ Agrees(l, Tokens(x), {"max_context_tokens"})
    /\ Has(l, "ai_platform") => AiRead(l["ai_platform"])

\* A row with sections the program knows, none of them empty, its model provider read.
Settled(row) ==
    /\ IsFcn(row) /\ DOMAIN row \subseteq Sections
    /\ \A s \in DOMAIN row : DOMAIN row[s] # {}
    /\ Has(row, "llm") => LlmRead(row["llm"])
ConfigSettled == Settled(config)

\* A list of rows that comes of a list of cards.
RowsOfCards(cards, rows, ks, kept, old) ==
    /\ IsList(rows) /\ IsFcn(rows)
    /\ \A n \in DOMAIN rows : /\ \E i \in DOMAIN cards : rows[n] = CardRow(cards[i], ks, kept, old)
                              /\ Text(rows[n], "name") # "" \/ Text(rows[n], "url") # ""
    /\ \A i \in DOMAIN cards :
          Text(CardRow(cards[i], ks, kept, old), "name") # "" \/ Text(CardRow(cards[i], ks, kept, old), "url") # ""
            => \E n \in DOMAIN rows : rows[n] = CardRow(cards[i], ks, kept, old)

\* A field a row takes over from its card, and what a row has of such a field.
Copied(k, kept) == k \notin kept \cup {"enabled", "regions"}
CardText(card, ks, kept, old, k) ==
    /\ k \in ks => Text(CardRow(card, ks, kept, old), k) = Text(card, k)
    /\ k \notin ks => Text(CardRow(card, ks, kept, old), k) = ""

\* What a form that is let pass has made of a Nexus, Splunk or PostgreSQL list.
NamedPassed(s, form, made) ==
    /\ OneEach(made) /\ PostedNames(form) \subseteq NamesOf(made)
    /\ \A i \in DOMAIN made : Text(made[i], "name") # "" /\ \A k \in Required[s] : Text(made[i], k) # ""

\* What an AWS form that is let pass has made of the accounts.
AwsPassed(form, rows) ==
    /\ OneEach(rows) /\ PostedNames(form) \subseteq NamesOf(rows)
    /\ \A i \in DOMAIN rows : Text(rows[i], "name") # "" /\ Text(rows[i], "account_id") \in AccountIds

\* The accounts of rows whose regions are all supported.
AccountsOf(rows, made) ==
    /\ \A n \in DOMAIN rows : ~Unsupported(rows[n])
    /\ DOMAIN made = DOMAIN rows /\ \A n \in DOMAIN rows : made[n] = Account(rows[n])

\* What a Proxy form that is let pass has made of the list.
ProxyPassed(form, made) ==
    /\ OneEach(made) /\ PostedNames(form) \subseteq NamesOf(made)
    /\ \A i \in DOMAIN made : Text(made[i], "name") \in ProxyNames /\ ProxyUrl(Text(made[i], "url")) # ""

\* What a save makes of a section other than the model's.
SavedAs(x, c, s) ==
    /\ Has(c, s) <=> s \in DOMAIN x \cap Sections /\ DOMAIN Section(s, x[s]) # {}
    /\ Has(c, s) => c[s] = Section(s, x[s])
===============================================================================
