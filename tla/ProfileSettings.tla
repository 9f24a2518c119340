-------------------------- MODULE ProfileSettings --------------------------
(***************************************************************************)
(* What a settings row may hold.  A config is a map of sections, a section *)
(* a map of fields, rows of maps where it lists instances, proxies,        *)
(* accounts or clusters.  A field's value is a word, blank when there is   *)
(* nothing in it; a flag is the word "true" or "false", a number the word  *)
(* that Number reads.  Words carry no surrounding space; a value of the    *)
(* wrong JSON type is not modelled: the code treats it as absent.          *)
(***************************************************************************)
EXTENDS ModelChoices

CONSTANTS
    Folded,         \* words with capitals, to their lower case
    Number,         \* words that are whole numbers, to what they are
    Address,        \* words that are addresses, to their parts
    AccountIds,     \* words of twelve digits
    ProxyNames,     \* words a proxy may be called
    Covered         \* words that are sealed already, or name a variable of the pod

\* Words of the program that a folded word is compared with.
Plain == {"", "none", "direct", "off", "env", "environment", "true", "false", "read_only", "read_write",
          "ai_platform", "github_copilot"}

ASSUME WordsAssumption ==
    /\ \A w \in DOMAIN Folded : Folded[w] \notin DOMAIN Folded
    /\ Plain \cap DOMAIN Folded = {}
    /\ "" \notin DOMAIN Number \cup DOMAIN Address \cup AccountIds \cup ProxyNames
    /\ "default" \in ProxyNames

Sections == {"llm", "proxy", "jira", "confluence", "github", "aws", "jenkins", "nexus",
             "splunk", "pgsql", "mobile-auto", "git", "debug"}
Named    == {"nexus", "splunk", "pgsql"}

\* What f has, and otherwise what g has.
f @@ g == [x \in DOMAIN f \cup DOMAIN g |-> IF x \in DOMAIN f THEN f[x] ELSE g[x]]
k :> v == [x \in {k} |-> v]

Nothing     == [k \in {} |-> ""]
Lower(w)    == IF w \in DOMAIN Folded THEN Folded[w] ELSE w
Has(m, k)   == k \in DOMAIN m
Text(m, k)  == IF Has(m, k) THEN m[k] ELSE ""
Sub(m, k)   == IF Has(m, k) THEN m[k] ELSE Nothing
Rows(m, k)  == IF Has(m, k) THEN m[k] ELSE <<>>
Only(m, ks) == [k \in DOMAIN m \cap ks |-> m[k]]
Without(m, ks) == [k \in DOMAIN m \ ks |-> m[k]]

-----------------------------------------------------------------------------
(* Lists *)

IsList(rows) == IsFiniteSet(DOMAIN rows) /\ DOMAIN rows = 1..Cardinality(DOMAIN rows)
Empty(rows)  == DOMAIN rows = {}
Map(F(_), rows) == [i \in DOMAIN rows |-> F(rows[i])]

\* The rows at some places, in their order.
Place(is, n) == CHOOSE i \in is : Cardinality({j \in is : j <= i}) = n
At(rows, is) == [n \in 1..Cardinality(is) |-> rows[Place(is, n)]]
Where(rows, P(_)) == {i \in DOMAIN rows : P(rows[i])}
Filtered(rows, P(_)) == At(rows, Where(rows, P))
FirstPerKey(Key(_), rows) ==
    At(rows, {i \in DOMAIN rows : \A j \in DOMAIN rows : j < i => Key(rows[j]) # Key(rows[i])})
FirstOf(rows, is, other) == IF is = {} THEN other ELSE rows[Smallest(is)]
FirstWith(rows, P(_), other) == FirstOf(rows, Where(rows, P), other)

-----------------------------------------------------------------------------
(* Fields *)

FirstText(m, ks) == FirstWith(Map(LAMBDA k : Text(m, k), ks), LAMBDA w : w # "", "")
Kept(k, w)    == IF w = "" THEN Nothing ELSE k :> w
KeptMap(k, m) == IF DOMAIN m = {} THEN Nothing ELSE k :> m
Texts(m, ks)  == [k \in {x \in DOMAIN m \cap ks : m[x] # ""} |-> m[k]]
Truth(w)      == IF Lower(w) \in {"1", "true", "on", "yes", "y", "enabled"} THEN "true" ELSE "false"
Flags(m, ks)  == [k \in DOMAIN m \cap ks |-> Truth(m[k])]
OneOf(m, k, ws) == Kept(k, IF Lower(Text(m, k)) \in ws THEN Lower(Text(m, k)) ELSE "")
InRange(w, lo, hi) == w \in DOMAIN Number /\ Number[w] \in lo..hi
Within(m, k, lo, hi) == IF InRange(Text(m, k), lo, hi) THEN k :> m[k] ELSE Nothing
Positive(m, ks) == [k \in {x \in DOMAIN m \cap ks : m[x] \in DOMAIN Number /\ Number[m[x]] > 0} |-> m[k]]

FoldedName(row) == Lower(Text(row, "name"))

-----------------------------------------------------------------------------
(* Addresses: scheme ("" for a bare host:port), user (name and password),  *)
(* host, port ("" for none) and path.                                      *)

Parts(w)    == IF w \in DOMAIN Address THEN Address[w]
               ELSE [scheme |-> "", user |-> "", host |-> "", port |-> "", path |-> ""]
Written(a)  == CHOOSE w \in DOMAIN Address : Address[w] = a
Slashless(p) == IF p = "/" THEN "" ELSE p

AsProxy(a)    == [a EXCEPT !.scheme = IF @ = "" THEN "http" ELSE @, !.path = ""]
AsEndpoint(a) == [a EXCEPT !.scheme = IF @ = "" THEN "https" ELSE @, !.path = Slashless(@)]
AsSite(a)     == [a EXCEPT !.path = Slashless(@)]
Anonymous(a)  == [a EXCEPT !.user = ""]

\* What an address is turned into can be written.
ASSUME AddressAssumption ==
    \A w \in DOMAIN Address :
        LET a == Address[w]
        IN  /\ DOMAIN a = {"scheme", "user", "host", "port", "path"}
            /\ \A b \in {AsProxy(a), AsEndpoint(a), AsSite(a), Anonymous(a)} : \E v \in DOMAIN Address : Address[v] = b

IsPort(w)       == InRange(w, 1, 65535)
ProxyAddress(a) == a.host # "" /\ a.scheme \in {"http", "https"} /\ (a.port # "" => IsPort(a.port))
ProxyUrl(w) == LET a == AsProxy(Parts(w)) IN IF ProxyAddress(a) THEN Written(a) ELSE ""

EndpointAddress(a) == a.host # "" /\ a.scheme = "https" /\ a.user = ""
PrivateEndpoint(w) == LET a == AsEndpoint(Parts(w)) IN IF EndpointAddress(a) THEN Written(a) ELSE ""

\* A service's address loses its trailing slash.
Site(w) == IF w \in DOMAIN Address THEN Written(AsSite(Address[w])) ELSE w
WithoutUser(w) == IF Parts(w).user = "" THEN w ELSE Written(Anonymous(Address[w]))

-----------------------------------------------------------------------------
(* Instances of the services with an address. *)

SiteOf(row) == Site(FirstText(row, <<"url", "base_url", "baseUrl", "uri">>))

KindFields(kind, row) ==
    CASE kind = "jira" ->
           Kept("project", FirstText(row, <<"project", "project_key">>))
             @@ OneOf(row, "api_version", {"2", "3"})
      [] kind = "confluence" -> Kept("space", FirstText(row, <<"space", "space_key">>))
      [] kind = "splunk" ->   \* an owner says nothing without an app
           LET all == Texts(row, {"default_index", "default_earliest", "app", "owner"})
           IN  (IF Has(all, "app") THEN all ELSE Without(all, {"owner"}))
                 @@ Within(row, "max_results", 1, 10000)
      [] OTHER -> Nothing

SiteRow(kind, row) ==
    Texts(row, {"name", "password"}) @@ ("url" :> SiteOf(row))
      @@ Kept("username", FirstText(row, <<"username", "email">>))
      @@ Kept("token", FirstText(row, <<"token", "api_token", "access_token">>))
      @@ Flags(row, {"enabled"}) @@ KindFields(kind, row)

SiteRows(kind, rows) ==
    Map(LAMBDA r : SiteRow(kind, r), Filtered(rows, LAMBDA r : SiteOf(r) # ""))

\* The CLIs address a row by its name: one row per name.
Addressable(rows) == FirstPerKey(FoldedName, Filtered(rows, LAMBDA r : Text(r, "name") # ""))

SwitchAndDefault(m) == Flags(m, {"enabled"}) @@ Texts(m, {"default_instance"})
Listed(m, rows) == IF Has(m, "instances") THEN "instances" :> rows ELSE Nothing

Tracker(kind, m) == Flags(m, {"enabled"}) @@ Listed(m, SiteRows(kind, Rows(m, "instances")))
Repository(kind, m) == SwitchAndDefault(m) @@ Listed(m, Addressable(SiteRows(kind, Rows(m, "instances"))))

\* A Jenkins section from before there was a list is one instance; a list wins, even an
\* empty one.
JenkinsRows(m) ==
    IF Has(m, "instances") THEN m.instances
    ELSE LET flat == Without(m, {"enabled", "default_instance"})
         IN  IF SiteOf(flat) = "" THEN <<>>
             ELSE <<Kept("name", IF Text(flat, "name") = "" THEN "jenkins" ELSE flat.name) @@ flat>>
Jenkins(m) ==
    SwitchAndDefault(m) @@ (IF ~Empty(JenkinsRows(m)) \/ Has(m, "instances")
                   THEN "instances" :> SiteRows("jenkins", JenkinsRows(m)) ELSE Nothing)

GitHub(m) ==
    Flags(m, {"enabled"}) @@ Kept("api_token", FirstText(m, <<"api_token", "token", "access_token">>))
      @@ Kept("base_url", Site(FirstText(m, <<"base_url", "api_base_url">>)))

-----------------------------------------------------------------------------
(* PostgreSQL: the settings every instance shares are the section's.  A    *)
(* section that does not mention one takes it, once, from its rows.        *)

Access(w) ==
    CASE Lower(w) \in {"read_only", "read-only", "readonly", "ro"} -> "read_only"
      [] Lower(w) \in {"read_write", "read-write", "readwrite", "rw"} -> "read_write"
      [] OTHER -> ""
SharedFields == {"sslmode", "statement_timeout_seconds", "max_rows"}
MostRows == 100000
Shared(f, w) ==
    CASE f = "sslmode" -> IF Lower(w) \in {"require", "verify-ca", "verify-full", "prefer"} THEN Lower(w) ELSE ""
      [] f = "statement_timeout_seconds" -> IF InRange(w, 1, 300) THEN w ELSE ""
      [] OTHER -> IF InRange(w, 1, MostRows) THEN w ELSE ""

\* The default instance's, else the first one's.
Lifted(f, m) ==
    LET rows   == Rows(m, "instances")
        having == Where(rows, LAMBDA r : Shared(f, Text(r, f)) # "")
        ofDefault == {i \in having : Text(rows[i], "name") = Text(m, "default_instance")}
    IN  Shared(f, Text(FirstOf(rows, IF ofDefault = {} THEN having ELSE ofDefault, Nothing), f))

Database(row) ==
    [name |-> Text(row, "name"), host |-> FirstText(row, <<"host", "hostname">>),
     database |-> FirstText(row, <<"database", "dbname">>),
     username |-> FirstText(row, <<"username", "user">>)]
      @@ Within(row, "port", 1, 65535) @@ Texts(row, {"password"}) @@ Flags(row, {"enabled"})
Databases(rows) ==
    FirstPerKey(FoldedName,
        Filtered(Map(Database, rows), LAMBDA r : "" \notin {r.name, r.host, r.database, r.username}))

Postgres(m) ==
    LET shared == [f \in SharedFields |-> IF Has(m, f) THEN Shared(f, m[f]) ELSE Lifted(f, m)]
    IN  SwitchAndDefault(m) @@ Kept("access", Access(Text(m, "access"))) @@ Texts(shared, SharedFields)
          @@ Listed(m, Databases(Rows(m, "instances")))

-----------------------------------------------------------------------------
(* AWS *)

Regions == {"ap-east-1", "eu-west-1", "us-east-1"}

\* A row needs a name and a 12-digit id.  Its regions are a sequence of words.
Account(row) ==
    Texts(row, {"name", "account_id", "role", "role_arn", "profile"}) @@ Flags(row, {"enabled"})
      @@ LET chosen == FirstPerKey(LAMBDA w : w, Filtered(Map(Lower, Rows(row, "regions")), LAMBDA w : w \in Regions))
         IN  IF Empty(chosen) THEN Nothing ELSE "regions" :> chosen

Accounts(rows) ==
    FirstPerKey(FoldedName,
        Map(Account, Filtered(rows, LAMBDA r : Text(r, "name") # "" /\ Text(r, "account_id") \in AccountIds)))

AccountKey(w) == IF w \in AccountIds THEN w ELSE Lower(w)
\* Mutant: the region as it was typed.
ClusterKeyTyped(row) == <<AccountKey(Text(row, "account")), Text(row, "region"), Text(row, "cluster")>>
ClusterKey(row) == <<AccountKey(Text(row, "account")), Lower(Text(row, "region")), Text(row, "cluster")>>
UsableCluster(row) ==
    /\ Text(row, "account") # "" /\ Text(row, "cluster") # ""
    /\ PrivateEndpoint(Text(row, "private_endpoint")) # ""
    /\ Lower(Text(row, "region")) \in {""} \cup Regions
Cluster(row) ==
    Texts(row, {"account", "cluster", "tls_server_name"})
      @@ ("private_endpoint" :> PrivateEndpoint(Text(row, "private_endpoint")))
      @@ OneOf(row, "region", Regions) @@ OneOf(row, "server_ca", {"cluster", "system"})
      @@ Flags(row, {"enabled"})
Clusters(rows) == Map(Cluster, FirstPerKey(ClusterKey, Filtered(rows, UsableCluster)))

AwsProviders == {"adfs-assume", "saml2aws", "assume-role"}
Aws(m) ==
    Flags(m, {"enabled"}) @@ OneOf(m, "provider", AwsProviders) @@ OneOf(m, "default_region", Regions)
      @@ Texts(m, {"domain", "username", "password", "idp_url", "source_profile", "default_account",
                   "kubeconfig_path"})
      @@ Within(m, "session_duration_seconds", 900, 43200)
      @@ (IF Has(m, "accounts") THEN "accounts" :> Accounts(m.accounts) ELSE Nothing)
      @@ (IF Has(m, "eks_clusters") THEN "eks_clusters" :> Clusters(m.eks_clusters) ELSE Nothing)

-----------------------------------------------------------------------------
(* Proxies *)

Assignable    == {"llm", "jira", "confluence", "jenkins", "nexus", "splunk", "pgsql", "browserstack"}
DirectWords   == {"none", "direct", "off"}
NoProxyOf(m)  == Kept("no_proxy", FirstText(m, <<"no_proxy", "noProxy">>))
ProxyEntry(m, name) ==
    [name |-> name, url |-> ProxyUrl(Text(m, "url"))] @@ Texts(m, {"username", "password"}) @@ NoProxyOf(m)
UsableEntries(rows) ==
    FirstPerKey(LAMBDA r : r.name,
        Map(LAMBDA r : ProxyEntry(r, r.name),
            Filtered(rows, LAMBDA r : Text(r, "name") \in ProxyNames /\ ProxyUrl(Text(r, "url")) # "")))
ProxyEntries(m) ==
    LET usable == UsableEntries(Rows(m, "proxies"))
    IN  IF Empty(usable) /\ ProxyUrl(Text(m, "url")) # "" THEN <<ProxyEntry(m, "default")>> ELSE usable

NamesOf(rows) == {Text(rows[i], "name") : i \in DOMAIN rows}
DefaultAmong(rows, name) ==
    IF Empty(rows) THEN Nothing
    ELSE [proxies |-> rows, default |-> IF name \in NamesOf(rows) THEN name ELSE rows[1].name]

Assigned(w, names) == IF Lower(w) \in DirectWords THEN "none" ELSE IF w \in names THEN w ELSE ""
Assignments(chosen, names) == Texts([c \in DOMAIN chosen |-> Assigned(chosen[c], names)], Assignable)
ProxyOf(m, entries) ==
    Flags(m, {"enabled"}) @@ DefaultAmong(entries, Text(m, "default"))
      @@ KeptMap("assignments", Assignments(Sub(m, "assignments"), NamesOf(entries)))
Proxy(m) == ProxyOf(m, ProxyEntries(m))

-----------------------------------------------------------------------------
(* BrowserStack, the commit identity, the model provider *)

Versions == {"2.19.0"}    \* words of three numbers

Tunnel(m) ==
    OneOf(m, "mode", {"managed", "external"})
      @@ Texts(m, {"binary", "binary_env", "proxy_host", "proxy_user_env", "proxy_pass_env"})
      @@ Positive(m, {"default_hold_minutes", "max_hold_minutes", "ready_timeout_seconds",
                      "heartbeat_seconds", "proxy_port"})
      @@ Flags(m, {"force_local", "disable_proxy_discovery", "force_proxy", "only_automate", "force"})
HubProxy(m) ==
    Texts(m, {"proxy_host", "proxy_user_env", "proxy_pass_env"}) @@ Positive(m, {"proxy_port"})
      @@ Flags(m, {"disable_proxy_discovery", "force_proxy"})
BrowserStack(m) ==
    Texts(m, {"username_env", "access_key_env", "username", "access_key", "ca_cert"})
      @@ Kept("api_base_url", Site(Text(m, "api_base_url")))
      @@ Kept("appium_base_url", Site(Text(m, "appium_base_url"))) @@ Flags(m, {"verify_ssl"})
      @@ KeptMap("http_proxy", HubProxy(Sub(m, "http_proxy"))) @@ KeptMap("local", Tunnel(Sub(m, "local")))
Device(m) ==
    OneOf(m, "platform", {"android", "ios"})
      @@ OneOf(m, "network_mode", {"public", "private-managed", "private-external"})
      @@ Positive(m, {"idle_timeout_seconds", "new_command_timeout_seconds"})
      @@ (IF Text(m, "appium_version") \in Versions THEN Only(m, {"appium_version"}) ELSE Nothing)
      @@ Flags(m, {"interactive_debugging", "video"})
Mobile(m) ==
    Flags(m, {"enabled"}) @@ Kept("default_provider", Lower(Text(m, "default_provider")))
      @@ Texts(m, {"state_dir", "artifacts_dir"}) @@ Positive(m, {"retention_hours"})
      @@ KeptMap("defaults", Device(Sub(m, "defaults")))
      @@ KeptMap("browserstack", BrowserStack(Sub(m, "browserstack")))

Git(m)   == KeptMap("user", Texts(Sub(m, "user"), {"name", "email"}))
Debug(m) == Flags(m, {"enabled"}) @@ OneOf(m, "log_level", {"debug", "info", "warning", "error"})

LlmTree(m) ==
    Only(m, {"provider", "model", "max_tokens"})
      @@ Texts(m, {"api_key", "base_url", "api_base", "baseURL", "endpoint"})
      @@ OneOf(m, "reasoning_effort", AllEfforts) @@ Within(m, "max_context_tokens", 1, 1000000)
      @@ (IF Has(m, "ai_platform")
            THEN "ai_platform" :> [k \in DOMAIN m.ai_platform \cap {"auth"} |->
                                     Only(m.ai_platform.auth, {"username", "password", "usercase"})]
            ELSE Nothing)

-----------------------------------------------------------------------------
(* A config as it is read and written, and as it is stored. *)

Section(s, m) ==
    CASE s = "llm" -> LlmTree(m)
      [] s \in {"jira", "confluence"} -> Tracker(s, m)
      [] s \in {"nexus", "splunk"} -> Repository(s, m)
      [] s = "pgsql" -> Postgres(m)
      [] s = "jenkins" -> Jenkins(m)
      [] s = "github" -> GitHub(m)
      [] s = "aws" -> Aws(m)
      [] s = "proxy" -> Proxy(m)
      [] s = "mobile-auto" -> Mobile(m)
      [] s = "git" -> Git(m)
      [] s = "debug" -> Debug(m)

Filled(config) == [s \in {x \in DOMAIN config : DOMAIN config[x] # {}} |-> config[s]]
Sanitized(config) == Filled([s \in DOMAIN config \cap Sections |-> Section(s, config[s])])

\* Provider and model are a pair the Portal has; the AI Platform account goes with the
\* provider.
CanonicalLlm(cat, llm) ==
    LET p    == Provider(Lower(Text(llm, "provider")))
        auth == Texts(Sub(Sub(llm, "ai_platform"), "auth"), {"username", "password", "usercase"})
    IN  IF Text(llm, "provider") = "" /\ Text(llm, "model") = "" /\ DOMAIN Sub(llm, "ai_platform") = {}
          THEN llm
        ELSE ("provider" :> p)
               @@ (IF Has(llm, "model") THEN "model" :> Coerced(cat, p, llm.model) ELSE Nothing)
               @@ (IF p = AiPlatform /\ DOMAIN auth # {} THEN "ai_platform" :> ("auth" :> auth) ELSE Nothing)
               @@ Without(llm, {"ai_platform"})

Canonical(cat, config) ==
    IF "llm" \notin DOMAIN config THEN config
    ELSE KeptMap("llm", CanonicalLlm(cat, config.llm)) @@ Without(config, {"llm"})

-----------------------------------------------------------------------------
(* References between rows *)

\* The default instance is one of the rows, by name.
DefaultInstanceHolds(m) ==
    Text(m, "default_instance") # "" =>
        Lower(m.default_instance) \in {FoldedName(Rows(m, "instances")[i]) : i \in DOMAIN Rows(m, "instances")}
\* The default account is one of the rows, by name or by id.
DefaultAccountHolds(m) ==
    Text(m, "default_account") # "" =>
        \E i \in DOMAIN Rows(m, "accounts") :
            \/ FoldedName(m.accounts[i]) = Lower(m.default_account)
            \/ Text(m.accounts[i], "account_id") = m.default_account
\* Every cluster names one of the accounts.
AccountKeys(rows) ==
    {FoldedName(rows[i]) : i \in DOMAIN rows} \cup ({Text(rows[i], "account_id") : i \in DOMAIN rows} \cap AccountIds)
ClusterAccountsHold(m) ==
    \A i \in DOMAIN Rows(m, "eks_clusters") :
        /\ Text(m.eks_clusters[i], "account") # ""
        /\ AccountKey(Text(m.eks_clusters[i], "account")) \in AccountKeys(Rows(m, "accounts")) \ {""}
ReferencesHold(config) ==
    /\ \A s \in DOMAIN config \cap Named : DefaultInstanceHolds(config[s])
    /\ "aws" \in DOMAIN config => DefaultAccountHolds(config.aws) /\ ClusterAccountsHold(config.aws)

-----------------------------------------------------------------------------
(* Secrets *)

SecretFields == {"api_key", "password", "token", "api_token", "access_token", "access_key", "secret"}
\* (the assignments of the proxies are names, never secrets)
MapFields    == Sections \cup {"ai_platform", "auth", "defaults", "browserstack", "http_proxy", "local", "user"}
RowFields    == {"instances", "proxies", "accounts", "eks_clusters"}

\* The maps of a config, at most four deep, with the paths to them, and the secrets in them.
Inside(node) ==
    {<<node[1] \o <<k>>, node[2][k]>> : k \in DOMAIN node[2] \cap MapFields}
      \cup UNION {{<<node[1] \o <<k, i>>, node[2][k][i]>> : i \in DOMAIN node[2][k]} : k \in DOMAIN node[2] \cap RowFields}
Deeper(nodes) == UNION {Inside(node) : node \in nodes}
Maps(config) ==
    LET top == {<<<<>>, config>>}
    IN  top \cup Deeper(top) \cup Deeper(Deeper(top)) \cup Deeper(Deeper(Deeper(top)))
SecretsAt(node) == {<<node[1] \o <<k>>, node[2][k]>> : k \in {x \in DOMAIN node[2] \cap SecretFields : node[2][x] # ""}}
Secrets(config) == UNION {SecretsAt(node) : node \in Maps(config)}

\* What the audit row of a change says: the sections, and where a secret changed.
Differs(a, b, k)     == (k \in DOMAIN a) # (k \in DOMAIN b) \/ (k \in DOMAIN a /\ a[k] # b[k])
Audited(before, after) ==
    [sections |-> {s \in DOMAIN before \cup DOMAIN after : Differs(before, after, s)},
     secrets  |-> {s[1] : s \in (Secrets(before) \ Secrets(after)) \cup (Secrets(after) \ Secrets(before))}]

Present(m, k, field) == field :> (IF Text(m, k) = "" THEN "false" ELSE "true")
TokenPresent(m) == IF FirstText(m, <<"token", "api_token", "access_token">>) = "" THEN "false" ELSE "true"
\* Mutant: the address with the name and password in it.
PublicUrlWhole(m) == Only(m, {"url"})
PublicUrl(m)    == IF Has(m, "url") THEN "url" :> WithoutUser(m.url) ELSE Nothing
PublicRow(s, r) ==
    Present(r, "password", "password_present")
      @@ (IF s = "pgsql" THEN Nothing ELSE "token_present" :> TokenPresent(r))
      @@ Without(r, {"password", "token", "api_token", "access_token"})
PublicProxyRow(r) == Present(r, "password", "password_present") @@ PublicUrl(r) @@ Without(r, {"password"})

PublicProxy(m) ==
    LET rows    == Rows(m, "proxies")
        match   == Where(rows, LAMBDA r : r.name = Text(m, "default"))
        default == FirstOf(rows, IF match = {} THEN DOMAIN rows ELSE match, Nothing)
    IN  ("password_present" :> IF Text(m, "password") # "" \/ Text(default, "password") # "" THEN "true" ELSE "false")
          @@ PublicUrl(m) @@ (IF Has(m, "proxies") THEN "proxies" :> Map(PublicProxyRow, rows) ELSE Nothing)
          @@ Without(m, {"password"})

PublicSection(s, m) ==
    CASE s = "llm" ->
           Present(m, "api_key", "api_key_present")
             @@ (IF Has(Sub(m, "ai_platform"), "auth")
                   THEN "ai_platform" :> ("auth" :> (Present(m.ai_platform.auth, "password", "password_present")
                                                       @@ Present(m.ai_platform.auth, "token", "token_present")
                                                       @@ Without(m.ai_platform.auth, {"password", "token"})))
                   ELSE Nothing)
             @@ Without(m, {"api_key"})
      [] s = "github" -> Present(m, "api_token", "api_token_present") @@ Without(m, {"api_token"})
      [] s = "aws" -> Present(m, "password", "password_present") @@ Without(m, {"password"})
      [] s = "mobile-auto" ->
           (IF Has(m, "browserstack")
              THEN "browserstack" :> (Present(m.browserstack, "access_key", "access_key_present")
                                        @@ Without(m.browserstack, {"access_key"}))
              ELSE Nothing) @@ m
      [] s = "proxy" -> PublicProxy(m)
      [] s \in {"jira", "confluence", "jenkins"} \cup Named ->
           (IF Has(m, "instances") THEN "instances" :> Map(LAMBDA r : PublicRow(s, r), m.instances) ELSE Nothing) @@ m
      [] OTHER -> m

\* A sanitized config as an API answers with it.
Public(config) == [s \in DOMAIN config |-> PublicSection(s, config[s])]

\* In the Secret every secret word is sealed; one that is already, or that names a
\* variable of the pod, is left as it is.
Sealing(w)   == w # "" /\ w \notin Covered
Encrypted(w) == "ENC:" \o w
SealedField(m, k) == IF k \in SecretFields /\ Sealing(m[k]) THEN Encrypted(m[k]) ELSE m[k]
SealedOver(m, Inner(_)) ==
    [k \in DOMAIN m |-> IF k \in MapFields THEN Inner(m[k])
                        ELSE IF k \in RowFields THEN Map(Inner, m[k]) ELSE SealedField(m, k)]
SealedLeaf(m)    == [k \in DOMAIN m |-> SealedField(m, k)]
SealedInner(m)   == SealedOver(m, SealedLeaf)
SealedSection(m) == SealedOver(m, SealedInner)
Sealed(config)   == SealedOver(config, SealedSection)
=============================================================================
