-------------------------- MODULE RuntimeProjection --------------------------
(***************************************************************************)
(* What a settings row becomes outside the Portal's database: the proxy a  *)
(* connection leaves through, the config a runtime reads from its Secret,  *)
(* the state the Connectors list shows, and what the Test buttons probe.   *)
(* A row given here is sanitized.                                          *)
(***************************************************************************)
EXTENDS ProfileSettings

CONSTANTS
    Labels,         \* host names, to their labels: "a.corp" to <<"a", "corp">>
    Exempting,      \* NO_PROXY words, to the patterns in them
    Deployed,       \* what the deployment says of AI Platform: paths by name
    Usercased       \* the paths that carry the {usercase} placeholder

EnvironmentWords == {"", "env", "environment"}
Loopback         == {"localhost", "127.0.0.1", "::1"}
DefaultNoProxy   == "localhost,127.0.0.1,169.254.169.254,.svc.cluster.local"

-----------------------------------------------------------------------------
(* The proxy of a connection *)

EndsIn(labels, tail) == \E n \in 0..Len(labels) : tail = SubSeq(labels, n + 1, Len(labels))
\* A pattern is every host, a name and what is under it, what is under it only, or a
\* block of addresses.
Matches(host, p) ==
    \/ p.kind = "all"
    \/ p.kind = "block" /\ host \in p.hosts
    \/ /\ p.kind \in {"name", "under"} /\ host \in DOMAIN Labels
       /\ EndsIn(Labels[host], p.labels) /\ (p.kind = "under" => p.labels # Labels[host])
Exempts(host, words) ==
    /\ host # ""
    /\ host \in Loopback \/ \E p \in Exempting[IF words = "" THEN DefaultNoProxy ELSE words] : Matches(host, p)
EntryExempts(entry, host) == Exempts(host, Text(entry, "no_proxy"))

Entry(plan, name) == FirstWith(plan.entries, LAMBDA e : e.name = name, Nothing)

PlanOf(m) ==
    LET entries == Rows(m, "proxies")
        named   == Where(entries, LAMBDA e : e.name = Text(m, "default"))
    IN  [enabled |-> Text(m, "enabled") = "true", entries |-> entries,
         default |-> FirstOf(entries, IF named = {} THEN DOMAIN entries ELSE named, Nothing), assignments |-> Sub(m, "assignments")]
\* section: in any shape.
Plan(section) == PlanOf(Proxy(section))
Configured(plan) == plan.enabled /\ plan.default # Nothing

Environment   == [kind |-> "environment", entry |-> Nothing]
Direct        == [kind |-> "none", entry |-> Nothing]
Through(e)    == [kind |-> "proxy", entry |-> e]

\* own: the row's own setting, which stands whatever the connector's switch says, unless
\* it is a name, which needs the list.
OwnChoice(plan, host, own) ==
    CASE Lower(own) \in DirectWords -> Direct
      [] plan.enabled /\ Entry(plan, own) # Nothing ->
           IF EntryExempts(Entry(plan, own), host) THEN Direct ELSE Through(Entry(plan, own))
      [] OTHER -> Through("url" :> own)
OwnApplies(plan, own) ==
    \/ Lower(own) \in DirectWords
    \/ plan.enabled /\ Entry(plan, own) # Nothing
    \/ own \in DOMAIN Address

Choice(plan, connector, host, own) ==
    LET assigned == Text(plan.assignments, connector)
        entry    == Entry(plan, assigned)
    IN  CASE OwnApplies(plan, own) -> OwnChoice(plan, host, own)
          [] ~OwnApplies(plan, own) /\ (~plan.enabled \/ Lower(assigned) \in EnvironmentWords) -> Environment
          [] OTHER ->
               IF Lower(assigned) \in DirectWords THEN Direct
               ELSE IF entry = Nothing THEN Environment
               ELSE IF EntryExempts(entry, host) THEN Direct
               ELSE IF entry.name = Text(plan.default, "name") THEN Environment
               ELSE Through(entry)

\* The choice with the environment, which is the default proxy, resolved.
Egress(plan, connector, host, own) ==
    LET choice == Choice(plan, connector, host, own)
    IN  IF choice.kind # "environment" THEN choice
        ELSE IF ~Configured(plan) \/ EntryExempts(plan.default, host) THEN Direct
        ELSE Through(plan.default)

FlatFields == {"url", "username", "password", "no_proxy"}
\* Mutant: what the default entry does not have keeps the value it had.
MirroredLoosely(m) == (IF Plan(m).default = Nothing THEN Nothing ELSE Only(Plan(m).default, {"url", "username", "password"})) @@ m

\* The default entry also as the flat fields an image from before named proxies reads.
FlatOf(m, default) == IF default = Nothing THEN m ELSE Texts(default, FlatFields) @@ Without(m, FlatFields)
Mirrored(m) == FlatOf(m, Plan(m).default)

-----------------------------------------------------------------------------
(* The config a runtime reads *)

\* An endpoint whose path wants a usercase is there only when the account has one.
Endpoint(host, uri, usercase) ==
    IF uri \in Usercased
      THEN IF usercase = "" THEN Nothing ELSE Kept("host", host) @@ ("uri" :> <<uri, usercase>>)
      ELSE Kept("host", host) @@ Kept("uri", uri)
AiPlatformConfig(auth) ==
    LET usercase  == Text(auth, "usercase")
        responses == Text(Deployed, "responses_uri")
    IN  KeptMap("chat", Endpoint(Text(Deployed, "chat_host"), Text(Deployed, "chat_uri"), usercase))
          @@ (IF responses = "" THEN Nothing
              ELSE KeptMap("responses", Endpoint(Text(Deployed, "chat_host"), responses, usercase)))
          @@ KeptMap("ib2b", Endpoint(Text(Deployed, "ib2b_host"), Text(Deployed, "ib2b_uri"), usercase))
          @@ KeptMap("auth", Texts(auth, {"username", "password", "usercase"})
                               @@ Texts(Deployed, {"trust_token_header", "tracking_prefix"}))
Materialized(llm) ==
    IF Provider(Lower(Text(llm, "provider"))) # AiPlatform THEN Without(llm, {"ai_platform"})
    ELSE KeptMap("ai_platform", AiPlatformConfig(Sub(Sub(llm, "ai_platform"), "auth"))) @@ Without(llm, {"ai_platform"})

RuntimeProvider(runtime, p) ==
    IF runtime # "opencode" THEN Provider(p) ELSE IF Provider(p) = AiPlatform THEN "ai-platform" ELSE "github-copilot"
\* OpenCode reads a model with its provider before it; one that has a prefix keeps its own.
RuntimeModel(runtime, p, m) == IF runtime = "opencode" THEN <<RuntimeProvider(runtime, p), m>> ELSE m

LlmFor(runtime, llm) ==
    (IF Text(llm, "provider") = "" THEN Nothing ELSE "provider" :> RuntimeProvider(runtime, llm.provider))
      @@ (IF Text(llm, "model") = "" THEN Nothing ELSE "model" :> RuntimeModel(runtime, Text(llm, "provider"), llm.model))
      @@ llm

\* The Secret's config.  default: the fields the model provider of a new member has.
SecretOf(canonical, default, credentials) ==
    LET chosen    == Texts(Sub(canonical, "llm"), DOMAIN Sub(canonical, "llm") \cap DOMAIN default) @@ default
                       @@ Sub(canonical, "llm")
        llm       == LlmFor("native", Materialized(chosen))
        given     == IF credentials THEN llm
                     ELSE [k \in DOMAIN llm \ {"api_key"} |->
                             IF k = "ai_platform" THEN KeptMap("auth", Without(Sub(llm[k], "auth"), {"username", "password", "usercase"}))
                                                         @@ Without(llm[k], {"auth"})
                             ELSE llm[k]]
    IN  (IF "llm" \in DOMAIN canonical \/ DOMAIN default # {}
           THEN "llm" :> (("timeout_ms" :> "300000") @@ given) ELSE Nothing)
          @@ (IF "proxy" \in DOMAIN canonical THEN "proxy" :> Mirrored(canonical.proxy) ELSE Nothing)
          @@ ("debug" :> [enabled |-> "true", log_level |-> "DEBUG"]) @@ canonical
SecretConfig(cat, config, default, credentials) ==
    SecretOf(Canonical(cat, Sanitized(config)), default, credentials)

-----------------------------------------------------------------------------
(* Which connectors an assistant can use, and what the member is shown of  *)
(* them.  A row is on unless it says it is not.                            *)

On(m)           == Text(m, "enabled") = "true"
RowOn(r)        == Text(r, "enabled") # "false"
AddressField(s) == IF s = "pgsql" THEN "host" ELSE "url"
Instanced       == {"jira", "confluence", "jenkins"} \cup Named
\* The projection takes an address by any of its names.
UsableRow(s, r) ==
    RowOn(r) /\ FirstText(r, IF s = "pgsql" THEN <<"host">> ELSE <<"url", "base_url", "baseUrl", "uri">>) # ""
UsableInstances(s, m) ==
    LET rows == IF s = "jenkins" /\ ~Has(m, "instances") THEN <<m>> ELSE Rows(m, "instances")
    IN  On(m) /\ \E i \in DOMAIN rows : UsableRow(s, rows[i])

AwsUsable(m) ==
    /\ On(m)
    /\ IF Text(m, "provider") = "assume-role"
         THEN \E i \in DOMAIN Rows(m, "accounts") :
                 RowOn(m.accounts[i]) /\ (Text(m.accounts[i], "account_id") # "" \/ Text(m.accounts[i], "role_arn") # "")
         ELSE \A k \in {"domain", "username", "password"} : Text(m, k) # ""
MobileUsable(m) ==
    On(m) /\ DOMAIN Texts(Sub(m, "browserstack"), {"username", "username_env", "access_key", "access_key_env",
                                                   "api_base_url", "appium_base_url"}) # {}
Usable(config, s) ==
    LET m == Sub(config, s)
    IN  \/ s \in Instanced /\ UsableInstances(s, m)
        \/ s = "mobile-auto" /\ MobileUsable(m)
        \/ s = "github" /\ On(m) /\ FirstText(m, <<"api_token", "base_url">>) # ""
        \/ s = "aws" /\ AwsUsable(m)
        \/ s = "git" /\ FirstText(Sub(m, "user"), <<"name", "email">>) # ""
\* The assistant is told of its command line tools when there is one it can use.
ToldOfTools(config) == \E s \in Sections : Usable(config, s)

\* What a runtime makes of the Secret when it starts.
Booted(runtime, secret) ==
    LET llm == Sub(secret, "llm")
    IN  (IF "llm" \in DOMAIN secret THEN "llm" :> Without(LlmFor(runtime, llm), {"max_context_tokens"}) ELSE Nothing)
          @@ (IF runtime # "opencode" /\ "max_context_tokens" \in DOMAIN llm
                THEN "max_context_tokens" :> llm.max_context_tokens ELSE Nothing)
          @@ (IF runtime # "opencode" /\ ToldOfTools(secret) THEN "instruction_texts" :> "tools" ELSE Nothing)
          @@ secret

Shows(configured, m) == IF ~configured THEN "not_set_up" ELSE IF On(m) THEN "connected" ELSE "off"
InstancesState(s, m) ==
    LET rows == IF Empty(Rows(m, "instances")) /\ Text(m, "url") # "" THEN <<m>> ELSE Rows(m, "instances")
    IN  IF \E i \in DOMAIN rows : RowOn(rows[i]) /\ Text(rows[i], AddressField(s)) # "" THEN Shows(TRUE, m)
        ELSE IF ~Empty(rows) THEN "off" ELSE "not_set_up"
LlmState(m) ==
    LET account == IF Text(m, "provider") = "ai_platform" THEN Sub(Sub(m, "ai_platform"), "auth") ELSE m
    IN  IF Text(account, IF Text(m, "provider") = "ai_platform" THEN "password" ELSE "api_key") = ""
          THEN "not_set_up" ELSE "connected"
State(config, s) ==
    LET m == Sub(config, s)
    IN  CASE s \in Instanced -> InstancesState(s, m)
          [] s = "llm" -> LlmState(m)
          [] s = "proxy" -> Shows(Text(m, "url") # "" \/ ~Empty(Rows(m, "proxies")), m)
          [] s = "github" -> Shows(Text(m, "api_token") # "", m)
          [] s = "aws" -> Shows(Text(m, "username") # "" \/ ~Empty(Rows(m, "accounts")), m)
          [] s = "mobile-auto" -> Shows(Text(Sub(m, "browserstack"), "username") # "", m)
          [] OTHER -> "not_set_up"

-----------------------------------------------------------------------------
(* The Test buttons: which row is probed, with which credential, and where *)
(* the probe leaves.  A probe that is refused says so.                     *)

\* Mutant: a default that is switched off is probed all the same.
DefaultRowAnyway(m) ==
    LET rows  == Rows(m, "instances")
        named == Where(rows, LAMBDA r : FoldedName(r) = Lower(Text(m, "default_instance")))
    IN  FirstOf(rows, IF named = {} THEN DOMAIN rows ELSE named, Nothing)

\* The default instance, else the first that is on, else the first.
DefaultRow(m) ==
    LET rows  == Rows(m, "instances")
        on    == Where(rows, RowOn)
        named == {i \in on : Text(m, "default_instance") # "" /\ FoldedName(rows[i]) = Lower(m.default_instance)}
    IN  FirstOf(rows, IF named # {} THEN named ELSE IF on # {} THEN on ELSE DOMAIN rows, Nothing)
\* Jira and Confluence: the first row with an address and a credential.
SignInRow(m) ==
    FirstWith(Rows(m, "instances"),
              LAMBDA r : /\ Text(r, "url") # ""
                         /\ Text(r, "token") # "" \/ (Text(r, "username") # "" /\ Text(r, "password") # ""),
              Nothing)

Refusal == [probe |-> "refused"]
Probe(config, s, row, host) ==
    [probe |-> "sent", row |-> row, via |-> Egress(Plan(Sub(config, "proxy")), s, host, Text(row, "proxy"))]
HostOf(row) == Parts(Text(row, "url")).host

\* Everything but the answer of the service.
InstanceTest(config, s) ==
    LET m   == Sub(config, s)
        row == IF s \in {"jira", "confluence"} THEN SignInRow(m) ELSE DefaultRow(m)
    IN  IF ~On(m) \/ Text(row, AddressField(s)) = "" THEN Refusal
        ELSE IF s = "splunk" /\ Text(row, "token") = "" /\ (Text(row, "username") = "" \/ Text(row, "password") = "") THEN Refusal
        ELSE Probe(config, s, row, IF s = "pgsql" THEN row.host ELSE HostOf(row))

\* A proxy by its name, or the default one, is dialled itself.
ProxyTest(config, name) ==
    LET plan  == Plan(Sub(config, "proxy"))
        entry == IF name = "" THEN plan.default ELSE Entry(plan, name)
    IN  IF ~plan.enabled \/ entry = Nothing THEN Refusal ELSE [probe |-> "sent", row |-> entry, via |-> Direct]

GitHubTest(config) ==
    LET m == Sub(config, "github")
    IN  IF ~On(m) \/ Text(m, "api_token") = "" THEN Refusal
        ELSE Probe(config, "github", m, IF Text(m, "base_url") = "" THEN "api.github.com" ELSE Parts(m.base_url).host)

\* The model provider: Copilot's address, or the endpoint of AI Platform the runtime would
\* use, after the token exchange.
LlmTest(runtime, config) ==
    LET llm  == Materialized(Sub(config, "llm"))
        ai   == Sub(llm, "ai_platform")
        auth == Sub(ai, "auth")
        responses == runtime # "opencode" /\ "responses" \in DOMAIN ai
        base == FirstText(llm, <<"base_url", "api_base", "baseURL", "endpoint">>)
    IN  IF Text(llm, "model") = "" THEN Refusal
        ELSE IF Provider(Lower(Text(llm, "provider"))) # AiPlatform
          THEN IF Text(llm, "api_key") = "" THEN Refusal
               ELSE Probe(config, "llm", Nothing, IF base = "" THEN "api.githubcopilot.com" ELSE Parts(base).host)
        ELSE IF \/ Text(Sub(ai, "chat"), "host") = "" /\ Text(Sub(ai, "responses"), "host") = ""
                \/ \E k \in {"username", "password", "usercase"} : Text(auth, k) = ""
                \/ \E k \in {"host", "uri"} : Text(Sub(ai, "ib2b"), k) = ""
          THEN Refusal
        ELSE Probe(config, "llm", "endpoint" :> (IF responses THEN "responses" ELSE "chat"), Text(Deployed, "chat_host"))

-----------------------------------------------------------------------------
(* What the different readers of one row must agree on. *)

Reached == {"jira", "confluence", "jenkins", "nexus", "splunk", "pgsql", "llm", "browserstack", "github", "aws"}

\* A connection leaves through a proxy only when the connector is on, never through one
\* that exempts the host, and through the one assigned to it, which default or not is the
\* same; a connector that is to go direct does.  (A proxy called env or environment is
\* none that can be assigned.)
PlanFollows(plan) ==
    \A c \in Reached : \A host \in DOMAIN Labels :
        LET e        == Egress(plan, c, host, "")
            assigned == Text(plan.assignments, c)
        IN  /\ e.kind = "proxy" => plan.enabled /\ ~EntryExempts(e.entry, host)
            /\ assigned = "none" => e = Direct
            /\ plan.enabled /\ Lower(assigned) \notin EnvironmentWords \cup DirectWords =>
                  e = IF EntryExempts(Entry(plan, assigned), host) THEN Direct ELSE Through(Entry(plan, assigned))
EgressFollows(config) == PlanFollows(Plan(Sub(config, "proxy")))
SameWay(a, b) == a.kind = b.kind /\ Without(a.entry, {"name"}) = Without(b.entry, {"name"})
PlansAgree(old, new) ==
    \A host \in DOMAIN Labels : SameWay(Egress(old, "jira", host, ""), Egress(new, "jira", host, ""))
\* An image from before named proxies leaves through the proxy a current one takes when
\* nothing is assigned.
OldImagesAgree(config) ==
    PlansAgree(Plan(Without(Mirrored(Sub(config, "proxy")), {"proxies", "default", "assignments"})),
               [Plan(Sub(config, "proxy")) EXCEPT !.assignments = Nothing])
\* Jira and Confluence: the button takes the first row with an address and a sign-in, and one
\* that is switched off too; only then is it not a row the assistant uses.
SignInAgrees(s, m, tested) ==
    tested => UsableRow(s, SignInRow(m)) \/ \E i \in DOMAIN Rows(m, "instances") : ~RowOn(m.instances[i])
\* The list says connected of a service with instances exactly when the assistant is told
\* of its tool, and then the Test button tries a row the assistant uses (Jira and Confluence
\* as above).  GitHub's button works exactly when the list says connected, and then, as with
\* BrowserStack, the assistant is told of the tool; that it is told of one the list calls not
\* set up (GitHub by its address alone, BrowserStack by other fields than the user) may be.
\* Nothing is said of AWS and the model, whose list looks at single fields: it says connected
\* of accounts that are switched off, and of a model without a name.
ReadersAgree(config) ==
    /\ \A s \in Instanced :
          /\ (State(config, s) = "connected") <=> Usable(config, s)
          /\ IF s \in {"jira", "confluence"}
               THEN SignInAgrees(s, Sub(config, s), InstanceTest(config, s) # Refusal)
               ELSE State(config, s) = "connected" => UsableRow(s, DefaultRow(config[s]))
    /\ \A s \in {"github", "mobile-auto"} : State(config, s) = "connected" => Usable(config, s)
    /\ (State(config, "github") = "connected") <=> (GitHubTest(config) # Refusal)
\* Reading the Secret again changes nothing, whichever runtime reads it.
BootSettles(secret) ==
    /\ Booted("native", Booted("native", secret)) = Booted("native", secret)
    /\ LlmFor("native", Sub(secret, "llm")) = Sub(secret, "llm")
=============================================================================
