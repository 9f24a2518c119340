------------------------------ MODULE MCSettings ------------------------------
(* The settings forms on small instances: one word of each sort a check    *)
(* tells apart, and the forms and whole configs that meet it.              *)
EXTENDS Settings

MCFolded == [w \in {"Main", "RO", "None", "EU-WEST-1"} |-> IF w = "EU-WEST-1" THEN "eu-west-1" ELSE CASE w = "Main" -> "main" [] w = "RO" -> "ro" [] OTHER -> "none"]
MCNumber == [w \in {"0", "5", "60", "8080", "128000", "70000"} |->
               CASE w = "0" -> 0 [] w = "5" -> 5 [] w = "60" -> 60 [] w = "8080" -> 8080 [] w = "128000" -> 128000
                 [] OTHER -> 70000]
Addr(s, u, h, p, t) == [scheme |-> s, user |-> u, host |-> h, port |-> p, path |-> t]
MCAddress ==
    "https://a.corp/" :> Addr("https", "", "a.corp", "", "/") @@ "https://a.corp" :> Addr("https", "", "a.corp", "", "")
      @@ "https://b.corp" :> Addr("https", "", "b.corp", "", "")
      @@ "eks.corp" :> Addr("", "", "eks.corp", "", "") @@ "https://eks.corp" :> Addr("https", "", "eks.corp", "", "")
      @@ "http://eks.corp" :> Addr("http", "", "eks.corp", "", "")
      @@ "p.corp:8080" :> Addr("", "", "p.corp", "8080", "")
      @@ "http://p.corp:8080" :> Addr("http", "", "p.corp", "8080", "")
      @@ "https://p.corp:8080" :> Addr("https", "", "p.corp", "8080", "")
      @@ "http://me:pw@p.corp:8080" :> Addr("http", "me:pw", "p.corp", "8080", "")
      @@ "http://p.corp:70000" :> Addr("http", "", "p.corp", "70000", "")
      @@ "https://browserstack.com" :> Addr("https", "", "browserstack.com", "", "")
MCAccountIds == {"111111111111"}
MCProxyNames == {"main", "Main", "alt", "default"}

F(s, fields) == [section |-> s, fields |-> fields]
C(s, fields, cards) == [section |-> s, fields |-> fields, cards |-> cards]
Used == "enabled" :> "on"
Card(n, u) == "enabled" :> "on" @@ "name" :> n @@ "url" :> u
From(n, u, card) == "original_name" :> n @@ "original_url" :> u @@ card

MCForms ==
  { C("jira", Used, <<Card("main", "https://a.corp/") @@ "token" :> "s1" @@ "api_version" :> "3">>),
    C("jira", Used, <<From("main", "https://a.corp", Card("alt", "https://a.corp"))>>),
    C("jira", Nothing, <<Card("", ""), Card("main", "")>>),
    F("jenkins", Used @@ "url" :> "https://b.corp" @@ "password" :> "s1"),
    C("jenkins", Used, <<From("jenkins", "https://b.corp", Card("jenkins", "https://b.corp"))>>),
    F("github", Used @@ "api_token" :> "s1" @@ "base_url" :> "https://a.corp/"), F("github", "api_token" :> ""),
    F("git", "name" :> "main" @@ "email" :> ""),
    C("nexus", Used @@ "default_instance" :> "main", <<"enabled" :> "" @@ Card("Main", "https://a.corp"),
                                                      Card("alt", "https://a.corp") @@ "token" :> "s1">>),
    C("nexus", Used, <<Card("Main", "https://a.corp"), Card("main", "https://b.corp")>>),
    C("nexus", Used, <<Card("alt", "https://b.corp")>>), C("nexus", Used, <<Card("alt", "")>>), C("nexus", Used, <<Card("", "https://b.corp")>>),
    C("splunk", Used, <<Card("main", "https://a.corp") @@ "owner" :> "me" @@ "max_results" :> "5">>),
    C("splunk", Used, <<Card("main", "https://a.corp") @@ "max_results" :> "0">>),
    C("pgsql", Used @@ "access" :> "RO" @@ "max_rows" :> "60" @@ "sslmode" :> "",
      <<"name" :> "main" @@ "host" :> "h" @@ "port" :> "8080" @@ "database" :> "d" @@ "username" :> "u" @@ "password" :> "s1">>),
    F("pgsql", Used @@ "default_instance" :> "main"),
    F("pgsql", Used @@ "access" :> "other"),
    C("pgsql", Used, <<"name" :> "main" @@ "host" :> "h" @@ "port" :> "70000" @@ "database" :> "d" @@ "username" :> "u">>),
    C("aws", Used @@ "default_account" :> "main" @@ "session_duration_seconds" :> "8080",
      <<"name" :> "Main" @@ "account_id" :> "111111111111" @@ "role" :> "r" @@ "regions" :> <<"EU-WEST-1", "us-east-1">> >>)
      @@ "clusters" :> << "account" :> "main" @@ "cluster" :> "c" @@ "private_endpoint" :> "eks.corp" @@ "server_ca" :> "system">>,
    C("aws", Used, <<>>), C("aws", Used, <<"regions" :> <<"us-east-1">> >>),
    C("aws", Used, <<"name" :> "alt" @@ "account_id" :> "111111111111" @@ "regions" :> <<"us-east-1", "x">> >>),
    C("aws", Used @@ "default_account" :> "", <<"name" :> "alt" @@ "account_id" :> "5">>),
    C("aws", "provider" :> "other", <<>>),
    C("proxy", Used @@ "default" :> "main", <<Card("main", "p.corp:8080") @@ "password" :> "s1", Card("alt", "http://me:pw@p.corp:8080")>>)
      @@ "assign" :> ("jira" :> "alt" @@ "llm" :> "None"),
    C("proxy", Used, <<From("alt", "http://me:pw@p.corp:8080", Card("alt", "http://p.corp:8080"))>>),
    C("proxy", Used, <<Card("alt", "http://p.corp:70000")>>),
    C("proxy", Used, <<Card("Main", "p.corp:8080"), Card("main", "p.corp:8080")>>),
    C("proxy", Used, <<Card("main", "p.corp:8080")>>) @@ "assign" :> ("jira" :> "alt"),
    F("proxy", Used @@ "url" :> "http://me:pw@p.corp:8080" @@ "username" :> "me"), F("proxy", "url" :> ""),
    F("mobile-auto", Used @@ "username" :> "me" @@ "access_key" :> "s1" @@ "platform" :> "ios" @@ "idle_timeout_seconds" :> "60"
        @@ "appium_base_url" :> "https://browserstack.com"),
    F("mobile-auto", "access_key_clear" :> "1"), F("mobile-auto", "idle_timeout_seconds" :> "5"),
    F("mobile-auto", "api_base_url" :> "https://a.corp"),
    F("llm", "provider" :> "github_copilot" @@ "model" :> "m1" @@ "api_key" :> "s1" @@ "reasoning_effort" :> "low"
        @@ "max_context_tokens" :> "128000"),
    F("llm", "provider" :> "ai-platform" @@ "model" :> "m1" @@ "username" :> "u" @@ "usercase" :> "c" @@ "password" :> "s1"),
    F("llm", "provider" :> "ai_platform" @@ "password" :> ""),
    F("llm", "model" :> "m1" @@ "reasoning_effort" :> "max"), F("llm", "max_tokens" :> "alt") }

MCGiven ==
  { "jenkins" :> ("base_url" :> "https://b.corp" @@ "token" :> "s1" @@ "enabled" :> "yes"),
    "pgsql" :> ("default_instance" :> "alt" @@ "instances" :>
       << "name" :> "main" @@ "hostname" :> "h" @@ "dbname" :> "d" @@ "user" :> "u" @@ "sslmode" :> "prefer" @@ "max_rows" :> "5",
          "name" :> "alt" @@ "host" :> "h" @@ "database" :> "d" @@ "username" :> "u" @@ "max_rows" :> "60",
          "name" :> "alt" @@ "host" :> "" >>),
    "proxy" :> ("url" :> "p.corp:8080" @@ "password" :> "s1" @@ "default" :> "alt" @@ "assignments" :> ("jira" :> "default" @@ "nexus" :> "alt" @@ "x" :> "none")),
    "proxy" :> ("proxies" :> << "name" :> "alt" @@ "url" :> "http://me:pw@p.corp:8080" @@ "noProxy" :> "n" >> @@ "default" :> "main"),
    "aws" :> ("accounts" :> << "name" :> "main" @@ "account_id" :> "111111111111" @@ "regions" :> <<"eu-west-1", "eu-west-1", "x">> >>
        @@ "default_account" :> "111111111111"
        @@ "eks_clusters" :> << "account" :> "111111111111" @@ "cluster" :> "c" @@ "private_endpoint" :> "https://eks.corp" @@ "region" :> "EU-WEST-1",
                               "account" :> "111111111111" @@ "cluster" :> "c" @@ "private_endpoint" :> "eks.corp" @@ "region" :> "eu-west-1",
                               "account" :> "main" @@ "cluster" :> "c" @@ "private_endpoint" :> "http://eks.corp" >>),
    "llm" :> ("model" :> "gone" @@ "ai_platform" :> ("auth" :> ("username" :> "u" @@ "password" :> ""))),
    "debug" :> ("log_level" :> "DEBUG" @@ "enabled" :> "on") @@ "ssh" :> Nothing,
    "mobile-auto" :> ("defaults" :> ("video" :> "on" @@ "appium_version" :> "2.19") @@ "browserstack" :> ("access_key" :> "${KEY}"
        @@ "http_proxy" :> ("proxy_port" :> "8080") @@ "local" :> ("mode" :> "managed" @@ "proxy_port" :> "0"))),
    "jira" :> ("enabled" :> "1" @@ "instances" :> << "name" :> "main" @@ "base_url" :> "https://a.corp/" @@ "email" :> "u" @@ "access_token" :> "ENC:x" >>) }

MCCopilot  == "m1" :> [window |-> 128, efforts |-> {"low", "high"}]
MCCatalogs == {MCCopilot}
MCReported == {MCCopilot, "m2" :> [window |-> 64, efforts |-> {}]}

MCLabels == [h \in {"a.corp", "b.corp", "p.corp", "localhost"} |->
               CASE h = "a.corp" -> <<"a", "corp">> [] h = "b.corp" -> <<"b", "corp">> [] h = "p.corp" -> <<"p", "corp">>
                 [] OTHER -> <<"localhost">>]
MCExempting == [w \in {"n", DefaultNoProxy} |-> {[kind |-> IF w = "n" THEN "name" ELSE "under", labels |-> <<"a", "corp">>]}]
MCDeployed == "chat_host" :> "https://a.corp" @@ "chat_uri" :> "/c" @@ "responses_uri" :> "/{usercase}"
MCUsercased == {"/{usercase}"}

\* Assistants with a model of one of the catalogs, of neither, or none.
MCAssistants == [provider : {"github_copilot"}, model : {"m1", "m2", "gone"}, effort : {"low", "max"}, size : {0, 128},
                 runtime : {"native"}]
           \cup [provider : {"", "ai_platform"}, model : {"", "m1", "gpt-5.4"}, effort : {""}, size : {128}, runtime : {"native", "opencode"}]
================================================================================
