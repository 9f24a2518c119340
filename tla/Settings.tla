------------------------------- MODULE Settings -------------------------------
(***************************************************************************)
(* The settings pages as a whole: the row of a member's settings that the  *)
(* forms write, with its readers, and the choices of models the Portal     *)
(* keeps.                                                                  *)
(***************************************************************************)
EXTENDS SettingsForm, RuntimeProjection, ModelCatalog

\* forms or catalog: the two share no step, and a behaviour is of one of them.
VARIABLE part

Init == FormInit /\ CatInit /\ part \in {"forms", "catalog"} /\ (part = "forms" => stored = None)
Next ==
    /\ UNCHANGED part
    /\ \/ part = "forms" /\ FormNext /\ UNCHANGED catVars
       \/ part = "catalog" /\ CatNext /\ UNCHANGED formVars
Spec == Init /\ [][Next]_<<formVars, catVars, part>>

-----------------------------------------------------------------------------
\* Whatever a member saved, every connection leaves through the proxy the Proxy connector
\* says, an exempted host through none, and an image from before named proxies through the
\* same one as long as nothing is assigned.
ProxiesFollow == part = "forms" => EgressFollows(config) /\ OldImagesAgree(config)

\* The Connectors list, the instructions an assistant gets and the Test button agree on the
\* services with instances, on GitHub and BrowserStack as far as ReadersAgree says, and not on
\* AWS and the model; and the pod's second reading of the Secret makes of it what the first did.
ReadersFollow ==
    part = "forms" =>
        /\ ReadersAgree(config)
        /\ BootSettles(SecretConfig(catalog, config, "provider" :> "github_copilot" @@ "model" :> "auto", TRUE))

\* What a row holds is what the next reader takes from it, and its names resolve.
FormsSettle == part = "forms" => SettingsSettle
\* A form that is let pass stores the cards it posts, but those of Jira, Confluence and Jenkins
\* that have a name and no address, and touches no other connector.
FormsKeep == part = "forms" => AcceptedIsKept
\* No answer, Secret or audit row gives a secret away.
FormsHide == part = "forms" => SecretsHidden
=============================================================================
