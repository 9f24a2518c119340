SPECIFICATION Spec
CONSTANTS
    AutoIds = {"auto"}
    Static = {"auto", "gpt-6-sol"}
    AiModels = {"gpt-5.4"}
    Retired = {"gone"}
    Malformed = {"X"}
    Folded <- MCFolded
    Number <- MCNumber
    Address <- MCAddress
    AccountIds <- MCAccountIds
    ProxyNames <- MCProxyNames
    Covered = {"ENC:x", "${KEY}"}
    Forms <- MCForms
    Given <- MCGiven
    Catalogs <- MCCatalogs
    MaxSections = 2
    Labels <- MCLabels
    Exempting <- MCExempting
    Deployed <- MCDeployed
    Usercased <- MCUsercased
    Looker = {l1}
    Asker = {a1}
    Reported <- MCReported
    Assistants <- MCAssistants
    MaxStamp = 3
INVARIANTS FormsSettle FormsKeep FormsHide ProxiesFollow ReadersFollow ChoicesAccepted PickerIsValidator
CHECK_DEADLOCK FALSE
