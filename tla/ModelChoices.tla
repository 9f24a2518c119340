---------------------------- MODULE ModelChoices ----------------------------
(***************************************************************************)
(* Which models, thinking levels and context sizes a member may pick, what *)
(* a stored choice means for a model, and how a choice is checked.  A      *)
(* catalog is what a runtime reported of Copilot's models: a function from *)
(* model ids to rows with a window (0: none reported) and the efforts the  *)
(* row lists ({}: none).  Before any runtime has answered it is NoCatalog. *)
(***************************************************************************)
EXTENDS Integers, Sequences, FiniteSets

CONSTANTS
    AutoIds,        \* Copilot's auto ids, in no catalog row
    Static,         \* the Copilot models the Portal lists itself, AutoIds among them
    AiModels,       \* the models of AI Platform
    Retired,        \* well-formed ids GitHub has retired
    Malformed       \* what is no model id at all

ASSUME ChoicesAssumption ==
    /\ AutoIds \subseteq Static
    /\ "" \notin Static \cup AiModels

Copilot    == "github_copilot"
AiPlatform == "ai_platform"
NoCatalog  == <<>>
\* Blank ids are dropped when a catalog is projected, windows are positive or absent.
IsCatalog(cat) ==
    \A m \in DOMAIN cat : m # "" /\ cat[m].window \in Nat

Efforts        == <<"low", "medium", "high", "xhigh", "max">>
DefaultEffort  == "medium"
EffortRank(e)  == CHOOSE i \in 1..5 : Efforts[i] = e
AllEfforts     == {Efforts[i] : i \in 1..5}

\* Context sizes in thousands of tokens.
Presets        == {64, 128, 256, 1000}
DefaultContext == 256
MaxContext     == 1000
Largest(S)     == CHOOSE x \in S : \A y \in S : y <= x
Smallest(S)    == CHOOSE x \in S : \A y \in S : x <= y

\* Any alias of AI Platform is it; whatever else, blank too, is Copilot.
Provider(v) == IF v \in {"ai_platform", "ai-platform", "ai platform"} THEN AiPlatform ELSE Copilot

StaticModels(p)  == IF Provider(p) = AiPlatform THEN AiModels ELSE Static
DefaultModel(p)  == IF Provider(p) = AiPlatform THEN "gpt-5.4" ELSE "auto"

\* The static list always; on Copilot the catalog's ids, or before any catalog whatever
\* is well-formed and not retired.
Selectable(cat, p, m) ==
    /\ m # ""
    /\ \/ m \in StaticModels(p)
       \/ /\ Provider(p) = Copilot
          /\ IF cat # NoCatalog THEN m \in DOMAIN cat ELSE m \notin Retired \cup Malformed

\* A stored model the provider does not have is repaired to its default.
Coerced(cat, p, m) == IF Selectable(cat, p, m) THEN m ELSE DefaultModel(p)

\* 0: unknown, the ladder applies.
Window(cat, p, m) ==
    IF Provider(p) = Copilot /\ m \in DOMAIN cat /\ cat[m].window > 0 THEN cat[m].window
    ELSE IF m \in StaticModels(p) THEN MaxContext ELSE 0

\* The presets up to the window, which closes the list.
Sizes(cat, p, m) ==
    LET w == Window(cat, p, m)
    IN  IF w = 0 \/ w >= MaxContext THEN Presets
        ELSE {s \in Presets : s <= w} \cup {w}

DefaultSize(cat, p, m) ==
    LET upto == {s \in Sizes(cat, p, m) : s <= DefaultContext}
    IN  IF upto = {} THEN Smallest(Sizes(cat, p, m)) ELSE Largest(upto)

\* What a stored size (0: none) means for the model.
EffectiveSize(cat, p, m, size) ==
    LET offered == Sizes(cat, p, m)
    IN  IF size \in offered THEN size
        ELSE IF size > Largest(offered) THEN Largest(offered)
        ELSE DefaultSize(cat, p, m)

EffortOptions(cat, p, m) ==
    LET listed == IF Provider(p) = Copilot /\ m \in DOMAIN cat
                    THEN cat[m].efforts \cap AllEfforts ELSE {}
    IN  IF listed = {} THEN AllEfforts ELSE listed

\* The level itself, else the nearest lower one offered, else the nearest higher.
EffectiveEffort(cat, p, m, effort) ==
    LET offered == {EffortRank(e) : e \in EffortOptions(cat, p, m)}
        wanted  == EffortRank(IF effort \in AllEfforts THEN effort ELSE DefaultEffort)
        upto    == {i \in offered : i <= wanted}
    IN  Efforts[IF upto = {} THEN Smallest(offered) ELSE Largest(upto)]

-----------------------------------------------------------------------------
(* Choices of a request or of a session.  "" and 0 are no choice. *)

NoChoice == [model |-> "", effort |-> "", size |-> 0]

\* profile: provider ("" when none is set), model ("" likewise), effort, size and the
\* kind of the assistant's runtime.
ModelSettings == [provider : STRING, model : STRING, effort : STRING, size : Nat, runtime : STRING]

ChosenModel(profile, choice) ==
    IF choice.model # "" THEN choice.model
    ELSE IF profile.model # "" THEN profile.model ELSE DefaultModel(profile.provider)

SupportsSize(profile) == profile.provider # "" /\ profile.runtime # "opencode"

\* A choice is refused as a whole when one of its parts is not offered for its model.
Accepted(cat, profile, choice) ==
    LET m == ChosenModel(profile, choice)
    IN  /\ choice.model # "" => Selectable(cat, profile.provider, choice.model)
        /\ choice.effort # "" => /\ profile.provider # ""
                                 /\ choice.effort \in EffortOptions(cat, profile.provider, m)
        /\ choice.size # 0 => /\ SupportsSize(profile)
                              /\ choice.size \in Sizes(cat, profile.provider, m)
                              /\ LET w == Window(cat, profile.provider, m)
                                 IN  w # 0 => choice.size <= w

\* What the composer shows as the assistant's own settings, and what it offers.
Shown(cat, profile) ==
    [model  |-> profile.model,
     effort |-> EffectiveEffort(cat, profile.provider, profile.model, profile.effort),
     size   |-> IF profile.size \in Sizes(cat, profile.provider, profile.model) THEN profile.size
                ELSE IF SupportsSize(profile)
                  THEN EffectiveSize(cat, profile.provider, profile.model, profile.size)
                ELSE 0]
OfferedModels(cat, profile) ==
    IF profile.provider = "" THEN {}
    ELSE IF profile.provider = Copilot /\ cat # NoCatalog THEN AutoIds \cup DOMAIN cat
    ELSE StaticModels(profile.provider)
OfferedEfforts(cat, profile) ==
    IF profile.provider = "" THEN {}
    ELSE EffortOptions(cat, profile.provider, ChosenModel(profile, NoChoice))
\* Mutant: every preset, whatever the window.
OfferedPresets(cat, profile) == IF SupportsSize(profile) THEN Presets ELSE {}
OfferedSizes(cat, profile) ==
    IF SupportsSize(profile) THEN Sizes(cat, profile.provider, ChosenModel(profile, NoChoice))
    ELSE {}

\* A chat request: its own choice, even an explicit "default", keeps the session's stored
\* one away; a stored one the profile no longer offers is ignored as a whole.
ForChat(cat, profile, named, choice, stored) ==
    IF named \/ ~Accepted(cat, profile, stored) THEN choice ELSE stored

-----------------------------------------------------------------------------
\* What is offered is accepted, and what is shown of the assistant is offered.
OfferedAccepted(cat, profile) ==
    /\ \A m \in OfferedModels(cat, profile) : Accepted(cat, profile, [NoChoice EXCEPT !.model = m])
    /\ \A e \in OfferedEfforts(cat, profile) : Accepted(cat, profile, [NoChoice EXCEPT !.effort = e])
    /\ \A k \in OfferedSizes(cat, profile) : Accepted(cat, profile, [NoChoice EXCEPT !.size = k])
    /\ profile.provider # "" /\ profile.model # "" =>
          /\ Shown(cat, profile).effort \in OfferedEfforts(cat, profile)
          /\ SupportsSize(profile) => Shown(cat, profile).size \in OfferedSizes(cat, profile)
=============================================================================
