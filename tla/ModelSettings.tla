--------------------------- MODULE ModelSettings ---------------------------
(***************************************************************************)
(* The harness's model, role and parameters: what each model allows, how a *)
(* role or a saved state chooses, what a request of a UI changes, saves and *)
(* announces, and what a new harness reads back.                            *)
(* `h` is the harness's selection: [model, role, params, roles, overrides]. *)
(* `file` is harness.json5 in the state directory: [model, role, params,    *)
(* overrides].  `out` is what is published, in order.                       *)
(***************************************************************************)
EXTENDS Integers, Sequences, SequencesExt, TLC

CONSTANTS
    Available,      \* the models of the registry, sorted
    Registry,       \* [model -> [custom: efforts or <<>>, reasoning, xhigh,
                    \*            verbosity, summary: BOOLEAN]]
    DefaultRoles,   \* [role -> AgentRole]: built in or configured
    RoleOrder,      \* every role name, sorted
    DefaultModel,   \* default_model of the settings, or None
    DefaultParams   \* default_params of the settings: [model -> params]

None == "none"

BaseAgentRole == "smart"

(* AgentRole::default: every field is left to the model. *)
NoRole == [model |-> None, effort |-> None, tier |-> None, verbosity |-> None, summary |-> None]

OrElse(value, other) == IF value = None THEN other ELSE value

FirstOf(s, other) == IF s = << >> THEN other ELSE s[1]

-----------------------------------------------------------------------------
(* What a model allows.                                                     *)

EffortsFor(model) ==
    IF model = None THEN << >>
    ELSE LET m == Registry[model]
         IN  CASE m.custom # << >> -> m.custom
               [] m.custom = << >> /\ ~m.reasoning -> << "off" >>
               [] OTHER -> << "off", "minimal", "low", "medium", "high" >>
                           \o (IF m.xhigh THEN << "xhigh" >> ELSE << >>)

VerbositiesFor(model) ==
    CASE model = None -> << >>
      [] model # None /\ Registry[model].verbosity -> << "low", "medium", "high" >>
      [] OTHER -> << "medium" >>

SummariesFor(model) ==
    CASE model = None -> << >>
      [] model # None /\ Registry[model].summary -> << "off", "auto", "concise", "detailed" >>
      [] OTHER -> << "off" >>

(* The first of the fallbacks that is allowed, or what is listed first. *)
Clamp(level, allowed, fallbacks, last) ==
    LET fits == SelectSeq(<< level >> \o fallbacks, LAMBDA x : Contains(allowed, x))
    IN  FirstOf(fits, FirstOf(allowed, last))

ClampEffort(level, allowed) ==
    Clamp(level, allowed, IF level = "xhigh" THEN << "high", "off" >> ELSE << "off" >>, "off")

ClampVerbosity(level, allowed) == Clamp(level, allowed, << "medium" >>, "medium")

ClampSummary(level, allowed) == Clamp(level, allowed, << "off" >>, "off")

MiddleEffort(allowed) == IF allowed = << >> THEN "off" ELSE allowed[(Len(allowed) \div 2) + 1]

DefaultVerbosity(allowed) == IF Contains(allowed, "low") THEN "low" ELSE FirstOf(allowed, "low")

DefaultSummary(allowed) ==
    FirstOf(SelectSeq(<< "auto", "off" >>, LAMBDA x : Contains(allowed, x)), FirstOf(allowed, "off"))

ClampedParams(model, wish) ==
    [effort    |-> ClampEffort(OrElse(wish.effort, MiddleEffort(EffortsFor(model))),
                               EffortsFor(model)),
     tier      |-> wish.tier,
     verbosity |-> ClampVerbosity(OrElse(wish.verbosity,
                                         DefaultVerbosity(VerbositiesFor(model))),
                                  VerbositiesFor(model)),
     summary   |-> ClampSummary(OrElse(wish.summary, DefaultSummary(SummariesFor(model))),
                                SummariesFor(model))]

(* ModelParams::default, when no model is selected. *)
NoParams == [effort |-> "off", tier |-> None, verbosity |-> "low", summary |-> "off"]

-----------------------------------------------------------------------------
(* Roles and saved parameters.                                              *)

RoleOf(roles, role) == IF role \in DOMAIN roles THEN roles[role] ELSE NoRole

ModelForRole(roles, role) ==
    LET model == OrElse(RoleOf(roles, role).model, FirstOf(Available, None))
    IN  IF Contains(Available, model) THEN model ELSE None

SelectedParamsForRole(roles, role, model) == ClampedParams(model, RoleOf(roles, role))

SelectedParamsForModel(file, model) ==
    ClampedParams(model, CASE model \in DOMAIN DefaultParams -> DefaultParams[model]
                           [] model \notin DOMAIN DefaultParams /\ model \in DOMAIN file.params ->
                                  file.params[model]
                           [] OTHER -> NoRole)

NoFile == [model |-> None, role |-> None, params |-> [m \in {} |-> NoParams],
           overrides |-> [r \in {} |-> NoRole]]

(* Read, change two keys, write. *)
SaveRoleOverrides(file, role, overrides) == [file EXCEPT !.role = role, !.overrides = overrides]

SaveHarnessState(file, model, params) ==
    [file EXCEPT !.model = model,
                 !.params = IF model = None THEN @ ELSE (model :> params) @@ @]

(* What a new harness selects: load_model_list and the constructor. *)
LoadModelList(file) ==
    LET overrides == [r \in DOMAIN file.overrides \intersect DOMAIN DefaultRoles |->
                         file.overrides[r]]
        roles == overrides @@ DefaultRoles
        role  == CASE file.role \in DOMAIN roles -> file.role
                   [] file.role \notin DOMAIN roles /\ BaseAgentRole \in DOMAIN roles ->
                          BaseAgentRole
                   [] OTHER -> FirstOf(SelectSeq(RoleOrder, LAMBDA r : r \in DOMAIN roles), None)
        known(model) == IF Contains(Available, model) THEN model ELSE None
        model == OrElse(IF role = None THEN None ELSE ModelForRole(roles, role),
                        OrElse(known(DefaultModel),
                               OrElse(known(file.model), FirstOf(Available, None))))
    IN  [model |-> model, role |-> role, roles |-> roles, overrides |-> overrides,
         params |-> CASE model = None -> NoParams
                      [] model # None /\ role # None -> SelectedParamsForRole(roles, role, model)
                      [] OTHER -> SelectedParamsForModel(file, model)]

-----------------------------------------------------------------------------
(* What is announced.                                                       *)

Info == [t |-> "HarnessInfo"]

EffortChanged(h) == [t |-> "HarnessEffortChanged", level |-> h.params.effort]
TierChanged(h) == [t |-> "HarnessServiceTierChanged", tier |-> h.params.tier]
VerbosityChanged(h) == [t |-> "HarnessVerbosityChanged", level |-> h.params.verbosity]
SummaryChanged(h) == [t |-> "HarnessThinkingSummaryChanged", level |-> h.params.summary]
ModelSelected(h) == [t |-> "HarnessModelSelected", model |-> h.model, role |-> h.role]
ContextUsageChanged(context) == [t |-> "HarnessContextUsageChanged", context |-> context]
EffortsAvailable(h) == [t |-> "HarnessEffortsAvailable", levels |-> EffortsFor(h.model)]
RolesAvailable(h) ==
    [t |-> "HarnessRolesAvailable",
     roles |-> SelectSeq(RoleOrder, LAMBDA r : r \in DOMAIN h.roles)]

(* After a model or a role is picked; its context usage is unknown. *)
SelectionEvents(h) ==
    << ModelSelected(h), ContextUsageChanged(None), EffortChanged(h), EffortsAvailable(h),
       TierChanged(h), VerbosityChanged(h), SummaryChanged(h) >>

(* Fault: a UI that comes late is not told the verbosity. *)
ReplayHarnessInfoNoVerbosity(h, context) ==
    << RolesAvailable(h), ModelSelected(h), ContextUsageChanged(context), EffortChanged(h),
       EffortsAvailable(h), SummaryChanged(h) >>

(* What a UI that comes late is told; never the service tier. *)
ReplayHarnessInfo(h, context) ==
    << RolesAvailable(h), ModelSelected(h), ContextUsageChanged(context), EffortChanged(h),
       EffortsAvailable(h), VerbosityChanged(h), SummaryChanged(h) >>

-----------------------------------------------------------------------------
(* The requests of a UI.                                                    *)

Done(h, file, out) == [h |-> h, file |-> file, out |-> out]

UiModelSelect(h, file, req) ==
    LET params == SelectedParamsForModel(file, req.model)
        now    == [h EXCEPT !.model = req.model, !.role = None, !.params = params]
    IN  IF Contains(Available, req.model)
        THEN Done(now, SaveHarnessState(file, req.model, params), SelectionEvents(now))
        ELSE Done(h, file, << Info >>)

UiRoleSelect(h, file, req) ==
    LET model  == ModelForRole(h.roles, req.role)
        params == SelectedParamsForRole(h.roles, req.role, model)
        now    == [h EXCEPT !.model = model, !.role = req.role, !.params = params]
        saved  == SaveHarnessState(SaveRoleOverrides(file, req.role, h.overrides), model, params)
    IN  IF req.role \notin DOMAIN h.roles \/ model = None THEN Done(h, file, << Info >>)
        ELSE Done(now, saved, SelectionEvents(now))

WithoutRole(roles, role) == [r \in DOMAIN roles \ {role} |-> roles[r]]

(* /role: one field of a role, or the whole role, or a refusal. *)
RoleUpdated(h, req) ==
    LET next == [RoleOf(h.roles, req.role) EXCEPT ![req.setting] = req.value]
    IN  CASE req.action = "delete" ->
                 [h EXCEPT !.roles = WithoutRole(@, req.role),
                           !.overrides = WithoutRole(@, req.role),
                           !.role = IF @ = req.role THEN None ELSE @]
          [] req.action = "set" ->
                 [h EXCEPT !.roles = (req.role :> next) @@ @,
                           !.overrides = (req.role :> next) @@ @]
          [] OTHER -> h

(* The role in use is applied at once, but only the list is announced. *)
UiRoleUpdate(h, file, req) ==
    LET updated == RoleUpdated(h, req)
        model   == ModelForRole(updated.roles, req.role)
        params  == SelectedParamsForRole(updated.roles, req.role, model)
        applies == updated.role = req.role /\ model # None
        now     == IF applies THEN [updated EXCEPT !.model = model, !.params = params] ELSE updated
        saved   == IF applies THEN SaveHarnessState(file, model, params) ELSE file
        refused == IF req.action = "invalid" THEN << Info >> ELSE << >>
    IN  Done(now, SaveRoleOverrides(saved, now.role, now.overrides),
             refused \o << RolesAvailable(now) >>)

(* One parameter is set; in a role it also becomes the role's. *)
SetParam(h, file, field, value, out(_)) ==
    LET InRole(roles) == (h.role :> [RoleOf(roles, h.role) EXCEPT ![field] = value]) @@ roles
        set   == [h EXCEPT !.params[field] = value]
        now   == IF h.role = None THEN set
                 ELSE [set EXCEPT !.roles = InRole(@), !.overrides = InRole(@)]
        saved == IF h.role = None THEN file ELSE SaveRoleOverrides(file, h.role, now.overrides)
    IN  Done(now, SaveHarnessState(saved, now.model, now.params), out(now))

UiSetEffort(h, file, req) ==
    LET level == ClampEffort(req.level, EffortsFor(h.model))
    IN  SetParam(h, file, "effort", level,
                 LAMBDA now : (IF level = req.level THEN << >> ELSE << Info >>)
                              \o << EffortChanged(now) >>)

UiSetServiceTier(h, file, req) ==
    SetParam(h, file, "tier", req.tier, LAMBDA now : << Info, TierChanged(now) >>)

UiSetVerbosity(h, file, req) ==
    LET level == ClampVerbosity(req.level, VerbositiesFor(h.model))
    IN  SetParam(h, file, "verbosity", level,
                 LAMBDA now : (IF level = req.level THEN << >> ELSE << Info >>)
                              \o << VerbosityChanged(now) >>)

UiSetThinkingSummary(h, file, req) ==
    LET level == ClampSummary(req.level, SummariesFor(h.model))
    IN  SetParam(h, file, "summary", level,
                 LAMBDA now : (IF level = req.level THEN << >> ELSE << Info >>)
                              \o << SummaryChanged(now) >>)

SettingRequests == {"UiModelSelect", "UiRoleSelect", "UiRoleUpdate", "UiSetEffort",
                    "UiSetServiceTier", "UiSetVerbosity", "UiSetThinkingSummary"}

HandleSetting(h, file, req) ==
    CASE req.t = "UiModelSelect" -> UiModelSelect(h, file, req)
      [] req.t = "UiRoleSelect" -> UiRoleSelect(h, file, req)
      [] req.t = "UiRoleUpdate" -> UiRoleUpdate(h, file, req)
      [] req.t = "UiSetEffort" -> UiSetEffort(h, file, req)
      [] req.t = "UiSetServiceTier" -> UiSetServiceTier(h, file, req)
      [] req.t = "UiSetVerbosity" -> UiSetVerbosity(h, file, req)
      [] OTHER -> UiSetThinkingSummary(h, file, req)

=============================================================================
