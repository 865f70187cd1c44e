------------------------------ MODULE PageForms ------------------------------
(* The fields of the administration pages: what a row of each page holds,     *)
(* what its dialog offers, is filled with and sends, what its switch sends,   *)
(* what the server stores of a request, and which operations a row offers and *)
(* are followed by a refetch of the list.  A value is <<who, of>>: who put it *)
(* there and for which row; a value that is dropped is blank.                 *)

-----------------------------------------------------------------------------
(* Providers.tsx.                                                             *)

ProviderFields == {"name", "protocol", "base_url", "api_key", "enabled", "remark"}
ProvidersHidden == {"api_key"}
ProvidersNew == {"protocol", "enabled"}
ProvidersFill == {"name", "protocol", "base_url", "enabled", "remark"}
\* Mutant: the key of an earlier dialog stays in the form.
KeyKept == {}
ProvidersClear == {"api_key"}
ProvidersItems == {"name", "protocol", "base_url", "api_key", "enabled", "remark"}
ProvidersNeeds(edit) == {"name", "protocol", "base_url"} \cup (IF edit THEN {} ELSE {"api_key"})
ProvidersSends == {"name", "protocol", "base_url", "api_key", "enabled", "remark"}
ProvidersToggles == {"name", "protocol", "base_url", "remark"}
ProvidersRowOps == {"edit", "toggle", "delete"}
ProvidersPageOps == {"create"}
ProvidersAfter == {"create", "update", "toggle", "delete"}
\* An empty key leaves the stored one.
updateProvider(body) ==
    {"name", "protocol", "base_url", "enabled", "remark"}
        \cup {f \in {"api_key"} : body[f][1] # "blank"}

(* Models.tsx.  The upstreams of an alias are one field: both forms send all. *)

ModelFields == {"alias", "enabled", "remark", "default_max_tokens", "upstreams"}
ModelsNew == {"enabled", "upstreams"}
ModelsFill == {"alias", "enabled", "remark", "default_max_tokens", "upstreams"}
ModelsItems == {"alias", "enabled", "remark", "default_max_tokens", "upstreams"}
ModelsNeeds == {"alias", "upstreams"}
ModelsSends == {"alias", "enabled", "remark", "default_max_tokens", "upstreams"}
ModelsToggles == {"alias", "remark", "default_max_tokens", "upstreams"}
ModelsRowOps == {"edit", "toggle", "delete"}
ModelsPageOps == {"create"}
ModelsAfter == {"create", "update", "toggle", "delete"}
updateModel == {"alias", "enabled", "remark", "default_max_tokens", "upstreams"}

(* Keywords.tsx.                                                              *)

KeywordFields == {"word", "category", "match_mode", "action", "enabled"}
KeywordsNew == {"category", "match_mode", "action", "enabled"}
KeywordsFill == {"word", "category", "match_mode", "action", "enabled"}
KeywordsItems == {"word", "category", "match_mode", "action", "enabled"}
KeywordsNeeds == {"word", "category", "match_mode", "action"}
KeywordsSends == {"word", "category", "match_mode", "action", "enabled"}
KeywordsToggles == {"word", "category", "match_mode", "action"}
KeywordsRowOps == {"edit", "toggle", "delete"}
KeywordsPageOps == {"create", "import"}
KeywordsDialog == [import |-> 1]
\* Mutant: an import does not invalidate the list.
ImportNotAfter == {"create", "update", "toggle", "delete"}
KeywordsAfter == {"create", "update", "toggle", "delete", "import"}
updateKeyword == {"word", "category", "match_mode", "action", "enabled"}

(* PiiRules.tsx.                                                              *)

PiiFields == {"name", "category", "pattern", "replacement", "action", "enabled"}
PiiNew == {"action", "enabled"}
PiiFill == {"name", "category", "pattern", "replacement", "action", "enabled"}
PiiItems == {"name", "category", "pattern", "replacement", "action", "enabled"}
PiiNeeds == {"name", "category", "pattern", "action"}
PiiSends == {"name", "category", "pattern", "replacement", "action", "enabled"}
\* Mutant: the switch forgets a field the server stores.
ReplacementNotSent == {"name", "category", "pattern", "action"}
PiiToggles == {"name", "category", "pattern", "replacement", "action"}
PiiRowOps == {"edit", "toggle", "delete"}
PiiPageOps == {"create", "templates"}
PiiDialog == [templates |-> 2]
PiiAfter == {"create", "update", "toggle", "delete", "templates"}
updatePiiRule == {"name", "category", "pattern", "replacement", "action", "enabled"}

(* InjectionRules.tsx.                                                        *)

InjectionFields == {"name", "pattern", "match_mode", "action", "enabled"}
InjectionNew == {"match_mode", "action", "enabled"}
InjectionFill == {"name", "pattern", "match_mode", "action", "enabled"}
InjectionItems == {"name", "pattern", "match_mode", "action", "enabled"}
InjectionNeeds == {"name", "pattern", "match_mode", "action"}
InjectionSends == {"name", "pattern", "match_mode", "action", "enabled"}
InjectionToggles == {"name", "pattern", "match_mode", "action"}
InjectionRowOps == {"edit", "toggle", "delete"}
InjectionPageOps == {"create", "templates"}
InjectionDialog == [templates |-> 2]
InjectionAfter == {"create", "update", "toggle", "delete", "templates"}
updateInjectionRule == {"name", "pattern", "match_mode", "action", "enabled"}

(* Quotas.tsx.  An over_action that this administrator types is "reject", any *)
(* other is "degrade": the alias to degrade to is an item, and is sent, only  *)
(* with the latter.                                                           *)

QuotaFields == {"api_key_id", "model_alias", "quota_type", "period", "limit",
                "over_action", "degrade_alias", "enabled", "used"}
QuotasNew == {"quota_type", "period", "over_action", "enabled"}
QuotasFill == {"api_key_id", "model_alias", "quota_type", "period", "limit",
               "over_action", "degrade_alias", "enabled"}
Degrades(v) == v["over_action"][1] \in {"old", "theirs"}
QuotasItems(v) ==
    {"api_key_id", "model_alias", "quota_type", "period", "limit", "over_action", "enabled"}
        \cup (IF Degrades(v) THEN {"degrade_alias"} ELSE {})
QuotasNeeds(v) ==
    {"api_key_id", "model_alias", "quota_type", "period", "limit", "over_action"}
        \cup (IF Degrades(v) THEN {"degrade_alias"} ELSE {})
QuotasSends(v) ==
    {"api_key_id", "model_alias", "quota_type", "period", "limit", "over_action", "enabled"}
        \cup (IF Degrades(v) THEN {"degrade_alias"} ELSE {})
QuotasToggles == {"api_key_id", "model_alias", "quota_type", "period", "limit",
                  "over_action", "degrade_alias"}
QuotasRowOps == {"edit", "toggle", "delete", "reset"}
QuotasPageOps == {"create", "batch"}
\* A batch with a wrong line is not sent.
QuotasDialog == [batch |-> 1]
QuotasAfter == {"create", "update", "toggle", "delete", "reset", "batch"}
updateQuota == {"api_key_id", "model_alias", "quota_type", "period", "limit",
                "over_action", "degrade_alias", "enabled"}

(* RateLimits.tsx.                                                            *)

RateLimitFields == {"api_key_id", "model_alias", "window_seconds", "max_requests",
                    "enabled", "total_hits"}
RateLimitsNew == {"api_key_id", "model_alias", "enabled"}
RateLimitsFill == {"api_key_id", "model_alias", "window_seconds", "max_requests", "enabled"}
RateLimitsItems == {"api_key_id", "model_alias", "window_seconds", "max_requests", "enabled"}
RateLimitsNeeds == {"api_key_id", "model_alias", "window_seconds", "max_requests"}
RateLimitsSends == {"api_key_id", "model_alias", "window_seconds", "max_requests", "enabled"}
RateLimitsToggles == {"api_key_id", "model_alias", "window_seconds", "max_requests"}
RateLimitsRowOps == {"edit", "toggle", "delete"}
RateLimitsPageOps == {"create"}
RateLimitsAfter == {"create", "update", "toggle", "delete"}
updateRateLimit == {"api_key_id", "model_alias", "window_seconds", "max_requests", "enabled"}

(* ApiKeys.tsx.  The switch is an item of the edit dialog only; the dialog of *)
(* a new key and the one of an old key share the form.                        *)

ApiKeyFields == {"name", "remark", "enabled", "allowed_models", "ip_allowlist", "ip_allowlist_enabled"}
ApiKeysNew == {}
ApiKeysFill == {"name", "remark", "enabled", "allowed_models", "ip_allowlist", "ip_allowlist_enabled"}
ApiKeysItems(edit) ==
    {"name", "remark", "allowed_models", "ip_allowlist", "ip_allowlist_enabled"}
        \cup (IF edit THEN {"enabled"} ELSE {})
ApiKeysNeeds == {"name"}
ApiKeysSends == {"name", "remark", "enabled", "allowed_models", "ip_allowlist", "ip_allowlist_enabled"}
ApiKeysToggles == {"name", "remark", "allowed_models", "ip_allowlist", "ip_allowlist_enabled"}
ApiKeysRowOps == {"edit", "toggle", "delete"}
ApiKeysPageOps == {"create"}
ApiKeysAfter == {"create", "update", "toggle", "delete"}
updateApiKey == {"name", "remark", "enabled", "allowed_models", "ip_allowlist", "ip_allowlist_enabled"}

(* Security.tsx, the administrators, and Backup.tsx.  No dialog edits a row;  *)
(* each operation of a row sets its columns.                                  *)

UserFields == {"username", "password", "role", "mfa_required", "mfa_enabled", "locked"}
UsersHidden == {"password"}
UsersItems == {"username", "password", "role"}
UsersNeeds == {"username", "password"}
UsersRowOps == {"role", "password", "unbind", "required", "unlock", "delete"}
UsersPageOps == {"create"}
UsersAfter == {"create", "role", "password", "unbind", "required", "unlock", "delete"}
\* An unbinding takes the requirement back too, a new password unlocks.
Sets == [
    role |-> {"role"}, password |-> {"password", "locked"},
    unbind |-> {"mfa_enabled", "mfa_required"}, required |-> {"mfa_required"},
    unlock |-> {"locked"}, reset |-> {"used"}]

BackupFields == {"filename", "content"}
BackupsHidden == {"content"}
BackupsRowOps == {"restore", "delete"}
BackupsPageOps == {"backup", "restore"}
BackupsDialog == [backup |-> 1, restore |-> 1]
BackupsAfter == {"backup", "restore", "delete"}

-----------------------------------------------------------------------------
(* The pages side by side.                                                    *)

All == {"providers", "models", "keywords", "pii", "injection", "quotas",
        "ratelimits", "apikeys", "users", "backups"}

Fields == [
    providers |-> ProviderFields, models |-> ModelFields, keywords |-> KeywordFields,
    pii |-> PiiFields, injection |-> InjectionFields, quotas |-> QuotaFields,
    ratelimits |-> RateLimitFields, apikeys |-> ApiKeyFields,
    users |-> UserFields, backups |-> BackupFields]
Hidden == [p \in All |->
    CASE p = "providers" -> ProvidersHidden [] p = "users" -> UsersHidden
      [] p = "backups" -> BackupsHidden [] OTHER -> {}]
\* What a deletion empties by a statement of its own, before the row goes.
EmptiedFirst == [p \in All |->
    CASE p = "users" -> {"mfa_enabled"} [] p = "models" -> {"upstreams"} [] OTHER -> {}]
Presets == [
    providers |-> ProvidersNew, models |-> ModelsNew, keywords |-> KeywordsNew,
    pii |-> PiiNew, injection |-> InjectionNew, quotas |-> QuotasNew,
    ratelimits |-> RateLimitsNew, apikeys |-> ApiKeysNew, users |-> {}, backups |-> {}]
Filled == [
    providers |-> ProvidersFill, models |-> ModelsFill, keywords |-> KeywordsFill,
    pii |-> PiiFill, injection |-> InjectionFill, quotas |-> QuotasFill,
    ratelimits |-> RateLimitsFill, apikeys |-> ApiKeysFill, users |-> {}, backups |-> {}]
Cleared == [p \in All |-> IF p = "providers" THEN ProvidersClear ELSE {}]
Toggles == [
    providers |-> ProvidersToggles, models |-> ModelsToggles, keywords |-> KeywordsToggles,
    pii |-> PiiToggles, injection |-> InjectionToggles, quotas |-> QuotasToggles,
    ratelimits |-> RateLimitsToggles, apikeys |-> ApiKeysToggles, users |-> {}, backups |-> {}]
RowOps == [
    providers |-> ProvidersRowOps, models |-> ModelsRowOps, keywords |-> KeywordsRowOps,
    pii |-> PiiRowOps, injection |-> InjectionRowOps, quotas |-> QuotasRowOps,
    ratelimits |-> RateLimitsRowOps, apikeys |-> ApiKeysRowOps,
    users |-> UsersRowOps, backups |-> BackupsRowOps]
PageOps == [
    providers |-> ProvidersPageOps, models |-> ModelsPageOps, keywords |-> KeywordsPageOps,
    pii |-> PiiPageOps, injection |-> InjectionPageOps, quotas |-> QuotasPageOps,
    ratelimits |-> RateLimitsPageOps, apikeys |-> ApiKeysPageOps,
    users |-> UsersPageOps, backups |-> BackupsPageOps]
\* How many requests a dialog without a row sends: one for all the lines or the
\* file, one for each template that is checked (two of them).
Dialogs == [
    keywords |-> KeywordsDialog, pii |-> PiiDialog, injection |-> InjectionDialog,
    quotas |-> QuotasDialog, backups |-> BackupsDialog]
After == [
    providers |-> ProvidersAfter, models |-> ModelsAfter, keywords |-> KeywordsAfter,
    pii |-> PiiAfter, injection |-> InjectionAfter, quotas |-> QuotasAfter,
    ratelimits |-> RateLimitsAfter, apikeys |-> ApiKeysAfter,
    users |-> UsersAfter, backups |-> BackupsAfter]

\* The items of the dialog with values v, what must not be blank, and what is sent.
Items(p, edit, v) ==
    CASE p = "providers" -> ProvidersItems [] p = "models" -> ModelsItems
      [] p = "keywords" -> KeywordsItems [] p = "pii" -> PiiItems
      [] p = "injection" -> InjectionItems [] p = "quotas" -> QuotasItems(v)
      [] p = "ratelimits" -> RateLimitsItems [] p = "apikeys" -> ApiKeysItems(edit)
      [] p = "users" -> UsersItems [] OTHER -> {}
Needs(p, edit, v) ==
    CASE p = "providers" -> ProvidersNeeds(edit) [] p = "models" -> ModelsNeeds
      [] p = "keywords" -> KeywordsNeeds [] p = "pii" -> PiiNeeds
      [] p = "injection" -> InjectionNeeds [] p = "quotas" -> QuotasNeeds(v)
      [] p = "ratelimits" -> RateLimitsNeeds [] p = "apikeys" -> ApiKeysNeeds
      [] p = "users" -> UsersNeeds [] OTHER -> {}
Sends(p, v) ==
    CASE p = "providers" -> ProvidersSends [] p = "models" -> ModelsSends
      [] p = "keywords" -> KeywordsSends [] p = "pii" -> PiiSends
      [] p = "injection" -> InjectionSends [] p = "quotas" -> QuotasSends(v)
      [] p = "ratelimits" -> RateLimitsSends [] p = "apikeys" -> ApiKeysSends
      [] p = "users" -> UsersItems [] OTHER -> {}

\* What the server's update of page p takes over from a body.
Updates(p, body) ==
    CASE p = "providers" -> updateProvider(body) [] p = "models" -> updateModel
      [] p = "keywords" -> updateKeyword [] p = "pii" -> updatePiiRule
      [] p = "injection" -> updateInjectionRule [] p = "quotas" -> updateQuota
      [] p = "ratelimits" -> updateRateLimit [] p = "apikeys" -> updateApiKey

=============================================================================
