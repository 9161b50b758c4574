----------------------------- MODULE ConfigForms -----------------------------
(***************************************************************************)
(* What the forms of config_flow.py do to stored settings: which fields    *)
(* they show and with which values, what they submit, and how a            *)
(* submission is normalised before it replaces the profile's options or is *)
(* merged into the system entry.  Stored settings are dictionaries, that   *)
(* is functions on the keys they have; a key's absence is part of the      *)
(* value.  One representative stands for each group of fields that the     *)
(* code treats alike.                                                      *)
(***************************************************************************)
EXTENDS Integers

CONSTANTS
  NoProfile,     \* there is no profile yet
  NewProfiles,   \* [kind, fields]: what is filled in when a profile is made
  ProfileEdits,  \* what is changed in the options form of a profile
  NewShared,     \* what is filled in when the first profile is made
  SharedEdits    \* what is changed in the form of the shared settings

VARIABLES
  profile,  \* [kind, entry], the entry as [data, options]
  sharedData,  \* the data of the system entry; Empty if there is none
  saved     \* what the last save was given, and what was before

formsVars == <<profile, sharedData, saved>>

Empty == <<>>
Blank == ""

\* d.get(key, default)
Get(d, key, default) == IF key \in DOMAIN d THEN d[key] ELSE default

\* {**d, **over}
Merge(d, over) ==
  [key \in DOMAIN d \cup DOMAIN over |-> IF key \in DOMAIN over THEN over[key] ELSE d[key]]

Without(d, keys) == [key \in DOMAIN d \ keys |-> d[key]]

\* A profile is of a provider with client-side prompts, or of an agent that
\* keeps its prompts and tool loop on its own server (manages_agent_loop).
Kinds == {"model", "agent"}

-----------------------------------------------------------------------------
(* Fields of a profile *)

FieldsOf(kind) ==
  {"mode", "phrases", "disable"} \cup
  (IF kind = "model" THEN {"prompt"} ELSE {"session_mode", "session_key"})

Default ==
  [mode |-> "default", phrases |-> "standard", disable |-> "off",
   prompt |-> "built_in", session_mode |-> "fixed", session_key |-> "main"]

\* Core shows these fields only while the field they depend on allows it.
Shown(field, values) ==
  CASE field = "phrases" -> values.mode # "none"
    [] field = "session_key" -> values.session_mode = "fixed"
    [] OTHER -> TRUE

\* The form is filled in with `values` and Core leaves out hidden fields.
Submitted(kind, values) ==
  [field \in {f \in FieldsOf(kind) : Shown(f, values)} |-> values[field]]

\* Mutant: fields that the form hid are left out of what is stored.
ForgetInactive(values, previous, kind) ==
  Merge([key \in {} \cap (DOMAIN previous \cap FieldsOf(kind)) |-> previous[key]], values)

\* _preserve_inactive_profile_values: a hidden field keeps its old value.
PreserveInactive(values, previous, kind) ==
  LET merged == Merge(previous, values)
      inactive ==
        {key \in {"phrases"} : Get(merged, "mode", Default.mode) = "none"} \cup
        {key \in FieldsOf(kind) \cap {"session_key"} :
           Get(merged, "session_mode", "absent") # "fixed"}
  IN  Merge([key \in inactive \cap DOMAIN previous |-> previous[key]], values)

\* _apply_profile_tool_disables: a ticked box stores "profile_enable" as
\* False, a clear one removes the key.
ApplyDisables(values) ==
  LET rest == Without(values, {"disable", "profile_enable"})
  IN  IF Get(values, "disable", "off") = "on"
      THEN Merge(rest, [profile_enable |-> "False"])
      ELSE rest

\* _normalize_prompt_inputs: only a prompt that differs from the built-in
\* one is stored; agents keep theirs on the server.
NormalizePrompts(values, kind) ==
  LET prompt == Get(values, "prompt", Blank)
      rest == Without(values, {"prompt"})
  IN  IF kind = "model" /\ prompt \notin {Blank, Default.prompt}
      THEN Merge(values, [prompt_mode |-> "custom"])
      ELSE Merge(rest, [prompt_mode |-> "default"])

\* The entry data made by the steps "model" and "advanced" of a new profile.
Created(kind, values) ==
  NormalizePrompts(
    PreserveInactive(ApplyDisables(Submitted(kind, values)), Empty, kind), kind)

\* The options that replace the old ones when the options flow ends.
OptionsAfter(kind, values, entry) ==
  NormalizePrompts(
    PreserveInactive(ApplyDisables(Submitted(kind, values)),
                     Merge(entry.data, entry.options), kind), kind)

Saved(kind, values, entry) ==
  [data |-> entry.data, options |-> OptionsAfter(kind, values, entry)]

\* The running profile reads options, then data, then its own default.
Stored(entry, key, default) ==
  Get(entry.options, key, Get(entry.data, key, default))

\* The prompt of the profile: the built-in one unless the mode is custom.
PromptOf(entry) ==
  IF Stored(entry, "prompt_mode", "default") = "custom"
  THEN Stored(entry, "prompt", Default.prompt) ELSE Default.prompt

\* The box is ticked if "profile_enable" is stored as False.
DisabledIn(entry) ==
  IF Stored(entry, "profile_enable", "True") = "False" THEN "on" ELSE "off"

Effective(kind, entry) ==
  [field \in FieldsOf(kind) |->
    CASE field = "disable" -> DisabledIn(entry)
      [] field = "prompt" -> PromptOf(entry)
      [] OTHER -> Stored(entry, field, Default[field])]

\* The response mode of the options form is looked up in the options alone.
ModeShown(entry) == Get(entry.options, "mode", Default.mode)

\* The options form of an agent, and that of the other providers.
AgentForm(entry) ==
  [mode |-> ModeShown(entry), phrases |-> Stored(entry, "phrases", Default.phrases),
   session_mode |-> Stored(entry, "session_mode", Default.session_mode),
   session_key |-> Stored(entry, "session_key", Default.session_key),
   disable |-> DisabledIn(entry)]

ModelForm(entry) ==
  [mode |-> ModeShown(entry), phrases |-> Stored(entry, "phrases", Default.phrases),
   prompt |-> PromptOf(entry), disable |-> DisabledIn(entry)]

OptionsForm(kind, entry) ==
  IF kind = "agent" THEN AgentForm(entry) ELSE ModelForm(entry)

\* The form for a new profile.
NewForm(kind) == [field \in FieldsOf(kind) |-> Default[field]]

-----------------------------------------------------------------------------
(* Fields of the shared settings *)

SharedDefault ==
  [search |-> "off", provider |-> "none", brave_key |-> Blank, searxng_url |-> Blank,
   bridge |-> "off", allowlist |-> Blank, max_ttl |-> 365, default_ttl |-> 30]

SharedShown(field, values) ==
  CASE field = "provider" -> values.search = "on"
    [] field = "brave_key" -> values.search = "on" /\ values.provider = "brave"
    [] field = "searxng_url" -> values.search = "on" /\ values.provider = "searxng"
    [] field = "allowlist" -> values.bridge = "on"
    [] OTHER -> TRUE

SharedSubmitted(values) ==
  [field \in {f \in DOMAIN values : SharedShown(f, values)} |-> values[field]]

\* The options form shows what the system entry has, the form for a first
\* profile shows the defaults even where a system entry exists.
SharedForm(stored) ==
  [field \in DOMAIN SharedDefault |-> Get(stored, field, SharedDefault[field])]

NewSharedForm == SharedDefault

Least(a, b) == IF a < b THEN a ELSE b
Greatest(a, b) == IF a < b THEN b ELSE a

\* _normalize_shared_tool_inputs
NormalizeShared(values, previous) ==
  LET search == Get(values, "search", "off")
      provider == Get(values, "provider", Get(previous, "provider", "absent"))
      inactive ==
        {key \in {"provider"} : search = "off"} \cup
        {key \in {"brave_key"} : search = "off" \/ provider # "brave"} \cup
        {key \in {"searxng_url"} : search = "off" \/ provider # "searxng"} \cup
        {key \in {"allowlist"} : Get(values, "bridge", "off") = "off"}
      kept == Merge([key \in inactive \cap DOMAIN previous |-> previous[key]], values)
      engine == Get(kept, "provider", "none")
      max == Greatest(1, kept.max_ttl)
  IN  Merge(kept,
        [provider |-> IF search = "on" /\ engine = "none" THEN "duckduckgo" ELSE engine,
         allowlist |-> Get(kept, "allowlist", Blank),
         max_ttl |-> max,
         default_ttl |-> Greatest(1, Least(kept.default_ttl, max))])

\* _validate_shared_search_settings
SearchComplete(values) ==
  ~ /\ Get(values, "search", "off") = "on"
    /\ values.provider = "searxng"
    /\ Get(values, "searxng_url", Blank) = Blank

\* The system entry after the form: a refused submission changes nothing.
SharedSaved(values, stored) ==
  LET normalized == NormalizeShared(SharedSubmitted(values), stored)
  IN  IF SearchComplete(normalized) THEN Merge(stored, normalized) ELSE stored

-----------------------------------------------------------------------------
(* Forms are opened and saved in any order: each opens with the values that  *)
(* OptionsForm and its like give, and the user changes some of them.  The    *)
(* options flow shows the two forms of a profile one after the other; here    *)
(* each is saved on its own, the other as it was.                             *)

\* The tick boxes are on or off, the lifetimes are numbers.
SharedValid(values) ==
  /\ DOMAIN values \subseteq DOMAIN SharedDefault
  /\ \A f \in {"search", "bridge"} \cap DOMAIN values : values[f] \in {"on", "off"}
  /\ \A f \in {"max_ttl", "default_ttl"} \cap DOMAIN values : values[f] \in Int

ASSUME FormsAssumption ==
  /\ \A made \in NewProfiles : made.kind \in Kinds
  /\ \A edit \in NewShared \cup SharedEdits : SharedValid(edit)

NothingSaved == [of |-> "none"]

FormsInit ==
  /\ profile = NoProfile
  /\ sharedData = Empty
  /\ saved = NothingSaved

CreateProfile(kind, made) ==
  /\ profile = NoProfile
  /\ profile' = [kind |-> kind,
                 entry |-> [data |-> Created(kind, Merge(NewForm(kind), made)), options |-> Empty]]
  /\ saved' = NothingSaved
  /\ UNCHANGED sharedData

ChangeProfile(edit) ==
  /\ profile # NoProfile
  /\ LET kind == profile.kind
         shown == OptionsForm(kind, profile.entry)
         given == Merge(shown, edit)
     IN  /\ profile' = [kind |-> kind, entry |-> Saved(kind, given, profile.entry)]
         /\ saved' = [of |-> "profile", shown |-> shown, given |-> given,
                      before |-> Effective(kind, profile.entry)]
  /\ UNCHANGED sharedData

SubmitShared(given) ==
  /\ sharedData' = SharedSaved(given, sharedData)
  /\ saved' = [of |-> "shared", given |-> given, before |-> SharedForm(sharedData)]
  /\ UNCHANGED profile

\* The form after that of a first profile, and the options form.
CreateShared(edit) == SubmitShared(Merge(NewSharedForm, edit))
ChangeShared(edit) == sharedData # Empty /\ SubmitShared(Merge(SharedForm(sharedData), edit))

ProfileNext ==
  \/ \E made \in NewProfiles : CreateProfile(made.kind, made.fields)
  \/ \E edit \in ProfileEdits :
       /\ profile # NoProfile /\ DOMAIN edit \subseteq FieldsOf(profile.kind)
       /\ ChangeProfile(edit)

SharedNext ==
  \/ \E edit \in NewShared : CreateShared(edit)
  \/ \E edit \in SharedEdits : ChangeShared(edit)

FormsNext == ProfileNext \/ SharedNext
FormsSpec == FormsInit /\ [][FormsNext]_formsVars

-----------------------------------------------------------------------------
(* Properties *)

\* A field that the form hid is as it was before the save, over any sequence
\* of saves, although the options are replaced as a whole; a field that was
\* shown takes what was submitted, a blank prompt meaning the built-in one.
HiddenFieldsStay ==
  saved.of = "profile" =>
    LET after == Effective(profile.kind, profile.entry)
    IN  \A f \in FieldsOf(profile.kind) \ {"disable"} :
          after[f] = IF ~Shown(f, saved.given) THEN saved.before[f]
                     ELSE IF f = "prompt" /\ saved.given[f] = Blank THEN Default[f]
                     ELSE saved.given[f]

\* Switching search off and on again finds the engine and its address, a
\* refused form changes nothing, and whatever was submitted can be served:
\* search has an engine that is complete, and the default lifetime of a
\* memory is within the maximum.
SharedUsable ==
  /\ saved.of = "shared" =>
       \A f \in DOMAIN SharedDefault :
         ~SharedShown(f, saved.given) => SharedForm(sharedData)[f] = saved.before[f]
  /\ SharedForm(sharedData).search = "on" => SharedForm(sharedData).provider # "none"
  /\ sharedData # Empty =>
       /\ SharedForm(sharedData).default_ttl \in 1..SharedForm(sharedData).max_ttl
       /\ SearchComplete(sharedData)

\* Forms keep what they do not show, and leave settings that can be served.
FormsSound == HiddenFieldsStay /\ SharedUsable

\* "Unchecked profile tool toggles should fall back to shared settings."
UncheckedInherits ==
  saved.of = "profile" /\ saved.given.disable = "off" =>
    Effective(profile.kind, profile.entry).disable = "off"

\* "Get current values from options, then data, then defaults": the form
\* opens with the values that the profile works by.
FormShowsProfile == saved.of = "profile" => saved.shown = saved.before
=============================================================================
