----------------------------- MODULE SettingsTab -----------------------------
(***************************************************************************)
(* The settings view of the desktop interface (views/SettingsView.tsx).    *)
(* Its handlers issue one write after the other, each awaiting the last;   *)
(* what they write are the values the form had at the click.  The view     *)
(* reads everything again when the permission mode changes.  Notices,      *)
(* their timers and the panels that only display are left out.             *)
(***************************************************************************)
EXTENDS DesktopCore

CONSTANTS
  Modes,        \* the permission modes offered
  Offers,      \* values the operator may choose for a key of the AI form
  MaxRefreshes  \* status refreshes by the interval

ASSUME SettingsAssumption == MaxRefreshes \in Nat

VARIABLE refreshes

AIKeys == << "ai_provider", "ai_model", "ai_base_url", "ai_api_key_ref" >>
Unset == ""

\* State of the component: the AI form, the host-key switch, the privacy
\* settings, the minutes of a Full Access session and what is known of it,
\* the references listed, and whether an update is offered.
FreshSettings(mount) ==
  [mount |-> mount, form |-> [key \in ToSet(AIKeys) |-> Unset],
   hostKeys |-> TRUE, privacy |-> "strict", minutes |-> 30,
   session |-> FALSE, refs |-> {}, update |-> FALSE]

Settings == tabs["Settings"]
SettingsDoes(new, calls) == Does("Settings", new, calls) /\ UNCHANGED refreshes
SettingsCall(op, x, k, e) == Call(op, x, k, e, "Settings")

\* Calls made one after the other, each when the last is answered.
Chain(mount, todo) ==
  IF todo = <<>> THEN <<>>
  ELSE << [op |-> Head(todo)[1], x |-> Head(todo)[2], k |-> "chain",
           e |-> Tail(todo), on |-> mount] >>

ChainGoesOn ==
  /\ Awaited("chain")
  /\ LET c == Head(queue) IN \E r \in Answers(c) : Take(r, Chain(c.on, c.e))
  /\ UNCHANGED << app, tabs, refreshes >>

-----------------------------------------------------------------------------
(* Loading *)

LoadSteps(mode) ==
  [i \in 1 .. 4 |-> << "getSetting", AIKeys[i] >>] \o
  << << "getSetting", "ssh_host_key_checking" >>,
     << "getSetting", "privacy_settings" >>,
     << "getAlphaReadinessReport", 0 >>, << "checkDatabaseIntegrity", 0 >>,
     << "listCredentialRefs", 0 >>, << "safetyGetFullAccessStatus", mode >> >>

LoadStep(mount, mode, i, config) ==
  [op |-> LoadSteps(mode)[i][1], x |-> LoadSteps(mode)[i][2], k |-> "load",
   e |-> [i |-> i, mode |-> mode, config |-> config], on |-> mount]

\* On mount, and whenever the permission mode changes.
SettingsEffect(mount, mode) == << LoadStep(mount, mode, 1, <<>>) >>

\* The form is set once the four settings of the AI configuration are read;
\* whatever was edited meanwhile is lost.
Loaded ==
  /\ Awaited("load")
  /\ LET c == Head(queue)
         i == c.e.i
     IN \E r \in Answers(c) :
          LET config == IF i <= 4 THEN Append(c.e.config, r.val) ELSE c.e.config
              form == [key \in ToSet(AIKeys) |->
                         config[CHOOSE j \in 1 .. 4 : AIKeys[j] = key]]
          IN /\ Take(r, IF i = Len(LoadSteps(c.e.mode)) THEN <<>>
                        ELSE << LoadStep(c.on, c.e.mode, i + 1, config) >>)
             /\ Shows(c, "Settings",
                  CASE i = 4 -> [Settings EXCEPT !.form = form]
                    [] i = 5 -> [Settings EXCEPT !.hostKeys = r.val]
                    [] i = 6 -> [Settings EXCEPT !.privacy = r.val]
                    [] i = 9 -> [Settings EXCEPT !.refs = r.val]
                    [] i = 10 -> [Settings EXCEPT !.session = r.val.active]
                    [] OTHER -> Settings)
  /\ UNCHANGED << app, refreshes >>

-----------------------------------------------------------------------------
(* The permission mode and the Full Access session *)

\* App's handleUpdateMode: shown at once, then stored; the view reloads.
ModeCalls(mode) ==
  << [op |-> "setSetting", x |-> [key |-> "permission_mode", value |-> mode],
      k |-> "-", e |-> 0, on |-> AppMount] >>

\* "early": the mode was changed before the stored one had been read.
WithMode(mode) ==
  [app EXCEPT !.mode = mode, !.early = @ \/ ~app.launched]

ReloadFor(mode) ==
  IF mode = app.mode \/ ~Open("Settings") THEN <<>>
  ELSE SettingsEffect(Settings.mount, mode)

ExpiryCall(minutes) ==
  SettingsCall("safetySetFullAccessExpiry", minutes, "expiry set", 0)

Expires(mode, minutes) == IF mode = "FULL_ACCESS" THEN minutes ELSE 0

SettingsMode(mode, after) ==
  /\ Open("Settings") /\ Act
  /\ app' = WithMode(mode)
  /\ queue' = queue \o ModeCalls(mode) \o after \o ReloadFor(mode)
  /\ UNCHANGED << tauri, store, faults, tabs, refreshes >>

SwitchMode(mode) ==
  SettingsMode(mode, << ExpiryCall(Expires(mode, Settings.minutes)) >>)

ChooseExpiry(minutes) ==
  SettingsDoes([Settings EXCEPT !.minutes = minutes],
               IF app.mode = "FULL_ACCESS" THEN << ExpiryCall(minutes) >>
               ELSE <<>>)

RevokeFullAccess ==
  /\ app.mode = "FULL_ACCESS"
  /\ SettingsMode("SAFE_AUTOMATION",
       Chain(Settings.mount, << << "safetySetFullAccessExpiry", 0 >>,
                                << "safetyGetFullAccessStatus", app.mode >> >>))

ExpirySet ==
  /\ Awaited("expiry set")
  /\ LET c == Head(queue) IN
     \E r \in Answers(c) :
       /\ Take(r, <<>>)
       /\ Shows(c, "Settings", [Settings EXCEPT !.session = r.val.active])
  /\ UNCHANGED << app, refreshes >>

\* While the mode is Full Access the status is read every five seconds.
RefreshSession ==
  /\ Open("Settings") /\ app.mode = "FULL_ACCESS" /\ refreshes < MaxRefreshes
  /\ queue' = Append(queue, SettingsCall("safetyGetFullAccessStatus", app.mode,
                                         "expiry set", 0))
  /\ refreshes' = refreshes + 1
  /\ UNCHANGED << tauri, store, faults, app, tabs, acts >>

\* The deadline passes in the core.
SessionExpires ==
  /\ store.core.timer = "running"
  /\ store' = [store EXCEPT !.core.timer = "over"]
  /\ UNCHANGED << tauri, faults, queue, app, tabs, acts, refreshes >>

-----------------------------------------------------------------------------
(* The AI configuration *)

\* Choosing a provider fills in its model and address and leaves the key.
ChooseProvider(p) ==
  SettingsDoes([Settings EXCEPT !.form =
                  [@ EXCEPT !["ai_provider"] = p, !["ai_model"] = p,
                            !["ai_base_url"] = p]], <<>>)

EditField(key, v) ==
  /\ Open("Settings")
  /\ key = "ai_api_key_ref" => v \in Settings.refs \cup {Unset}
  /\ SettingsDoes([Settings EXCEPT !.form[key] = v], <<>>)

Write(key, v) == << "setSetting", [key |-> key, value |-> v] >>

\* setAIConfig: provider and model always, address and key unless empty.
ConfigWrites(form) ==
  LET unlessEmpty(key) ==
        IF form[key] = Unset THEN <<>> ELSE << Write(key, form[key]) >>
  IN << Write("ai_provider", form["ai_provider"]),
        Write("ai_model", form["ai_model"]) >>
     \o unlessEmpty("ai_base_url") \o unlessEmpty("ai_api_key_ref")

SaveAIConfig ==
  SettingsDoes(Settings, Chain(Settings.mount, ConfigWrites(Settings.form)))

\* The Save button of the page writes everything.
SaveAll ==
  SettingsDoes(Settings,
    Chain(Settings.mount,
      << Write("permission_mode", app.mode) >> \o ConfigWrites(Settings.form) \o
      << << "getSetting", "privacy_settings" >>,
         Write("privacy_settings", Settings.privacy),
         Write("ssh_host_key_checking", Settings.hostKeys) >>))

\* Testing resolves the key and dials the provider.
TestProvider ==
  SettingsDoes(Settings,
    << SettingsCall("getSecret", Settings.form["ai_api_key_ref"], "-", 0) >>)

\* A key entered in the form is stored, selected, and saved with the form as
\* it was at the click.
SaveInlineKey(value) ==
  SettingsDoes(Settings, << SettingsCall("saveSecret", value, "key saved",
                                         Settings.form) >>)

InlineKeySaved ==
  /\ Awaited("key saved")
  /\ LET c == Head(queue) IN
     \E r \in Answers(c) :
       Take(r, << [c EXCEPT !.op = "listCredentialRefs", !.x = 0,
                            !.k = "key listed",
                            !.e = [@ EXCEPT !["ai_api_key_ref"] = r.val]] >>)
  /\ UNCHANGED << app, tabs, refreshes >>

InlineKeyListed ==
  /\ Awaited("key listed")
  /\ LET c == Head(queue) IN
     \E r \in Answers(c) :
       /\ Take(r, Chain(c.on, ConfigWrites(c.e)))
       /\ Shows(c, "Settings",
            [Settings EXCEPT !.refs = r.val,
               !.form["ai_api_key_ref"] = c.e["ai_api_key_ref"]])
  /\ UNCHANGED << app, refreshes >>

-----------------------------------------------------------------------------
(* Host keys, privacy, credentials and maintenance *)

SwitchHostKeys ==
  SettingsDoes([Settings EXCEPT !.hostKeys = ~@], <<>>)

EditPrivacy ==
  SettingsDoes([Settings EXCEPT !.privacy = "edited"], <<>>)

PruneAudit(days) ==
  SettingsDoes(Settings, << SettingsCall("pruneAuditEvents", days, "-", 0) >>)

\* Storing or deleting a secret lists the references again; nothing asks
\* whether one is still referred to.
AddSecret(value) ==
  SettingsDoes(Settings, << SettingsCall("saveSecret", value, "secrets", 0) >>)

DeleteSecret(ref) ==
  /\ Open("Settings") /\ ref \in Settings.refs
  /\ SettingsDoes(Settings, << SettingsCall("deleteSecret", ref, "secrets", 0) >>)

SecretsChanged ==
  /\ Awaited("secrets")
  /\ LET c == Head(queue) IN
     \E r \in Answers(c) :
       Take(r, << [c EXCEPT !.op = "listCredentialRefs", !.x = 0,
                            !.k = "references"] >>)
  /\ UNCHANGED << app, tabs, refreshes >>

ReferencesListed ==
  /\ Awaited("references")
  /\ LET c == Head(queue) IN
     \E r \in Answers(c) :
       /\ Take(r, <<>>)
       /\ Shows(c, "Settings", [Settings EXCEPT !.refs = r.val])
  /\ UNCHANGED << app, refreshes >>

CheckForUpdate ==
  SettingsDoes(Settings, << SettingsCall("checkForUpdates", 0, "update", 0) >>)

UpdateChecked ==
  /\ Awaited("update")
  /\ LET c == Head(queue) IN
     \E r \in Answers(c) :
       /\ Take(r, <<>>)
       /\ Shows(c, "Settings",
                [Settings EXCEPT !.update = (r.val = "UPDATE_AVAILABLE")])
  /\ UNCHANGED << app, refreshes >>

InstallUpdate ==
  /\ Open("Settings") /\ Settings.update
  /\ SettingsDoes(Settings, << SettingsCall("installUpdate", 0, "-", 0) >>)

RunReadinessCheck ==
  SettingsDoes(Settings, << SettingsCall("getAlphaReadinessReport", 0, "-", 0) >>)

CheckIntegrity ==
  SettingsDoes(Settings, << SettingsCall("checkDatabaseIntegrity", 0, "-", 0) >>)

VacuumDatabase ==
  SettingsDoes(Settings,
    Chain(Settings.mount, << << "vacuumDatabase", 0 >>,
                             << "checkDatabaseIntegrity", 0 >> >>))

-----------------------------------------------------------------------------
SettingsOperator ==
  /\ Open("Settings")
  /\ \/ \E mode \in Modes : SwitchMode(mode)
     \/ \E minutes \in {0, 15} : ChooseExpiry(minutes) \/ PruneAudit(minutes)
     \/ \E p \in Offers : ChooseProvider(p)
     \/ \E v \in Offers \cup {Unset} : EditField("ai_base_url", v)
     \/ \E v \in Settings.refs \cup {Unset} : EditField("ai_api_key_ref", v)
     \/ \E value \in Offers : SaveInlineKey(value) \/ AddSecret(value)
     \/ \E ref \in Settings.refs : DeleteSecret(ref)
     \/ RevokeFullAccess \/ SaveAIConfig \/ SaveAll \/ TestProvider
     \/ SwitchHostKeys \/ EditPrivacy \/ CheckForUpdate \/ InstallUpdate
     \/ RunReadinessCheck \/ CheckIntegrity \/ VacuumDatabase

SettingsAnswer ==
  \/ ChainGoesOn \/ Loaded \/ ExpirySet \/ InlineKeySaved \/ InlineKeyListed
  \/ SecretsChanged \/ ReferencesListed \/ UpdateChecked

SettingsProgress == RefreshSession \/ SessionExpires
=============================================================================
