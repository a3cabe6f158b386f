---------------------------- MODULE SettingsForms ----------------------------
(***************************************************************************)
(* The two forms of the settings page, of the model and of the platform:   *)
(* they begin with defaults, are filled in from the stored settings once   *)
(* these are read, and each is saved as a whole.  The server reads what it *)
(* has, merges what is saved into it and writes the result: two commands   *)
(* to Redis, with an await each, between which another save may write.  It *)
(* may come from another user of the tenant, or be one that this page gave *)
(* up waiting for.  When the store is down the server answers a read with  *)
(* empty settings, and a write with an error.                              *)
(*                                                                         *)
(* A setting is its default, empty (0, FALSE or the empty string), or      *)
(* another value.  The table of models and the switch of the page's        *)
(* language are left out.  MaxFormClicks bounds what the user does,        *)
(* MaxOtherSaves what others do.                                           *)
(***************************************************************************)
EXTENDS Naturals, Functions

CONSTANTS ModelFields, GeneralFields, MaxFormClicks, MaxOtherSaves

Fields == ModelFields \cup GeneralFields

ASSUME SettingsFormsAssumption ==
    /\ ModelFields \subseteq {"default_model", "default_temperature", "stream_enabled",
                              "content_filter_enabled"}
    /\ GeneralFields \subseteq {"platform_name", "language", "notifications_enabled",
                                "audit_log_enabled"}
    /\ {MaxFormClicks, MaxOtherSaves} \subseteq Nat

VARIABLES
    formShown,     \* the values in the forms
    formLoad,      \* getSystemSettings, called when the page is mounted
    formSave,      \* the number of the save the page waits for, or 0 (saving)
    settings,      \* the server: the stored settings
    saves,         \* and the saves it has received and not written yet
    formClicks,    \* what the user has done so far
    otherSaves,    \* and what other users have
    formTyped,     \* history: the fields that show what the user typed
    formLoaded     \* history: the settings as the page has read them

formVars == <<formShown, formLoad, formSave, settings, saves, formClicks, otherSaves,
              formTyped, formLoaded>>

Values == {"default", "empty", "other"}
Unset == [f \in Fields |-> "unset"]
Unread == [f \in Fields |-> "unread"]

\* Settings that are restored if they are true, rather than if they are not null.
RestoredIfTrue == {"default_model", "platform_name", "language"}

\* A mutant: no setting is restored that JavaScript takes for false.
RestoresIfTrue(f, v) == v \notin {"unset", "empty"}

Restores(f, v) == v # "unset" /\ (v = "empty" => f \notin RestoredIfTrue)

\* found holds the settings that the server has read for the save.
SaveOf(own, n, values, typed, read) ==
    [own |-> own, n |-> n, values |-> values, found |-> Unread, typed |-> typed,
     read |-> read]

Merged(s) ==
    [f \in Fields |-> IF f \in DOMAIN s.values THEN s.values[f] ELSE s.found[f]]

FormClick == formClicks < MaxFormClicks /\ formClicks' = formClicks + 1
-----------------------------------------------------------------------------
(* The load, which does not ask whether the user was faster.               *)

ServeSettings ==
    /\ formLoad.phase = "sent"
    /\ \E answer \in {settings, Unset} : formLoad' = [phase |-> "served", answer |-> answer]
    /\ UNCHANGED <<formShown, formSave, settings, saves, formClicks, otherSaves,
                   formTyped, formLoaded>>

FinishLoadSettings ==
    /\ formLoad.phase = "served"
    /\ formLoad' = [formLoad EXCEPT !.phase = "over"]
    /\ formShown' = [f \in Fields |-> IF Restores(f, formLoad.answer[f])
                                      THEN formLoad.answer[f] ELSE formShown[f]]
    /\ formTyped' = {f \in formTyped : ~Restores(f, formLoad.answer[f])}
    /\ formLoaded' = formLoad.answer
    /\ UNCHANGED <<formSave, settings, saves, formClicks, otherSaves>>

FailLoadSettings ==
    /\ formLoad.phase # "over"
    /\ formLoad' = [phase |-> "over", answer |-> Unset]
    /\ UNCHANGED <<formShown, formSave, settings, saves, formClicks, otherSaves,
                   formTyped, formLoaded>>
-----------------------------------------------------------------------------
(* The forms.                                                              *)

EditField(f, v) ==
    /\ FormClick
    /\ v # formShown[f]
    /\ formShown' = [formShown EXCEPT ![f] = v]
    /\ formTyped' = formTyped \cup {f}
    /\ UNCHANGED <<formLoad, formSave, settings, saves, otherSaves, formLoaded>>

\* Both buttons show a spinner, and cannot be clicked, while a save is in flight.
SaveFields(fields) ==
    /\ FormClick
    /\ formSave = 0
    /\ formSave' = formClicks'
    /\ saves' = saves \cup {SaveOf(TRUE, formClicks', Restrict(formShown, fields),
                                 formTyped, formLoaded)}
    /\ UNCHANGED <<formShown, formLoad, settings, otherSaves, formTyped, formLoaded>>

HandleModelConfigSave == SaveFields(ModelFields)
HandleGeneralSave == SaveFields(GeneralFields)

\* Answered, failed or timed out; the server may be at it all the same.
EndSaveSettings ==
    /\ formSave # 0
    /\ formSave' = 0
    /\ UNCHANGED <<formShown, formLoad, settings, saves, formClicks, otherSaves,
                   formTyped, formLoaded>>
-----------------------------------------------------------------------------
(* The server: await redis.get, merge, await redis.set.                    *)

OthersSave(f, v) ==
    /\ otherSaves < MaxOtherSaves
    /\ otherSaves' = otherSaves + 1
    /\ saves' = saves \cup {SaveOf(FALSE, otherSaves', [g \in {f} |-> v], {f}, Unread)}
    /\ UNCHANGED <<formShown, formLoad, formSave, settings, formClicks, formTyped,
                   formLoaded>>

ReadForSave(s) ==
    /\ s.found = Unread
    /\ saves' = (saves \ {s}) \cup {[s EXCEPT !.found = settings]}
    /\ UNCHANGED <<formShown, formLoad, formSave, settings, formClicks, otherSaves,
                   formTyped, formLoaded>>

WriteSave(s) ==
    /\ s.found # Unread
    /\ settings' = Merged(s)
    /\ saves' = saves \ {s}
    /\ UNCHANGED <<formShown, formLoad, formSave, formClicks, otherSaves, formTyped,
                   formLoaded>>

\* The store is down at either command.
FailSettingsSave(s) ==
    /\ saves' = saves \ {s}
    /\ UNCHANGED <<formShown, formLoad, formSave, settings, formClicks, otherSaves,
                   formTyped, formLoaded>>
-----------------------------------------------------------------------------
SettingsFormsInit ==
    /\ formShown = [f \in Fields |-> "default"]
    /\ formLoad = [phase |-> "sent", answer |-> Unset]
    /\ formSave = 0
    /\ settings \in [Fields -> Values \cup {"unset"}]
    /\ saves = {}
    /\ formClicks = 0
    /\ otherSaves = 0
    /\ formTyped = {}
    /\ formLoaded = Unread

SettingsFormsNext ==
    \/ ServeSettings \/ FinishLoadSettings \/ FailLoadSettings
    \/ \E f \in Fields, v \in Values : EditField(f, v) \/ OthersSave(f, v)
    \/ HandleModelConfigSave \/ HandleGeneralSave \/ EndSaveSettings
    \/ \E s \in saves : ReadForSave(s) \/ WriteSave(s) \/ FailSettingsSave(s)

SettingsFormsSpec == SettingsFormsInit /\ [][SettingsFormsNext]_formVars
-----------------------------------------------------------------------------
(* A save of the page changes a stored setting that its user left alone    *)
(* only if                                                                 *)
(*   - the page had not read it as it is stored when the save is written;  *)
(*   - it is of the other form, and another save has written it since the  *)
(*     server read the settings for this one: nothing prevents that;       *)
(*   - it was never set, and the default shown is saved;                   *)
(*   - it is restored only if true: an empty name of the platform comes    *)
(*     back as the default, and is saved as such.                          *)
SavesKeepSettings ==
    [][\A f \in Fields : settings'[f] # settings[f] =>
          \E s \in saves \ saves' :
              \/ ~s.own
              \/ f \in s.typed
              \/ s.read[f] # settings[f]
              \/ f \notin DOMAIN s.values /\ s.found[f] # settings[f]
              \/ settings[f] = "unset"
              \/ f \in RestoredIfTrue /\ settings[f] = "empty"]_formVars
=============================================================================
