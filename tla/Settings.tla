------------------------------ MODULE Settings ------------------------------
(***************************************************************************)
(* SettingsModel, the file it is kept in, and the dialog that edits it.    *)
(* The dialog's table, its buttons and the model's list of services share  *)
(* nothing but row numbers; the file is truncated and written anew by      *)
(* every Save.                                                             *)
(***************************************************************************)
EXTENDS Naturals, Sequences, FiniteSets, SequencesExt

CONSTANTS ServiceNames   \* service_name of the tokens

(* Bypass methods, as far as the code treats them differently: the two     *)
(* deprecated ones, and of the others the one that no branch of the        *)
(* dialog selects.                                                         *)
Methods == {"sni", "reality", "obfuscation", "yandex26_4", "yandex25"}
Deprecated == {"sni", "reality"}
DefaultMethod == "yandex26_4"

(* The texts of the combo box; "SNI" only after a change of language.      *)
Offered(translated) == {"obfuscation", "yandex26_4", "yandex25"}
                          \cup (IF translated THEN {"sni"} ELSE {})

NoFile == [services |-> << >>, method |-> DefaultMethod]

VARIABLES
    file,      \* the settings file, as far as Load can read it
    services,  \* services_
    method,    \* bypass_method_
    dialog,    \* the dialog is open
    combo,     \* what its combo box shows
    translated,\* the language was changed in this dialog
    table,     \* the rows of server_table_
    buttons,   \* the row each row's delete button was made for, 0 for none
    unsaved,   \* the last Save left something else in the file
    skewed     \* a service was added in this dialog without its row

settingsVars == <<file, services, method, dialog, combo, translated, table, buttons, unsaved, skewed>>

-----------------------------------------------------------------------------
(* SettingsModel                                                           *)

(* What Load makes of the method in the file.                              *)
LoadedMethod(m) == IF m \in Methods \ Deprecated THEN m ELSE DefaultMethod

Load(f) == services' = f.services /\ method' = LoadedMethod(f.method)

(* Save truncates the file as it opens it.  It answers that it has written *)
(* even if the buffer could not be flushed as the file was closed ...      *)
Saved(sv, m) ==
    /\ services' = sv /\ method' = m
    /\ \/ file' = [services |-> sv, method |-> m] /\ unsaved' = FALSE
       \/ file' = NoFile /\ unsaved' = TRUE

(* ... and fails if the file cannot be opened, or nothing can be written   *)
(* once it is.                                                             *)
NotSaved(sv, m) ==
    /\ services' = sv /\ method' = m /\ unsaved' = TRUE
    /\ file' = file \/ file' = NoFile

CloseDialog ==
    /\ dialog' = FALSE /\ table' = << >> /\ buttons' = << >> /\ translated' = FALSE
    /\ combo' = DefaultMethod /\ skewed' = FALSE

(* The process is killed between the truncation and the write, and starts  *)
(* again with nothing.                                                     *)
KilledInSave ==
    /\ file' = NoFile
    /\ Load(NoFile)
    /\ unsaved' = FALSE
    /\ CloseDialog

GetExistServiceIndex(name) ==
    LET at == {i \in DOMAIN services : services[i] = name}
    IN  IF at = {} THEN 0 ELSE CHOOSE i \in at : \A j \in at : i <= j

SettingsInit ==
    /\ file = NoFile /\ services = << >> /\ method = DefaultMethod
    /\ dialog = FALSE /\ combo = DefaultMethod /\ translated = FALSE
    /\ table = << >> /\ buttons = << >> /\ unsaved = FALSE /\ skewed = FALSE

(* The program ends without warning and is started again.                  *)
Restart ==
    /\ Load(file)
    /\ unsaved' = FALSE
    /\ CloseDialog
    /\ UNCHANGED file

-----------------------------------------------------------------------------
(* SettingsWidget                                                          *)
(* A handler that saves more than once is one step here, with the outcome  *)
(* of its last Save; no property looks at the file in between.             *)

(* The combo box shows the method if SetupUi has a branch for it, else its *)
(* first item.                                                             *)
Shown(m) == IF m \in {"obfuscation", "yandex26_4"} THEN m ELSE "obfuscation"

(* SetupUi fills the table, one button per row, and ends with              *)
(* onBypassMethodChanged, which saves what the combo box shows.            *)
SetupUi ==
    /\ ~dialog
    /\ \/ /\ dialog' = TRUE /\ table' = services
          /\ buttons' = [i \in DOMAIN services |-> i]
          /\ combo' = Shown(method)
          /\ Saved(services, Shown(method)) \/ NotSaved(services, Shown(method))
          /\ UNCHANGED <<translated, skewed>>
       \/ KilledInSave

(* onBypassMethodChanged, with no branch for yandex25 but the last.        *)
OnBypassMethodChanged(m) ==
    /\ dialog /\ m # combo
    /\ \/ /\ combo' = m
          /\ Saved(services, m) \/ NotSaved(services, m)
          /\ UNCHANGED <<dialog, table, buttons, translated, skewed>>
       \/ KilledInSave

(* onLanguageChanged fills the combo box again; clearing it and adding the *)
(* items emits currentTextChanged, and the method taken down before is     *)
(* selected again.                                                         *)
OnLanguageChanged ==
    /\ dialog
    /\ \/ /\ translated' = TRUE
          /\ combo' = method
          /\ Saved(services, method) \/ NotSaved(services, method)
          /\ UNCHANGED <<dialog, table, buttons, skewed>>
       \/ KilledInSave

(* Wrong variant: a token for a known service is simply added.             *)
WithToken_KeepsOld(seq, name) == Append(seq, name)

(* RemoveServer of the service of that name, then AddService.              *)
WithToken(seq, name) ==
    LET i == GetExistServiceIndex(name)
    IN  Append(IF i = 0 THEN seq ELSE RemoveAt(seq, i), name)

(* onLoadNewConfig; a token that does not parse changes nothing.  The row  *)
(* is added only if the file was written, and its button is not connected. *)
OnLoadNewConfig(name) ==
    LET i == GetExistServiceIndex(name)
        drop(seq) == IF i = 0 \/ i > Len(seq) THEN seq ELSE RemoveAt(seq, i)
    IN  /\ dialog
        /\ \/ /\ Saved(WithToken(services, name), method)
              /\ table' = Append(drop(table), name)
              /\ buttons' = Append(drop(buttons), 0)
              /\ UNCHANGED <<dialog, combo, translated, skewed>>
           \/ /\ NotSaved(WithToken(services, name), method)
              /\ table' = drop(table) /\ buttons' = drop(buttons) /\ skewed' = TRUE
              /\ UNCHANGED <<dialog, combo, translated>>
           \/ KilledInSave

(* onRemoveServer, with the row number the button was made with; nothing   *)
(* is saved yet.                                                           *)
OnRemoveServer(r) ==
    LET row == buttons[r]
        drop(seq) == IF row > Len(seq) THEN seq ELSE RemoveAt(seq, row)
    IN  /\ dialog /\ row # 0 /\ row <= Len(table)
        /\ table' = drop(table) /\ buttons' = drop(buttons)
        /\ services' = drop(services)
        /\ UNCHANGED <<file, method, dialog, combo, translated, unsaved, skewed>>

(* onExit, also when the window is closed.                                 *)
OnExit ==
    /\ dialog
    /\ \/ CloseDialog /\ (Saved(services, combo) \/ NotSaved(services, combo))
       \/ KilledInSave

SettingsNext ==
    \/ Restart \/ SetupUi \/ OnLanguageChanged \/ OnExit
    \/ \E m \in Offered(translated) : OnBypassMethodChanged(m)
    \/ \E name \in ServiceNames : OnLoadNewConfig(name)
    \/ \E r \in DOMAIN buttons : OnRemoveServer(r)

SettingsSpec == SettingsInit /\ [][SettingsNext]_settingsVars

-----------------------------------------------------------------------------
(* Properties                                                              *)

(* Row numbers keep the table and the model together although tokens       *)
(* replace services and buttons keep the number of a row that has moved:   *)
(* unless a token could not be saved, the table shows the services of the  *)
(* model, each once; and unless the last Save failed, whether it said so   *)
(* or not, what is in memory when the dialog is closed is what a restart   *)
(* would find, a deprecated method apart.                                  *)
SettingsKept ==
    /\ \A i, j \in DOMAIN services : services[i] = services[j] => i = j
    /\ dialog /\ ~skewed => table = services
    /\ ~dialog /\ ~unsaved => /\ file.services = services
                              /\ LoadedMethod(file.method) = LoadedMethod(method)
=============================================================================
