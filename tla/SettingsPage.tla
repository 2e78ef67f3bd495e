---------------------------- MODULE SettingsPage ----------------------------
(***************************************************************************)
(* The settings page: the config half of settings/store.ts (a module-level *)
(* zustand store), the sections that edit it, the floating save bar and    *)
(* the proxy test of the network section.                                  *)
(*                                                                         *)
(* One form is edited as a whole and posted as a whole.  A number field    *)
(* holds what was typed (0 stands for an empty or useless text) until it   *)
(* is saved; a text field may carry blanks that saving trims.              *)
(*                                                                         *)
(*   mem     the store: config, isLoadingConfig, isSavingConfig, isDirty   *)
(*   ui      the page: mounted or not, and the state of the proxy test     *)
(*   server  the stored config                                             *)
(*   past    spent edits and other moves; `crossed`: the form comes from a *)
(*           read that a save overlapped                                   *)
(***************************************************************************)
EXTENDS WebClient

CONSTANTS MaxEdits,    \* edits of a field
          MaxSettings    \* page changes, clicks and failing requests

Unloaded == [minutes |-> -1, protect |-> FALSE, proxy |-> ""]

Minutes == 60          \* the default of an empty number
Blank == " p"          \* a proxy typed with a blank before it

Reads == Pending("load") \cup Pending("revert")

(* A read: silent or not, and whether a save overlapped it.                *)
Read(silent) == [silent |-> silent, crossed |-> Pending("save") # {}]

-----------------------------------------------------------------------------
(* Numbers get their default, texts lose their blanks.                     *)
normalizeConfig(c) == [c EXCEPT !.minutes = IF @ = 0 THEN Minutes ELSE @]

Sanitized(c) ==
  [normalizeConfig(c) EXCEPT !.proxy = IF @ = Blank THEN "p" ELSE @]

SettingsInit ==
  /\ page = "settings"
  /\ mem = [config |-> Unloaded, loading |-> TRUE, saving |-> FALSE, dirty |-> FALSE]
  /\ ui = [open |-> FALSE, testing |-> FALSE, result |-> "none"]
  /\ calls = <<>>
  /\ server = [minutes |-> 5, protect |-> TRUE, proxy |-> "p"]
  /\ disk = <<>>
  /\ past = [edits |-> 0, clicks |-> 0, crossed |-> FALSE]

(* The page is mounted and loads; what the store already holds stays on    *)
(* the screen meanwhile.                                                   *)
SettingsOpened ==
  /\ Clicking(MaxSettings)
  /\ ~ui.open
  /\ ui' = [open |-> TRUE, testing |-> FALSE, result |-> "none"]
  /\ LET silent == mem.config # Unloaded
     IN  /\ mem' = [mem EXCEPT !.loading = @ \/ ~silent]
         /\ calls' = Sent("load", Read(silent))
  /\ past' = Clicked
  /\ UNCHANGED <<page, server, disk>>

(* Nobody is left to hear what a test of the proxy says.                   *)
SettingsLeft ==
  /\ Clicking(MaxSettings)
  /\ ui.open
  /\ ui' = [open |-> FALSE, testing |-> FALSE, result |-> "none"]
  /\ calls' = Cancelled(calls, "test")
  /\ past' = Clicked
  /\ UNCHANGED <<page, mem, server, disk>>

ConfigServed ==
  /\ \E i \in Waiting("load") \cup Waiting("revert") : calls' = Answered(i, server)
  /\ UNCHANGED <<page, ui, mem, server, disk, past>>

SaveServed ==
  /\ \E i \in Waiting("save") : server' = calls[i].arg /\ calls' = Answered(i, calls[i].arg)
  /\ UNCHANGED <<page, ui, mem, disk, past>>

(* A failure is seen before or after the server did what was asked.        *)
SettingsFail ==
  /\ Clicking(MaxSettings)
  /\ \E i \in DOMAIN calls :
       /\ calls[i].at = "sent"
       /\ calls' = Failed(i)
       /\ \/ UNCHANGED server
          \/ calls[i].op = "save" /\ server' = calls[i].arg
  /\ past' = Clicked
  /\ UNCHANGED <<page, ui, mem, disk>>

SettingsShown(i) ==
  /\ calls[i].at = "ok"
  /\ past' = [past EXCEPT !.crossed = calls[i].arg.crossed]

(* loadConfig after its request: the answer replaces the form.             *)
loadConfig ==
  /\ \E i \in Arrived("load") :
       /\ calls' = Dropped(i)
       /\ \/ /\ SettingsShown(i)
             /\ mem' = [mem EXCEPT !.config = normalizeConfig(calls[i].data), !.dirty = FALSE,
                                   !.loading = @ /\ calls[i].arg.silent]
          \/ /\ calls[i].at = "failed"
             /\ mem' = [mem EXCEPT !.loading = @ /\ calls[i].arg.silent]
             /\ UNCHANGED past
  /\ UNCHANGED <<page, ui, server, disk>>

revertConfig ==
  /\ \E i \in Arrived("revert") :
       /\ calls' = Dropped(i)
       /\ \/ /\ SettingsShown(i)
             /\ mem' = [mem EXCEPT !.config = normalizeConfig(calls[i].data), !.dirty = FALSE]
          \/ /\ calls[i].at = "failed"
             /\ UNCHANGED <<mem, past>>
  /\ UNCHANGED <<page, ui, server, disk>>

(* What is posted is the whole form as it is at the click; the answer      *)
(* replaces the form as it is by then.                                     *)
SaveClicked ==
  /\ calls' = Append([i \in DOMAIN calls |->
                      IF i \in Reads THEN [calls[i] EXCEPT !.arg.crossed = TRUE] ELSE calls[i]],
                    Request("save", Sanitized(mem.config)))
  /\ mem' = [mem EXCEPT !.saving = TRUE]
  /\ past' = Clicked
  /\ UNCHANGED ui

saveConfig ==
  /\ \E i \in Arrived("save") :
       /\ calls' = Dropped(i)
       /\ mem' = IF calls[i].at = "ok"
                   THEN [mem EXCEPT !.config = normalizeConfig(calls[i].data),
                                    !.dirty = FALSE, !.saving = FALSE]
                 ELSE [mem EXCEPT !.saving = FALSE]
       /\ past' = [past EXCEPT !.crossed = @ /\ calls[i].at = "failed"]
  /\ UNCHANGED <<page, ui, server, disk>>

RevertClicked ==
  /\ calls' = Sent("revert", Read(FALSE))
  /\ past' = Clicked
  /\ UNCHANGED <<ui, mem>>

(* Mutant: the buttons stay active while a save is on the way.             *)
UnlockedSaveBar ==
  /\ Clicking(MaxSettings)
  /\ ui.open /\ mem.dirty
  /\ SaveClicked \/ RevertClicked
  /\ UNCHANGED <<page, server, disk>>

(* The bar is there while something is unsaved, its buttons are locked     *)
(* while a save is on the way.                                             *)
FloatingSaveBar ==
  /\ Clicking(MaxSettings)
  /\ ui.open /\ mem.dirty
  /\ ~mem.saving
  /\ SaveClicked \/ RevertClicked
  /\ UNCHANGED <<page, server, disk>>

-----------------------------------------------------------------------------
(* What the sections let the user change the form to.                      *)

AccountSection(c) == {[c EXCEPT !.minutes = n] : n \in {0, 5}}

NetworkSection(c) == {[c EXCEPT !.proxy = p] : p \in {"", Blank, "p"}}

ImageSection(c) ==
  {[c EXCEPT !.minutes = n] : n \in {0, 5}} \cup {[c EXCEPT !.protect = ~@]}

SecuritySection(c) == {[c EXCEPT !.proxy = p] : p \in {"", Blank, "p"}}

LogSection(c) == {[c EXCEPT !.protect = ~@]}

(* The setters of the store: without a loaded config they do nothing.      *)
Setters(forms) ==
  /\ past.edits < MaxEdits
  /\ ui.open /\ mem.config # Unloaded
  /\ \E f \in forms : mem' = [mem EXCEPT !.config = f, !.dirty = TRUE]
  /\ past' = [past EXCEPT !.edits = @ + 1]
  /\ UNCHANGED <<page, calls, server, disk>>

SettingEdited ==
  /\ Setters(AccountSection(mem.config) \cup ImageSection(mem.config)
               \cup SecuritySection(mem.config) \cup LogSection(mem.config))
  /\ UNCHANGED ui

(* A new proxy clears the result of the last test.                         *)
ProxyEdited ==
  /\ Setters(NetworkSection(mem.config))
  /\ ui' = [ui EXCEPT !.result = "none"]

ProxyTestClicked ==
  /\ Clicking(MaxSettings)
  /\ ui.open /\ mem.config.proxy # "" /\ ~ui.testing
  /\ ui' = [ui EXCEPT !.testing = TRUE, !.result = "none"]
  /\ calls' = Sent("test", "p")
  /\ past' = Clicked
  /\ UNCHANGED <<page, mem, server, disk>>

ProxyTested ==
  /\ \E i \in Waiting("test") : \E r \in {"ok", "bad"} : calls' = Answered(i, r)
  /\ UNCHANGED <<page, ui, mem, server, disk, past>>

handleTestProxy ==
  /\ \E i \in Arrived("test") :
       /\ calls' = Dropped(i)
       /\ ui' = [ui EXCEPT !.testing = FALSE,
                           !.result = IF calls[i].at = "ok" THEN calls[i].data ELSE @]
  /\ UNCHANGED <<page, mem, server, disk, past>>

SettingsNext ==
  \/ SettingsOpened \/ SettingsLeft \/ ConfigServed \/ SaveServed \/ SettingsFail
  \/ loadConfig \/ revertConfig \/ saveConfig \/ FloatingSaveBar
  \/ SettingEdited \/ ProxyEdited \/ ProxyTestClicked \/ ProxyTested \/ handleTestProxy

-----------------------------------------------------------------------------
(* Without the save bar there is nothing to save: once nothing is on the   *)
(* way, a form that is not dirty is what the server stores, unless a read  *)
(* and a save overlapped, whose answers may come in either order           *)
(* (floating-save-bar.tsx, saveConfig, revertConfig, loadConfig).          *)
CleanFormIsServed ==
  /\ page = "settings"
  /\ mem.config # Unloaded
  /\ ~mem.dirty
  /\ Reads \cup Pending("save") = {}
  /\ ~past.crossed
  => mem.config = server

=============================================================================
