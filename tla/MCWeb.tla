------------------------------- MODULE MCWeb -------------------------------
(***************************************************************************)
(* The pages of the web client in one run: a behaviour is about one page,  *)
(* chosen in the initial state.                                            *)
(***************************************************************************)
EXTENDS ImageQueue, Composer, Lightbox, Session, SettingsPage, RegisterPage,
        AccountsPage, GalleryPage, LogsPage

Init ==
  \/ ImageInit \/ ComposerInit \/ LightboxInit \/ SessionInit \/ SettingsInit
  \/ RegisterInit \/ AccountsInit \/ GalleryInit \/ LogsInit

Next ==
  \/ page = "image" /\ ImageNext
  \/ page = "composer" /\ ComposerNext
  \/ page = "lightbox" /\ LightboxNext
  \/ page = "session" /\ SessionNext
  \/ page = "settings" /\ SettingsNext
  \/ page = "register" /\ RegisterNext
  \/ page = "accounts" /\ AccountsNext
  \/ page = "gallery" /\ GalleryNext
  \/ page = "logs" /\ LogsNext

Spec == Init /\ [][Next]_webVars

-----------------------------------------------------------------------------
(* Whatever order answers come in, a page's list, what is selected on it,  *)
(* what a deletion of it reaches and what is cached of it belong together  *)
(* (accounts, image manager, log viewer).                                  *)
ListsAreTrue == ListFits /\ DeletesWhatItLists /\ CachedUnderItsFilter

=============================================================================
