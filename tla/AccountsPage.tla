---------------------------- MODULE AccountsPage ----------------------------
(***************************************************************************)
(* The account pool page (accounts/page.tsx) with its import dialog        *)
(* (account-import-dialog.tsx).                                            *)
(*                                                                         *)
(* Every request answers with the whole list of accounts, which replaces   *)
(* the list on the page and in the module-level cache.  The same kind of   *)
(* request is locked while one is on the way, different kinds overlap, and *)
(* an answer to a page that was left still writes the cache.               *)
(*                                                                         *)
(*   mem     cachedAccounts: filled or not, and the list                   *)
(*   ui      the list, what is selected, filtered and edited, the locks,   *)
(*           and the import dialog                                         *)
(*   calls   a request knows whether its page is still mounted; an answer  *)
(*           is a list and the version of the server's list it was         *)
(*   server  the accounts with their status and a version                  *)
(*   past    spent bound; the version that is shown, and whether a newer   *)
(*           one was shown before it                                       *)
(*                                                                         *)
(* An import file holds an account with a refresh token ("full"), one      *)
(* without ("bare"), or none at all.                                       *)
(***************************************************************************)
EXTENDS WebClient, Functions

CONSTANTS MaxAccounts    \* clicks, page changes, failures, changes by others

Accounts == 1 .. 3     \* 3 is the account that is imported
NoList == [a \in {} |-> "ok"]
PageRows == 2          \* rows of a page of the table
NoFiles == {}

Ask(op, who, what) == Sent(op, [mine |-> TRUE, who |-> who, what |-> what])

-----------------------------------------------------------------------------
(* What the page shows: the accounts that pass the filter, a page of them, *)
(* and the buttons' targets.                                               *)
filteredAccounts == {a \in DOMAIN ui.list : ui.filter \in {"all", ui.list[a]}}

safePage ==
  LET n == (Cardinality(filteredAccounts) + PageRows - 1) \div PageRows
  IN  IF n = 0 THEN 1 ELSE IF ui.at > n THEN n ELSE ui.at

currentRows ==
  {a \in filteredAccounts :
     (Cardinality({b \in filteredAccounts : b < a}) \div PageRows) + 1 = safePage}

abnormalTokens == {a \in DOMAIN ui.list : ui.list[a] = "bad"}

selectedTokens == ui.sel \cap DOMAIN ui.list

NoAccountDialog == [open |-> FALSE, source |-> "web", text |-> FALSE, files |-> NoFiles,
             confirm |-> FALSE, busy |-> FALSE]

NoEdit == [who |-> 0, st |-> "ok"]

(* The cache is shown while the list is read again in the background.      *)
AccountsMounted ==
  [open |-> TRUE, list |-> mem.list, sel |-> {},
   filter |-> "all", at |-> 1, loading |-> ~mem.hit, refreshing |-> FALSE,
   deleting |-> FALSE, updating |-> FALSE, edit |-> NoEdit, dialog |-> NoAccountDialog]

AccountsInit ==
  /\ page = "accounts"
  /\ mem = [hit |-> FALSE, list |-> NoList]
  /\ ui = AccountsMounted
  /\ calls = <<Request("load", [mine |-> TRUE, who |-> {}, what |-> ""])>>
  /\ server = [list |-> [a \in 1 .. 2 |-> IF a = 1 THEN "ok" ELSE "bad"], v |-> 0]
  /\ disk = <<>>
  /\ past = [clicks |-> 0, v |-> -1, stale |-> FALSE]

AccountsOpened ==
  /\ Clicking(MaxAccounts)
  /\ ~ui.open
  /\ ui' = AccountsMounted
  /\ calls' = Ask("load", {}, IF mem.hit THEN "silent" ELSE "")
  /\ past' = [Clicked EXCEPT !.stale = TRUE]
  /\ UNCHANGED <<page, mem, server, disk>>

AccountsLeft ==
  /\ Clicking(MaxAccounts)
  /\ ui.open
  /\ ui' = [AccountsMounted EXCEPT !.open = FALSE]
  /\ calls' = [i \in DOMAIN calls |-> [calls[i] EXCEPT !.arg.mine = FALSE]]
  /\ past' = Clicked
  /\ UNCHANGED <<page, mem, server, disk>>

-----------------------------------------------------------------------------
(* The server.                                                             *)
Changed(list) == [list |-> list, v |-> IF list = server.list THEN server.v ELSE server.v + 1]

AccountsServed ==
  /\ \E i \in DOMAIN calls :
       LET q == calls[i]
           old == server.list
       IN  /\ q.op \in {"load", "delete", "refresh", "update", "import"} /\ q.at = "sent"
           /\ server' = Changed(
                CASE q.op = "delete" -> Restrict(old, DOMAIN old \ q.arg.who)
                  [] q.op = "update" -> [a \in DOMAIN old |-> IF a \in q.arg.who THEN q.arg.what
                                                                               ELSE old[a]]
                  [] q.op = "import" -> [a \in (DOMAIN old) \cup {3} |-> IF a = 3 THEN "ok"
                                                                               ELSE old[a]]
                  [] OTHER -> old)
           /\ calls' = Answered(i, server')
  /\ UNCHANGED <<page, ui, mem, disk, past>>

AccountsFail ==
  /\ Clicking(MaxAccounts)
  /\ \E i \in DOMAIN calls : calls[i].at = "sent" /\ calls' = Failed(i)
  /\ past' = Clicked
  /\ UNCHANGED <<page, ui, mem, server, disk>>

(* The pool itself finds an account broken, or removes it.                 *)
PoolChanges ==
  /\ Clicking(MaxAccounts)
  /\ \E a \in DOMAIN server.list :
       server' \in {Changed([server.list EXCEPT ![a] = "bad"]),
                    Changed(Restrict(server.list, DOMAIN server.list \ {a}))}
  /\ server' # server
  /\ past' = Clicked
  /\ UNCHANGED <<page, ui, mem, calls, disk>>

-----------------------------------------------------------------------------
(* Mutant: the selection survives a new list.                              *)
ListedOnly(u, list) == [u EXCEPT !.list = list]

(* The answers.                                                            *)
Listed(u, list) == [u EXCEPT !.list = list, !.sel = @ \cap DOMAIN list]

Unlocked(u, q) ==
  CASE q.op = "load" -> [u EXCEPT !.loading = @ /\ q.arg.what = "silent"]
    [] q.op = "delete" -> [u EXCEPT !.deleting = FALSE]
    [] q.op = "refresh" -> [u EXCEPT !.refreshing = FALSE]
    [] q.op = "update" -> [u EXCEPT !.updating = FALSE]
    [] q.op = "import" -> [u EXCEPT !.dialog.busy = FALSE]

(* A successful update closes the editor; a successful import closes and   *)
(* resets its dialog, forgets the selection and goes to the first page.    *)
Done(u, q) ==
  CASE q.op = "update" -> [u EXCEPT !.edit = NoEdit]
    [] q.op = "import" -> [u EXCEPT !.dialog = [NoAccountDialog EXCEPT !.busy = TRUE], !.sel = {},
                                    !.at = 1]
    [] OTHER -> u

Noted(q) == [past EXCEPT !.v = q.data.v, !.stale = past.v > q.data.v]

AccountsAnswered ==
  /\ \E op \in {"load", "delete", "refresh", "update", "import"} : \E i \in Arrived(op) :
       LET q == calls[i]
       IN  /\ calls' = Dropped(i)
           /\ IF q.at = "failed"
                THEN /\ ui' = IF q.arg.mine THEN Unlocked(ui, q) ELSE ui
                     /\ UNCHANGED <<mem, past>>
              ELSE IF q.arg.mine
                THEN /\ ui' = Unlocked(Done(Listed(ui, q.data.list), q), q)
                     /\ mem' = [hit |-> TRUE, list |-> q.data.list]
                     /\ past' = Noted(q)
              ELSE mem' = [hit |-> TRUE, list |-> q.data.list] /\ UNCHANGED <<ui, past>>
  /\ UNCHANGED <<page, server, disk>>

-----------------------------------------------------------------------------
(* The buttons above the table, and those of the table and its rows.       *)
Busy == ui.loading \/ ui.refreshing \/ ui.deleting

loadAccounts ==
  /\ ~Busy
  /\ ui' = [ui EXCEPT !.loading = TRUE]
  /\ calls' = Ask("load", {}, "")

handleRefreshAccounts ==
  \E who \in {DOMAIN ui.list, selectedTokens} \cup {{a} : a \in currentRows} :
    /\ who # {} /\ ~ui.refreshing
    /\ ui' = [ui EXCEPT !.refreshing = TRUE]
    /\ calls' = Ask("refresh", who, "")

handleDeleteTokens ==
  \E who \in {abnormalTokens, selectedTokens} \cup {{a} : a \in currentRows} :
    /\ who # {} /\ ~ui.deleting
    /\ ui' = [ui EXCEPT !.deleting = TRUE]
    /\ calls' = Ask("delete", who, "")

openEditDialog ==
  /\ ui.edit.who = 0 /\ ~ui.updating
  /\ \E a \in currentRows : ui' = [ui EXCEPT !.edit = [who |-> a, st |-> ui.list[a]]]
  /\ UNCHANGED calls

EditDialog ==
  /\ ui.edit.who # 0
  /\ \/ ui' = [ui EXCEPT !.edit = NoEdit] /\ UNCHANGED calls
     \/ /\ ~ui.updating
        /\ \E st \in {"ok", "bad"} :
             /\ ui' = [ui EXCEPT !.updating = TRUE, !.edit.st = st]
             /\ calls' = Ask("update", {ui.edit.who}, st)

toggleSelectAll ==
  /\ ui' = [ui EXCEPT !.sel = IF currentRows \subseteq @ THEN @ \ currentRows
                                                         ELSE @ \cup currentRows]
  /\ ui' # ui
  /\ UNCHANGED calls

RowChecked ==
  /\ \E a \in currentRows :
       ui' = [ui EXCEPT !.sel = IF a \in @ THEN @ \ {a} ELSE @ \cup {a}]
  /\ UNCHANGED calls

(* A change of the filter goes back to the first page.                     *)
FilterChanged ==
  /\ \E f \in {"all", "bad"} : f # ui.filter /\ ui' = [ui EXCEPT !.filter = f, !.at = 1]
  /\ UNCHANGED calls

PageTurned ==
  /\ \E n \in {safePage - 1, safePage + 1} :
       /\ n \in 1 .. (Cardinality(filteredAccounts) + PageRows - 1) \div PageRows
       /\ ui' = [ui EXCEPT !.at = n]
  /\ UNCHANGED calls

AccountsClicked ==
  /\ Clicking(MaxAccounts)
  /\ ui.open /\ ~ui.dialog.open /\ ~ui.dialog.confirm
  /\ \/ ui.edit.who = 0 /\ loadAccounts
     \/ ui.edit.who = 0 /\ handleRefreshAccounts
     \/ ui.edit.who = 0 /\ handleDeleteTokens
     \/ openEditDialog
     \/ EditDialog
     \/ ui.edit.who = 0 /\ toggleSelectAll
     \/ ui.edit.who = 0 /\ RowChecked
     \/ ui.edit.who = 0 /\ FilterChanged
     \/ ui.edit.who = 0 /\ PageTurned
  /\ past' = Clicked
  /\ UNCHANGED <<page, mem, server, disk>>

-----------------------------------------------------------------------------
(* The import dialog.                                                      *)
resetState(d) == [NoAccountDialog EXCEPT !.open = d.open, !.busy = d.busy]

Dialog(d) == ui' = [ui EXCEPT !.dialog = d]

(* As codex every account needs a refresh token; a token without a record  *)
(* has none.                                                               *)
submitTokens(tokens, files, source) ==
  /\ tokens \/ files # {}
  /\ source = "codex" => ~tokens /\ "bare" \notin files
  /\ Dialog([ui.dialog EXCEPT !.busy = TRUE])
  /\ calls' = Ask("import", files, source)

(* Closing resets the dialog, its Cancel button only hides it.             *)
handleOpenChange ==
  LET d == ui.dialog
  IN  /\ \/ ~d.open /\ ~d.confirm /\ ~Busy /\ ui.edit.who = 0 /\ Dialog([d EXCEPT !.open = TRUE])
         \/ d.open /\ ~d.confirm /\ Dialog([resetState(d) EXCEPT !.open = FALSE])
         \/ d.open /\ ~d.confirm /\ ~d.busy /\ ~Busy /\ Dialog([d EXCEPT !.open = FALSE])
      /\ UNCHANGED calls

SourceChosen ==
  /\ Dialog([ui.dialog EXCEPT !.source = IF @ = "web" THEN "codex" ELSE "web"])
  /\ UNCHANGED calls

handleImportTokenText ==
  /\ ~ui.dialog.busy /\ ~Busy
  /\ submitTokens(ui.dialog.text, {}, ui.dialog.source)

handleImportSessionJson ==
  /\ ~ui.dialog.busy /\ ~Busy
  /\ submitTokens(TRUE, {}, "web")

(* Files are chosen and read.                                              *)
FilesChosen ==
  /\ ~ui.dialog.busy
  /\ \/ calls' = Ask("txt", {}, "")
     \/ \E kinds \in {{"full"}, {"full", "bare"}} : calls' = Ask("json", kinds, "")
  /\ UNCHANGED ui

(* The confirmation opens when the files are read, its dialog or not.      *)
ConfirmDialog ==
  LET d == ui.dialog
  IN  /\ d.confirm
      /\ \/ ~d.busy /\ Dialog([d EXCEPT !.confirm = FALSE]) /\ UNCHANGED calls
         \/ ~d.busy /\ submitTokens(FALSE, d.files, d.source)

(* The files wait for the confirmation, opened again from the dialog.      *)
JsonConfirmed ==
  /\ ~ui.dialog.busy /\ ~Busy
  /\ ui.dialog.files # {}
  /\ Dialog([ui.dialog EXCEPT !.confirm = TRUE])
  /\ UNCHANGED calls

ImportClicked ==
  /\ Clicking(MaxAccounts)
  /\ ui.open
  /\ \/ handleOpenChange
     \/ ui.dialog.open /\ ~ui.dialog.confirm /\ SourceChosen
     \/ ui.dialog.open /\ ~ui.dialog.confirm /\ handleImportTokenText
     \/ ui.dialog.open /\ ~ui.dialog.confirm /\ handleImportSessionJson
     \/ ui.dialog.open /\ ~ui.dialog.confirm /\ FilesChosen
     \/ ui.dialog.open /\ ~ui.dialog.confirm /\ JsonConfirmed
     \/ ConfirmDialog
  /\ past' = Clicked
  /\ UNCHANGED <<page, mem, server, disk>>

handleTxtSelected ==
  /\ \E i \in Waiting("txt") :
       /\ calls' = Dropped(i)
       /\ ui' = IF calls[i].arg.mine THEN [ui EXCEPT !.dialog.text = TRUE] ELSE ui
  /\ UNCHANGED <<page, mem, server, disk, past>>

handleJsonSelected ==
  /\ \E i \in Waiting("json") :
       /\ calls' = Dropped(i)
       /\ ui' = IF calls[i].arg.mine
                  THEN [ui EXCEPT !.dialog = [ui.dialog EXCEPT !.files = calls[i].arg.who,
                                                               !.confirm = TRUE]]
                ELSE ui
  /\ UNCHANGED <<page, mem, server, disk, past>>

FileUnreadable ==
  /\ \E op \in {"txt", "json"} : \E i \in Arrived(op) : calls' = Dropped(i)
  /\ UNCHANGED <<page, ui, mem, server, disk, past>>

AccountsNext ==
  \/ AccountsOpened \/ AccountsLeft \/ AccountsServed \/ AccountsFail \/ PoolChanges
  \/ AccountsAnswered \/ AccountsClicked \/ ImportClicked
  \/ handleTxtSelected \/ handleJsonSelected \/ FileUnreadable

-----------------------------------------------------------------------------
(* What is selected is on the list, whichever answer replaced the list     *)
(* last, and a list that shows the latest version the server sent is the   *)
(* server's: no answer, in whatever order they come, leaves the page with  *)
(* a list put together from two of them (setAccounts and setSelectedIds    *)
(* after every request).                                                   *)
ListFits ==
  page = "accounts" /\ ui.open =>
    /\ ui.sel \subseteq DOMAIN ui.list
    /\ ~past.stale /\ past.v = server.v => ui.list = server.list

=============================================================================
