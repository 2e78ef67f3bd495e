------------------------------ MODULE LogsPage ------------------------------
(***************************************************************************)
(* The log viewer (logs/page.tsx): the server's logs under a filter (type  *)
(* and dates, here one value), selection, deletion, and the details or     *)
(* images of one log.  A change of the filter reads the list again; no     *)
(* earlier read is cancelled, and the handler of a click keeps the filter  *)
(* it was rendered with to its end.                                        *)
(*                                                                         *)
(*   mem     cachedLogs: filled or not, the list and the filter            *)
(*   ui      list, filter, spinner, selection, the logs in the confirm     *)
(*           dialog, whether a deletion runs, the log whose detail is open *)
(*   calls   reads and deletions, with the filter of their render          *)
(*   server  the logs there are                                            *)
(***************************************************************************)
EXTENDS WebClient

CONSTANTS MaxLogs      \* clicks, page changes, failures, new logs

LogType == [i \in 1 .. 3 |-> IF i = 2 THEN "account" ELSE "call"]

LogCall(op, arg, silent, type) ==
  [op |-> op, arg |-> arg, at |-> "sent", data |-> {}, type |-> type,
   silent |-> silent, mine |-> TRUE]

-----------------------------------------------------------------------------
(* The page opens with the cache, filter included, and reads in the        *)
(* background; without a cache it shows the spinner.                       *)
LogsMounted ==
  [open |-> TRUE, items |-> mem.items, type |-> mem.type, loading |-> ~mem.hit,
   sel |-> {}, deletingItems |-> {}, isDeleting |-> FALSE, detail |-> 0]

LogsInit ==
  /\ page = "logs"
  /\ mem = [hit |-> FALSE, items |-> {}, type |-> "call"]
  /\ ui = LogsMounted
  /\ calls = <<LogCall("load", {}, FALSE, "call")>>
  /\ server = {1, 2}
  /\ disk = <<>>
  /\ past = [clicks |-> 0]

LogsOpened ==
  /\ Clicking(MaxLogs)
  /\ ~ui.open
  /\ ui' = LogsMounted
  /\ calls' = Append(calls, LogCall("load", {}, mem.hit, mem.type))
  /\ past' = Clicked
  /\ UNCHANGED <<page, mem, server, disk>>

LogsLeft ==
  /\ Clicking(MaxLogs)
  /\ ui.open
  /\ ui' = [LogsMounted EXCEPT !.open = FALSE]
  /\ calls' = [i \in DOMAIN calls |-> [calls[i] EXCEPT !.mine = FALSE]]
  /\ past' = Clicked
  /\ UNCHANGED <<page, mem, server, disk>>

-----------------------------------------------------------------------------
(* The server.                                                             *)
LogsRead ==
  /\ \E i \in Waiting("load") \cup Waiting("reload") :
       calls' = Answered(i, {l \in server : LogType[l] = calls[i].type})
  /\ UNCHANGED <<page, ui, mem, server, disk, past>>

LogsRemoved ==
  /\ \E i \in Waiting("delete") :
       /\ server' = server \ calls[i].arg
       /\ calls' = Answered(i, {})
  /\ UNCHANGED <<page, ui, mem, disk, past>>

LogsFail ==
  /\ Clicking(MaxLogs)
  /\ \E i \in DOMAIN calls : calls[i].at = "sent" /\ calls' = Failed(i)
  /\ past' = Clicked
  /\ UNCHANGED <<page, ui, mem, server, disk>>

LogWritten ==
  /\ Clicking(MaxLogs)
  /\ 3 \notin server
  /\ server' = server \cup {3}
  /\ past' = Clicked
  /\ UNCHANGED <<page, ui, mem, calls, disk>>

-----------------------------------------------------------------------------
(* Mutant: the cache gets the filter of the page instead.                  *)
loadUnderNewFilter ==
  /\ \E i \in Pending("load") \cup Pending("reload") :
       LET q == calls[i]
           ok == q.at = "ok"
       IN  /\ q.at # "sent"
           /\ calls' = Dropped(i)
           /\ mem' = IF ok THEN [hit |-> TRUE, items |-> q.data, type |-> ui.type] ELSE mem
           /\ ui' = IF ~q.mine THEN ui
                    ELSE [ui EXCEPT !.items = IF ok THEN q.data ELSE @,
                                    !.sel = IF ok THEN @ \cap q.data ELSE @,
                                    !.loading = @ /\ q.silent,
                                    !.isDeleting = @ /\ q.op # "reload"]
  /\ UNCHANGED <<page, server, disk, past>>

(* The answer of a read fills list and cache, the cache with the filter    *)
(* the read was made with, even when the page has been left; what is not   *)
(* listed any more is no longer selected.                                  *)
loadLogs ==
  /\ \E i \in Pending("load") \cup Pending("reload") :
       LET q == calls[i]
           ok == q.at = "ok"
       IN  /\ q.at # "sent"
           /\ calls' = Dropped(i)
           /\ mem' = IF ok THEN [hit |-> TRUE, items |-> q.data, type |-> q.type] ELSE mem
           /\ ui' = IF ~q.mine THEN ui
                    ELSE [ui EXCEPT !.items = IF ok THEN q.data ELSE @,
                                    !.sel = IF ok THEN @ \cap q.data ELSE @,
                                    !.loading = @ /\ q.silent,
                                    !.isDeleting = @ /\ q.op # "reload"]
  /\ UNCHANGED <<page, server, disk, past>>

(* After the deletion the handler reads the list again, with the filter of *)
(* the click, and only then ends.                                          *)
DeleteAnswered ==
  /\ \E i \in Arrived("delete") :
       LET q == calls[i]
           ids == q.arg
       IN  IF q.at = "failed"
             THEN /\ calls' = Dropped(i)
                  /\ ui' = IF q.mine THEN [ui EXCEPT !.isDeleting = FALSE] ELSE ui
           ELSE /\ calls' = Append(Dropped(i), [q EXCEPT !.op = "reload", !.at = "sent"])
                /\ ui' = IF ~q.mine THEN ui
                         ELSE [ui EXCEPT !.deletingItems = {}, !.sel = @ \ ids,
                                         !.detail = IF @ \in ids THEN 0 ELSE @,
                                         !.loading = TRUE]
  /\ UNCHANGED <<page, mem, server, disk, past>>

-----------------------------------------------------------------------------
(* The user.  A dialog hides the page.                                     *)
PageReached == ui.deletingItems = {} /\ ui.detail = 0

TypeChosen ==
  /\ PageReached
  /\ \E t \in {"call", "account"} \ {ui.type} :
       /\ ui' = [ui EXCEPT !.type = t, !.loading = TRUE]
       /\ calls' = Append(calls, LogCall("load", {}, FALSE, t))

RefreshClicked ==
  /\ PageReached /\ ~ui.loading
  /\ ui' = [ui EXCEPT !.loading = TRUE]
  /\ calls' = Append(calls, LogCall("load", {}, FALSE, ui.type))

toggleIds ==
  /\ PageReached
  /\ \E ids \in {ui.items} \cup {{l} : l \in ui.items} :
       /\ ids # {}
       /\ ui' = [ui EXCEPT !.sel = IF ids \subseteq @ THEN @ \ ids ELSE @ \cup ids]
  /\ UNCHANGED calls

(* Deletion is offered for the selection, and on every row for that log.   *)
DeleteOffered ==
  /\ PageReached
  /\ \/ /\ ui.sel # {} /\ ~ui.isDeleting
        /\ \/ ui' = [ui EXCEPT !.sel = {}]
           \/ ui' = [ui EXCEPT !.deletingItems = ui.items \cap ui.sel]
     \/ \E l \in ui.items : ui' = [ui EXCEPT !.deletingItems = {l}]
  /\ UNCHANGED calls

openDetail ==
  /\ \/ PageReached /\ \E l \in ui.items : ui' = [ui EXCEPT !.detail = l]
     \/ ui.detail # 0 /\ ui' = [ui EXCEPT !.detail = 0]
  /\ UNCHANGED calls

(* Escape closes the dialog even while the deletion runs.                  *)
DeleteDialog ==
  /\ ui.deletingItems # {}
  /\ \/ ui' = [ui EXCEPT !.deletingItems = {}] /\ UNCHANGED calls
     \/ /\ ~ui.isDeleting
        /\ ui' = [ui EXCEPT !.isDeleting = TRUE]
        /\ calls' = Append(calls, LogCall("delete", ui.deletingItems, FALSE, ui.type))

LogsClicked ==
  /\ Clicking(MaxLogs)
  /\ ui.open
  /\ TypeChosen \/ RefreshClicked \/ toggleIds \/ DeleteOffered \/ openDetail \/ DeleteDialog
  /\ past' = Clicked
  /\ UNCHANGED <<page, mem, server, disk>>

LogsNext ==
  \/ LogsOpened \/ LogsLeft \/ LogsRead \/ LogsRemoved \/ LogsFail \/ LogWritten
  \/ loadLogs \/ DeleteAnswered \/ LogsClicked

-----------------------------------------------------------------------------
(* The cache pairs every list with the filter it was read under, whatever  *)
(* filter the page has moved on to when the answer arrives, so a page that *)
(* is opened again never shows the logs of one type as those of the other; *)
(* and only logs on the page are selected for deletion (setItems,          *)
(* loadLogs, confirmDelete).                                               *)
CachedUnderItsFilter ==
  page = "logs" =>
    /\ \A l \in mem.items : LogType[l] = mem.type
    /\ ui.sel \subseteq ui.items

=============================================================================
