----------------------------- MODULE WebProofs -----------------------------
(***************************************************************************)
(* What the pages of the web client promise, for any number of             *)
(* conversations, tasks, moves, edits and images.                          *)
(*                                                                         *)
(* A behaviour of MCWeb is about one page, so each page has an inductive   *)
(* invariant of its own (LogsInv, AccountsInv, GalleryInv, SettingsInv,    *)
(* RegisterInv, ComposerInv, SessionInv, LightboxInv, and ImageInv of      *)
(* ImageQueueProofs), and the section of a page shows that its initial     *)
(* states satisfy it, that each of its actions keeps it, and that it       *)
(* implies the page's property.  The last section joins them into WebInv   *)
(* and states the theorems.                                                *)
(*                                                                         *)
(* A property about what a page shows is not inductive because answers are *)
(* on their way: an invariant therefore says what a request may carry and  *)
(* what its answer may bring ("good" requests), and which requests are     *)
(* never on the way together.                                              *)
(***************************************************************************)
EXTENDS MCWeb, ImageQueueProofs


(* Requests of a kind of which there is at most one on the way.            *)
AtMostOne(s, kind) == \A j, k \in DOMAIN s : s[j] \in kind /\ s[k] \in kind => j = k

NoneOf(s, kind) == \A j \in DOMAIN s : s[j] \notin kind

LEMMA OneRemoved ==
  ASSUME NEW S, NEW s \in Seq(S), NEW i \in DOMAIN s, NEW kind, AtMostOne(s, kind)
  PROVE  /\ AtMostOne(RemoveAt(s, i), kind)
         /\ s[i] \in kind => NoneOf(RemoveAt(s, i), kind)
         /\ NoneOf(s, kind) => NoneOf(RemoveAt(s, i), kind)
<1> DEFINE t == RemoveAt(s, i)
<1>1. /\ DOMAIN t = 1 .. Len(s) - 1 /\ DOMAIN s = 1 .. Len(s) /\ Len(s) \in Nat /\ i \in Nat
      /\ \A j \in DOMAIN t : /\ j \in DOMAIN s /\ j + 1 \in DOMAIN s
                             /\ t[j] = IF j < i THEN s[j] ELSE s[j + 1]
  BY RemovedSeq, LenProperties
<1> HIDE DEF t
<1>2. \A j \in DOMAIN t : j \in Nat
  BY <1>1
<1>3. ASSUME NEW j \in DOMAIN t, NEW k \in DOMAIN t, t[j] \in kind, t[k] \in kind
      PROVE  j = k
  BY <1>1, <1>2, <1>3 DEF AtMostOne
<1>4. ASSUME NEW j \in DOMAIN t, t[j] \in kind, s[i] \in kind
      PROVE  FALSE
  BY <1>1, <1>2, <1>4 DEF AtMostOne
<1>5. ASSUME NEW j \in DOMAIN t, t[j] \in kind, NoneOf(s, kind)
      PROVE  FALSE
  BY <1>1, <1>2, <1>5 DEF NoneOf
<1>6. QED
  BY <1>3, <1>4, <1>5 DEF AtMostOne, NoneOf, t

LEMMA OneAppended ==
  ASSUME NEW S, NEW s \in Seq(S), NEW e \in S, NEW kind
  PROVE  /\ NoneOf(s, kind) => AtMostOne(Append(s, e), kind)
         /\ AtMostOne(s, kind) /\ e \notin kind => AtMostOne(Append(s, e), kind)
         /\ NoneOf(s, kind) /\ e \notin kind => NoneOf(Append(s, e), kind)
<1>1. /\ DOMAIN Append(s, e) = 1 .. Len(s) + 1 /\ DOMAIN s = 1 .. Len(s) /\ Len(s) \in Nat
      /\ \A j \in DOMAIN s : Append(s, e)[j] = s[j]
      /\ Append(s, e)[Len(s) + 1] = e
  BY AppendedSeq
<1>2. \A j \in DOMAIN Append(s, e) : j \in DOMAIN s \/ j = Len(s) + 1
  BY <1>1
<1>3. QED
  BY <1>1, <1>2 DEF AtMostOne, NoneOf

LEMMA OneReshaped ==
  ASSUME NEW s, NEW t, DOMAIN t = DOMAIN s, NEW kind,
         \A j \in DOMAIN s : t[j] \in kind => s[j] \in kind
  PROVE  /\ AtMostOne(s, kind) => AtMostOne(t, kind)
         /\ NoneOf(s, kind) => NoneOf(t, kind)
BY DEF AtMostOne, NoneOf

(* A request that is cancelled, if it is there.                            *)
LEMMA CancelledSeq ==
  ASSUME NEW S, NEW s \in Seq(S), NEW op
  PROVE  Cancelled(s, op) = s \/ \E i \in DOMAIN s : s[i].op = op /\ Cancelled(s, op) = RemoveAt(s, i)
<1> DEFINE sent == {i \in DOMAIN s : s[i].op = op}
           i == CHOOSE i \in sent : TRUE
<1>1. CASE sent = {}
  BY <1>1 DEF Cancelled
<1>2. CASE sent # {}
  <2>1. i \in sent
    BY <1>2
  <2>2. Cancelled(s, op) = RemoveAt(s, i)
    BY <1>2 DEF Cancelled
  <2>3. QED
    BY <2>1, <2>2
<1>3. QED
  BY <1>1, <1>2
-----------------------------------------------------------------------------
(* The log viewer.                                                         *)

Logs == 1 .. 3
LogTypes == {"call", "account"}

LogPages ==
  [open : BOOLEAN, items : SUBSET Logs, type : LogTypes, loading : BOOLEAN,
   sel : SUBSET Logs, deletingItems : SUBSET Logs, isDeleting : BOOLEAN, detail : 0 .. 3]

LogCaches == [hit : BOOLEAN, items : SUBSET Logs, type : LogTypes]

LogRequests ==
  [op : {"load", "reload", "delete"}, arg : SUBSET Logs, at : {"sent", "ok", "failed"},
   data : SUBSET Logs, type : LogTypes, silent : BOOLEAN, mine : BOOLEAN]

OfType(logs, type) == \A l \in logs : LogType[l] = type

(* CachedUnderItsFilter is not inductive: an answer that is still on its   *)
(* way must be of the filter its request carries.                          *)
GoodLogRequests ==
  {q \in LogRequests : q.op # "delete" /\ q.at = "ok" => OfType(q.data, q.type)}

LogsInv ==
  /\ page = "logs"
  /\ ui \in LogPages /\ ui.sel \subseteq ui.items
  /\ mem \in LogCaches /\ OfType(mem.items, mem.type)
  /\ calls \in Seq(GoodLogRequests)
  /\ server \in SUBSET Logs

LEMMA LogsMountedFits ==
  ASSUME mem \in LogCaches
  PROVE  LogsMounted \in LogPages /\ LogsMounted.sel = {} /\ LogsMounted.items = mem.items
BY DEF LogsMounted, LogPages, LogCaches, Logs

LEMMA LogCallGood ==
  ASSUME NEW op \in {"load", "reload", "delete"}, NEW arg \in SUBSET Logs,
         NEW silent \in BOOLEAN, NEW type \in LogTypes
  PROVE  LogCall(op, arg, silent, type) \in GoodLogRequests
BY DEF LogCall, GoodLogRequests, LogRequests

LEMMA LogsInitInv == LogsInit => LogsInv
<1> SUFFICES ASSUME LogsInit PROVE LogsInv
  OBVIOUS
<1>1. mem \in LogCaches /\ OfType(mem.items, mem.type)
  BY DEF LogsInit, LogCaches, LogTypes, OfType
<1>2. ui \in LogPages /\ ui.sel \subseteq ui.items
  BY <1>1, LogsMountedFits DEF LogsInit
<1>3. LogCall("load", {}, FALSE, "call") \in GoodLogRequests
  BY LogCallGood DEF LogTypes
<1>4. calls \in Seq(GoodLogRequests)
  BY <1>3, OneSeq DEF LogsInit
<1>5. QED
  <2>1. server \in SUBSET Logs
    BY 1 \in 1 .. 3, 2 \in 1 .. 3 DEF LogsInit, Logs
  <2>2. QED
    BY <1>1, <1>2, <1>4, <2>1 DEF LogsInit, LogsInv

LEMMA LogsStep == LogsInv /\ LogsNext => LogsInv'
<1> SUFFICES ASSUME LogsInv, LogsNext PROVE LogsInv'
  OBVIOUS
<1>0. /\ page = "logs" /\ ui \in LogPages /\ ui.sel \subseteq ui.items
      /\ mem \in LogCaches /\ OfType(mem.items, mem.type)
      /\ calls \in Seq(GoodLogRequests) /\ server \in SUBSET Logs
  BY DEF LogsInv
<1>q. ASSUME NEW i \in DOMAIN calls
      PROVE  /\ calls[i] \in GoodLogRequests
             /\ Dropped(i) \in Seq(GoodLogRequests)
  BY <1>0, CallOfSeq, RemovedSeq DEF Dropped
<1>1. CASE LogsOpened
  <2>1. LogCall("load", {}, mem.hit, mem.type) \in GoodLogRequests
    BY <1>0, LogCallGood DEF LogCaches
  <2>2. calls' \in Seq(GoodLogRequests)
    BY <1>0, <1>1, <2>1, AppendedSeq DEF LogsOpened
  <2>3. QED
    BY <1>0, <1>1, <2>2, LogsMountedFits DEF LogsOpened, LogsInv
<1>2. CASE LogsLeft
  <2>1. \A i \in DOMAIN calls : [calls[i] EXCEPT !.mine = FALSE] \in GoodLogRequests
    BY <1>q DEF GoodLogRequests, LogRequests
  <2>2. calls' \in Seq(GoodLogRequests)
    BY <1>0, <1>2, <2>1, ReshapedSeq DEF LogsLeft
  <2>3. [LogsMounted EXCEPT !.open = FALSE] \in LogPages
        /\ [LogsMounted EXCEPT !.open = FALSE].sel = {}
    BY <1>0, LogsMountedFits DEF LogPages
  <2>4. QED
    BY <1>0, <1>2, <2>2, <2>3 DEF LogsLeft, LogsInv
<1>3. CASE LogsRead
  <2>1. PICK i \in Waiting("load") \cup Waiting("reload") :
          calls' = Answered(i, {l \in server : LogType[l] = calls[i].type})
    BY <1>3 DEF LogsRead
  <2>2. i \in DOMAIN calls /\ calls[i].op # "delete"
    BY <2>1 DEF Waiting, Pending
  <2> DEFINE data == {l \in server : LogType[l] = calls[i].type}
  <2>3. data \in SUBSET Logs /\ OfType(data, calls[i].type)
    BY <1>0 DEF OfType
  <2> HIDE DEF data
  <2>4. [calls[i] EXCEPT !.at = "ok", !.data = data] \in GoodLogRequests
    BY <1>q, <2>2, <2>3 DEF GoodLogRequests, LogRequests
  <2>5. calls' = [calls EXCEPT ![i] = [calls[i] EXCEPT !.at = "ok", !.data = data]]
    BY <2>1 DEF Answered, data
  <2>6. calls' \in Seq(GoodLogRequests)
    BY <1>0, <2>2, <2>4, <2>5, ChangedSeq
  <2>7. QED
    BY <1>0, <1>3, <2>6 DEF LogsRead, LogsInv
<1>4. CASE LogsRemoved
  <2>1. PICK i \in Waiting("delete") :
          server' = server \ calls[i].arg /\ calls' = Answered(i, {})
    BY <1>4 DEF LogsRemoved
  <2>2. i \in DOMAIN calls /\ calls[i].op = "delete"
    BY <2>1 DEF Waiting, Pending
  <2>3. [calls[i] EXCEPT !.at = "ok", !.data = {}] \in GoodLogRequests
    BY <1>q, <2>2 DEF GoodLogRequests, LogRequests
  <2>4. calls' \in Seq(GoodLogRequests)
    BY <1>0, <2>1, <2>2, <2>3, ChangedSeq DEF Answered
  <2>5. QED
    BY <1>0, <1>4, <2>1, <2>4 DEF LogsRemoved, LogsInv
<1>5. CASE LogsFail
  <2>1. PICK i \in DOMAIN calls : calls' = Failed(i)
    BY <1>5 DEF LogsFail
  <2>2. [calls[i] EXCEPT !.at = "failed"] \in GoodLogRequests
    BY <1>q DEF GoodLogRequests, LogRequests
  <2>3. calls' = [calls EXCEPT ![i] = [calls[i] EXCEPT !.at = "failed"]]
    BY <2>1 DEF Failed
  <2>4. calls' \in Seq(GoodLogRequests)
    BY <1>0, <2>2, <2>3, ChangedSeq
  <2>5. QED
    BY <1>0, <1>5, <2>4 DEF LogsFail, LogsInv
<1>6. CASE LogWritten
  BY <1>0, <1>6 DEF LogWritten, LogsInv, Logs
<1>7. CASE loadLogs
  <2>1. PICK i \in Pending("load") \cup Pending("reload") :
          LET q == calls[i]
              ok == q.at = "ok"
          IN  /\ q.at # "sent"
              /\ calls' = Dropped(i)
              /\ mem' = IF ok THEN [hit |-> TRUE, items |-> q.data, type |-> q.type] ELSE mem
              /\ ui' = IF ~q.mine THEN ui
                       ELSE [ui EXCEPT !.items = IF ok THEN q.data ELSE @,
                                       !.sel = IF ok THEN @ \cap q.data ELSE @,
                                       !.loading = @ /\ q.silent,
                                       !.isDeleting = @ /\ q.op # "reload"]
    BY <1>7 DEF loadLogs
  <2>2. i \in DOMAIN calls /\ calls[i].op # "delete"
    BY <2>1 DEF Pending
  <2>3. calls[i] \in GoodLogRequests /\ calls' \in Seq(GoodLogRequests)
    BY <1>q, <2>1, <2>2
  <2>4. mem' \in LogCaches /\ OfType(mem'.items, mem'.type)
    BY <1>0, <2>1, <2>2, <2>3 DEF GoodLogRequests, LogRequests, LogCaches
  <2>5. calls[i].data \in SUBSET Logs /\ calls[i].silent \in BOOLEAN
    BY <2>3 DEF GoodLogRequests, LogRequests
  <2>6. ui' \in LogPages /\ ui'.sel \subseteq ui'.items
    <3>1. CASE ~calls[i].mine
      BY <1>0, <2>1, <3>1
    <3> DEFINE d == IF calls[i].at = "ok" THEN calls[i].data ELSE ui.items
               s == IF calls[i].at = "ok" THEN ui.sel \cap calls[i].data ELSE ui.sel
               l == ui.loading /\ calls[i].silent
               b == ui.isDeleting /\ calls[i].op # "reload"
    <3>2. CASE calls[i].mine
      <4>1. ui' = [ui EXCEPT !.items = d, !.sel = s, !.loading = l, !.isDeleting = b]
        BY <2>1, <3>2
      <4>2. /\ d \in SUBSET Logs /\ s \in SUBSET Logs /\ s \subseteq d
            /\ l \in BOOLEAN /\ b \in BOOLEAN
        BY <1>0, <2>5 DEF LogPages
      <4> HIDE DEF d, s, l, b
      <4>3. QED
        BY <1>0, <4>1, <4>2 DEF LogPages
    <3>3. QED
      BY <3>1, <3>2
  <2>7. QED
    BY <1>0, <1>7, <2>3, <2>4, <2>6 DEF loadLogs, LogsInv
<1>8. CASE DeleteAnswered
  <2>1. PICK i \in Arrived("delete") :
          IF calls[i].at = "failed"
            THEN /\ calls' = Dropped(i)
                 /\ ui' = IF calls[i].mine THEN [ui EXCEPT !.isDeleting = FALSE] ELSE ui
          ELSE /\ calls' = Append(Dropped(i), [calls[i] EXCEPT !.op = "reload", !.at = "sent"])
               /\ ui' = IF ~calls[i].mine THEN ui
                        ELSE [ui EXCEPT !.deletingItems = {}, !.sel = @ \ calls[i].arg,
                                        !.detail = IF @ \in calls[i].arg THEN 0 ELSE @,
                                        !.loading = TRUE]
    BY <1>8 DEF DeleteAnswered
  <2>2. i \in DOMAIN calls
    BY <2>1 DEF Arrived, Pending
  <2>3. /\ calls[i] \in GoodLogRequests /\ Dropped(i) \in Seq(GoodLogRequests)
        /\ [calls[i] EXCEPT !.op = "reload", !.at = "sent"] \in GoodLogRequests
    BY <1>q, <2>2 DEF GoodLogRequests, LogRequests
  <2>4. calls' \in Seq(GoodLogRequests)
    BY <2>1, <2>3, AppendedSeq
  <2>5. ui' \in LogPages /\ ui'.sel \subseteq ui'.items
    <3> DEFINE ids == calls[i].arg
               d == IF ui.detail \in ids THEN 0 ELSE ui.detail
    <3>1. CASE ui' = ui \/ ui' = [ui EXCEPT !.isDeleting = FALSE]
      BY <1>0, <3>1 DEF LogPages
    <3>2. CASE ui' = [ui EXCEPT !.deletingItems = {}, !.sel = ui.sel \ ids, !.detail = d,
                                !.loading = TRUE]
      <4>1. d \in 0 .. 3 /\ ui.sel \ ids \in SUBSET Logs /\ ui.sel \ ids \subseteq ui.items
        BY <1>0 DEF LogPages
      <4> HIDE DEF d, ids
      <4>2. QED
        BY <1>0, <3>2, <4>1 DEF LogPages
    <3>3. QED
      BY <2>1, <3>1, <3>2
  <2>6. QED
    BY <1>0, <1>8, <2>4, <2>5 DEF DeleteAnswered, LogsInv
<1>9. CASE LogsClicked
  <2>1. UNCHANGED <<page, mem, server>>
    BY <1>9 DEF LogsClicked
  <2>2. ui' \in LogPages /\ ui'.sel \subseteq ui'.items /\ calls' \in Seq(GoodLogRequests)
    <3>1. CASE TypeChosen
      <4>1. PICK t \in {"call", "account"} \ {ui.type} :
              /\ ui' = [ui EXCEPT !.type = t, !.loading = TRUE]
              /\ calls' = Append(calls, LogCall("load", {}, FALSE, t))
        BY <3>1 DEF TypeChosen
      <4>2. LogCall("load", {}, FALSE, t) \in GoodLogRequests
        BY LogCallGood DEF LogTypes
      <4>3. calls' \in Seq(GoodLogRequests)
        BY <1>0, <4>1, <4>2, AppendedSeq
      <4>4. QED
        BY <1>0, <4>1, <4>3 DEF LogPages, LogTypes
    <3>2. CASE RefreshClicked
      <4>1. LogCall("load", {}, FALSE, ui.type) \in GoodLogRequests
        BY <1>0, LogCallGood DEF LogPages
      <4>2. calls' \in Seq(GoodLogRequests)
        BY <1>0, <3>2, <4>1, AppendedSeq DEF RefreshClicked
      <4>3. QED
        BY <1>0, <3>2, <4>2 DEF RefreshClicked, LogPages
    <3>3. CASE toggleIds
      <4>1. PICK ids \in {ui.items} \cup {{l} : l \in ui.items} :
              ui' = [ui EXCEPT !.sel = IF ids \subseteq @ THEN @ \ ids ELSE @ \cup ids]
        BY <3>3 DEF toggleIds
      <4>2. ids \subseteq ui.items
        OBVIOUS
      <4>3. QED
        BY <1>0, <3>3, <4>1, <4>2 DEF toggleIds, LogPages
    <3>4. CASE DeleteOffered
      BY <1>0, <3>4 DEF DeleteOffered, LogPages
    <3>5. CASE openDetail
      BY <1>0, <3>5 DEF openDetail, LogPages, Logs
    <3>6. CASE DeleteDialog
      <4>1. CASE ui' = [ui EXCEPT !.deletingItems = {}] /\ UNCHANGED calls
        BY <1>0, <4>1 DEF LogPages
      <4>2. CASE /\ ui' = [ui EXCEPT !.isDeleting = TRUE]
                 /\ calls' = Append(calls, LogCall("delete", ui.deletingItems, FALSE, ui.type))
        <5>1. LogCall("delete", ui.deletingItems, FALSE, ui.type) \in GoodLogRequests
          BY <1>0, LogCallGood DEF LogPages
        <5>2. calls' \in Seq(GoodLogRequests)
          BY <1>0, <4>2, <5>1, AppendedSeq
        <5>3. QED
          BY <1>0, <4>2, <5>2 DEF LogPages
      <4>3. QED
        BY <3>6, <4>1, <4>2 DEF DeleteDialog
    <3>7. QED
      BY <1>9, <3>1, <3>2, <3>3, <3>4, <3>5, <3>6 DEF LogsClicked
  <2>3. QED
    BY <1>0, <2>1, <2>2 DEF LogsInv
<1>10. QED
  BY <1>1, <1>2, <1>3, <1>4, <1>5, <1>6, <1>7, <1>8, <1>9 DEF LogsNext

-----------------------------------------------------------------------------
(* The accounts page.                                                      *)

Statuses == {"ok", "bad"}
AccountLists == UNION {[who -> Statuses] : who \in SUBSET Accounts}
ServedLists == [list : AccountLists, v : Int]
FileKinds == {"full", "bare"}
Whom == Accounts \cup FileKinds
AccountAsks == {"load", "delete", "refresh", "update", "import"}

AccountEdits == [who : 0 .. 3, st : Statuses]

ImportDialogs ==
  [open : BOOLEAN, source : {"web", "codex"}, text : BOOLEAN, files : SUBSET Whom,
   confirm : BOOLEAN, busy : BOOLEAN]

AccountPages ==
  [open : BOOLEAN, list : AccountLists, sel : SUBSET Accounts, filter : {"all", "bad"},
   at : Int, loading : BOOLEAN, refreshing : BOOLEAN, deleting : BOOLEAN,
   updating : BOOLEAN, edit : AccountEdits, dialog : ImportDialogs]

AccountArgs ==
  [mine : BOOLEAN, who : SUBSET Whom,
   what : Statuses \cup {"", "silent", "web", "codex"}]

AccountRequests ==
  [op : AccountAsks \cup {"txt", "json"}, arg : AccountArgs, at : {"sent", "ok", "failed"},
   data : ServedLists \cup {"none"}]

(* A list the server has sent is no newer than what it holds, and the same *)
(* when it is as new.                                                      *)
NotAhead(d, s) == d \in ServedLists /\ d.v <= s.v /\ (d.v = s.v => d.list = s.list)

(* ListFits is not inductive: it takes the same of the answers on the way  *)
(* and of a list that was shown before.                                    *)
GoodAccountRequests(s) ==
  {q \in AccountRequests : /\ q.op = "update" => q.arg.what \in Statuses
                           /\ q.op \in AccountAsks /\ q.at = "ok" => NotAhead(q.data, s)}

SelectionListed(u) == u.sel \subseteq DOMAIN u.list

AccountsInv ==
  /\ page = "accounts"
  /\ ui \in AccountPages /\ SelectionListed(ui)
  /\ mem \in [hit : BOOLEAN, list : AccountLists]
  /\ server \in ServedLists
  /\ past \in [clicks : Int, v : Int, stale : BOOLEAN]
  /\ calls \in Seq(GoodAccountRequests(server))
  /\ past.v <= server.v
  /\ ui.open /\ ~past.stale /\ past.v = server.v => ui.list = server.list

LEMMA AccountValues ==
  /\ NoEdit \in AccountEdits /\ NoAccountDialog \in ImportDialogs
  /\ NoList \in AccountLists
  /\ \A l \in AccountLists : DOMAIN l \in SUBSET Accounts /\ \A a \in DOMAIN l : l[a] \in Statuses
<1>1. NoEdit \in AccountEdits /\ NoAccountDialog \in ImportDialogs
  BY DEF NoEdit, AccountEdits, NoAccountDialog, ImportDialogs, NoFiles, Statuses
<1>2. NoList \in [{} -> Statuses] /\ {} \in SUBSET Accounts
  BY DEF NoList
<1>3. NoList \in AccountLists
  BY <1>2 DEF AccountLists
<1>4. \A l \in AccountLists : DOMAIN l \in SUBSET Accounts /\ \A a \in DOMAIN l : l[a] \in Statuses
  BY DEF AccountLists
<1>5. QED
  BY <1>1, <1>3, <1>4

LEMMA AccountListOf ==
  ASSUME NEW who \in SUBSET Accounts, NEW l, l = [a \in who |-> l[a]],
         \A a \in who : l[a] \in Statuses
  PROVE  l \in AccountLists
<1>1. l \in [who -> Statuses]
  OBVIOUS
<1>2. QED
  BY <1>1 DEF AccountLists

LEMMA AccountsMountedFits ==
  ASSUME mem \in [hit : BOOLEAN, list : AccountLists]
  PROVE  /\ AccountsMounted \in AccountPages /\ SelectionListed(AccountsMounted)
         /\ [AccountsMounted EXCEPT !.open = FALSE] \in AccountPages
         /\ SelectionListed([AccountsMounted EXCEPT !.open = FALSE])
         /\ ~[AccountsMounted EXCEPT !.open = FALSE].open
<1>1. AccountsMounted \in AccountPages /\ AccountsMounted.sel = {}
  BY AccountValues DEF AccountsMounted, AccountPages
<1>2. QED
  BY <1>1 DEF AccountPages, SelectionListed

LEMMA AskGood ==
  ASSUME calls \in Seq(GoodAccountRequests(server)),
         NEW op \in AccountAsks \cup {"txt", "json"}, NEW who \in SUBSET Whom,
         NEW what \in Statuses \cup {"", "silent", "web", "codex"},
         op = "update" => what \in Statuses
  PROVE  Ask(op, who, what) \in Seq(GoodAccountRequests(server))
<1>1. Request(op, [mine |-> TRUE, who |-> who, what |-> what]) \in GoodAccountRequests(server)
  BY DEF Request, GoodAccountRequests, AccountRequests, AccountArgs
<1>2. QED
  BY <1>1, AppendedSeq DEF Ask, Sent

LEMMA AccountsInitInv == AccountsInit => AccountsInv
<1> SUFFICES ASSUME AccountsInit PROVE AccountsInv
  OBVIOUS
<1>1. mem \in [hit : BOOLEAN, list : AccountLists]
  BY AccountValues DEF AccountsInit
<1>2. server \in ServedLists /\ server.v = 0
  <2> DEFINE l == [a \in 1 .. 2 |-> IF a = 1 THEN "ok" ELSE "bad"]
  <2>1. l \in [1 .. 2 -> Statuses] /\ 1 .. 2 \in SUBSET Accounts
    BY DEF Statuses, Accounts
  <2>2. l \in AccountLists
    BY <2>1 DEF AccountLists
  <2> HIDE DEF l
  <2>3. server = [list |-> l, v |-> 0]
    BY DEF AccountsInit, l
  <2>4. QED
    BY <2>2, <2>3 DEF ServedLists
<1>3. past = [clicks |-> 0, v |-> -1, stale |-> FALSE]
  BY DEF AccountsInit
<1>4. calls \in Seq(GoodAccountRequests(server))
  <2>1. Request("load", [mine |-> TRUE, who |-> {}, what |-> ""]) \in GoodAccountRequests(server)
    BY DEF Request, GoodAccountRequests, AccountRequests, AccountArgs, AccountAsks
  <2>2. QED
    BY <2>1, OneSeq DEF AccountsInit
<1>5. ui = AccountsMounted /\ page = "accounts"
  BY DEF AccountsInit
<1>6. QED
  BY <1>1, <1>2, <1>3, <1>4, <1>5, AccountsMountedFits DEF AccountsInv

(* A list the server moves on to: what was no newer than it still is not.  *)
LEMMA ChangedAhead ==
  ASSUME server \in ServedLists, NEW list \in AccountLists
  PROVE  /\ Changed(list) \in ServedLists
         /\ server.v <= Changed(list).v
         /\ NotAhead(Changed(list), Changed(list))
         /\ \A d : NotAhead(d, server) => NotAhead(d, Changed(list))
         /\ \A s \in Seq(GoodAccountRequests(server)) :
              s \in Seq(GoodAccountRequests(Changed(list)))
<1> DEFINE s == Changed(list)
<1>1. s = [list |-> list, v |-> IF list = server.list THEN server.v ELSE server.v + 1]
  BY DEF Changed
<1>2. server.v \in Int /\ server.list \in AccountLists
  BY DEF ServedLists
<1>3. /\ s \in ServedLists /\ s.list = list
      /\ s.v = IF list = server.list THEN server.v ELSE server.v + 1
  BY <1>1, <1>2 DEF ServedLists
<1> HIDE DEF s
<1>4. \A d : NotAhead(d, server) => NotAhead(d, s)
  BY <1>2, <1>3 DEF NotAhead, ServedLists
<1>5. NotAhead(s, s)
  BY <1>3 DEF NotAhead, ServedLists
<1>6. GoodAccountRequests(server) \subseteq GoodAccountRequests(s)
  BY <1>4 DEF GoodAccountRequests
<1>7. \A t \in Seq(GoodAccountRequests(server)) : t \in Seq(GoodAccountRequests(s))
  BY <1>6, SeqMonotonic
<1>8. QED
  BY <1>2, <1>3, <1>4, <1>5, <1>7 DEF s

(* The server's list while an answer of it is on its way.                  *)
LEMMA AccountsStay ==
  ASSUME AccountsInv, NEW list \in AccountLists, server' = Changed(list),
         UNCHANGED <<page, ui, mem>>, past' \in [clicks : Int, v : Int, stale : BOOLEAN],
         past'.v = past.v, past'.stale = past.stale,
         calls' \in Seq(GoodAccountRequests(server'))
  PROVE  AccountsInv'
<1>1. server \in ServedLists /\ server' \in ServedLists
  BY ChangedAhead DEF AccountsInv
<1>2. server.v \in Int /\ past.v \in Int
  BY <1>1 DEF AccountsInv, ServedLists
<1>3. server'.v = (IF list = server.list THEN server.v ELSE server.v + 1) /\ server'.list = list
  BY <1>2 DEF Changed
<1>4. QED
  BY <1>1, <1>2, <1>3 DEF AccountsInv

LEMMA ListedFits ==
  ASSUME NEW u \in AccountPages, NEW list \in AccountLists
  PROVE  /\ Listed(u, list) \in AccountPages /\ SelectionListed(Listed(u, list))
         /\ Listed(u, list).list = list /\ Listed(u, list).open = u.open
BY DEF Listed, AccountPages, SelectionListed

LEMMA DoneFits ==
  ASSUME NEW u \in AccountPages, SelectionListed(u), NEW q
  PROVE  /\ Done(u, q) \in AccountPages /\ SelectionListed(Done(u, q))
         /\ Done(u, q).list = u.list /\ Done(u, q).open = u.open
<1>1. CASE q.op = "update"
  BY <1>1, AccountValues DEF Done, AccountPages, SelectionListed
<1>2. CASE q.op = "import"
  <2> DEFINE d == [NoAccountDialog EXCEPT !.busy = TRUE]
  <2>1. d \in ImportDialogs
    BY AccountValues DEF ImportDialogs
  <2>2. Done(u, q) = [u EXCEPT !.dialog = d, !.sel = {}, !.at = 1]
    BY <1>2 DEF Done
  <2> HIDE DEF d
  <2>3. {} \in SUBSET Accounts /\ 1 \in Int
    OBVIOUS
  <2>4. /\ Done(u, q) \in AccountPages /\ Done(u, q).sel = {}
        /\ Done(u, q).list = u.list /\ Done(u, q).open = u.open
    BY <2>1, <2>2, <2>3 DEF AccountPages
  <2>5. QED
    BY <2>4 DEF SelectionListed
<1>3. CASE q.op \notin {"update", "import"}
  BY <1>3 DEF Done
<1>4. QED
  BY <1>1, <1>2, <1>3

LEMMA UnlockedFits ==
  ASSUME NEW u \in AccountPages, SelectionListed(u), NEW q, q.op \in AccountAsks
  PROVE  /\ Unlocked(u, q) \in AccountPages /\ SelectionListed(Unlocked(u, q))
         /\ Unlocked(u, q).list = u.list /\ Unlocked(u, q).open = u.open
<1>1. CASE q.op = "load"
  <2> DEFINE l == u.loading /\ q.arg.what = "silent"
  <2>1. l \in BOOLEAN /\ Unlocked(u, q) = [u EXCEPT !.loading = l]
    BY <1>1 DEF Unlocked
  <2> HIDE DEF l
  <2>2. QED
    BY <2>1 DEF AccountPages, SelectionListed
<1>2. CASE q.op = "delete"
  BY <1>2 DEF Unlocked, AccountPages, SelectionListed
<1>3. CASE q.op = "refresh"
  BY <1>3 DEF Unlocked, AccountPages, SelectionListed
<1>4. CASE q.op = "update"
  BY <1>4 DEF Unlocked, AccountPages, SelectionListed
<1>5. CASE q.op = "import"
  <2> DEFINE d == [u.dialog EXCEPT !.busy = FALSE]
  <2>1. d \in ImportDialogs
    BY DEF AccountPages, ImportDialogs
  <2>2. Unlocked(u, q) = [u EXCEPT !.dialog = d]
    BY <1>5 DEF Unlocked
  <2> HIDE DEF d
  <2>3. QED
    BY <2>1, <2>2 DEF AccountPages, SelectionListed
<1>6. QED
  BY <1>1, <1>2, <1>3, <1>4, <1>5 DEF AccountAsks

(* The rows of the page of the table are rows of the list.                 *)
LEMMA RowsListed ==
  ASSUME ui \in AccountPages
  PROVE  /\ filteredAccounts \subseteq DOMAIN ui.list
         /\ currentRows \subseteq DOMAIN ui.list
         /\ abnormalTokens \subseteq DOMAIN ui.list
         /\ DOMAIN ui.list \in SUBSET Accounts
         /\ Cardinality(filteredAccounts) \in Nat
<1>1. /\ filteredAccounts \subseteq DOMAIN ui.list
      /\ currentRows \subseteq DOMAIN ui.list
      /\ abnormalTokens \subseteq DOMAIN ui.list
  BY DEF filteredAccounts, currentRows, abnormalTokens
<1>2. DOMAIN ui.list \in SUBSET Accounts
  BY AccountValues DEF AccountPages
<1>3. IsFiniteSet(Accounts)
  BY FS_Interval, 1 \in Int, 3 \in Int DEF Accounts
<1>4. Cardinality(filteredAccounts) \in Nat
  BY <1>1, <1>2, <1>3, FS_Subset, FS_CardinalityType
<1>5. QED
  BY <1>1, <1>2, <1>4

(* What a click does that asks the server for nothing but what it says.    *)
LEMMA ClickFits ==
  ASSUME AccountsInv, UNCHANGED <<page, mem, server>>, past' = Clicked,
         ui' \in AccountPages, SelectionListed(ui'), ui'.list = ui.list, ui'.open = ui.open,
         calls' \in Seq(GoodAccountRequests(server))
  PROVE  AccountsInv'
<1>1. past' \in [clicks : Int, v : Int, stale : BOOLEAN] /\ past'.v = past.v
      /\ past'.stale = past.stale
  BY DEF Clicked, AccountsInv
<1>2. QED
  BY <1>1 DEF AccountsInv

LEMMA AccountsClickedStep == AccountsInv /\ AccountsClicked => AccountsInv'
<1> SUFFICES ASSUME AccountsInv, AccountsClicked PROVE AccountsInv'
  OBVIOUS
<1> DEFINE ShownAndSent == /\ ui' \in AccountPages /\ SelectionListed(ui')
                           /\ ui'.list = ui.list /\ ui'.open = ui.open
                           /\ calls' \in Seq(GoodAccountRequests(server))
<1>0. ui \in AccountPages /\ SelectionListed(ui) /\ calls \in Seq(GoodAccountRequests(server))
  BY DEF AccountsInv
<1>a. \A op \in {"load", "refresh", "delete"} : \A who \in SUBSET DOMAIN ui.list :
        Ask(op, who, "") \in Seq(GoodAccountRequests(server))
  BY <1>0, AskGood, RowsListed DEF Whom, AccountAsks
<1>1. CASE loadAccounts
  <2>1. calls' \in Seq(GoodAccountRequests(server))
    BY <1>1, <1>a DEF loadAccounts
  <2>2. ShownAndSent
    BY <1>0, <1>1, <2>1 DEF loadAccounts, AccountPages, SelectionListed
  <2>3. QED
    BY <2>2, ClickFits DEF AccountsClicked
<1>2. CASE handleRefreshAccounts
  <2>1. PICK who \in {DOMAIN ui.list, selectedTokens} \cup {{a} : a \in currentRows} :
          ui' = [ui EXCEPT !.refreshing = TRUE] /\ calls' = Ask("refresh", who, "")
    BY <1>2 DEF handleRefreshAccounts
  <2>2. who \in SUBSET DOMAIN ui.list
    BY <1>0, RowsListed DEF selectedTokens
  <2>3. ShownAndSent
    BY <1>0, <1>a, <2>1, <2>2 DEF AccountPages, SelectionListed
  <2>4. QED
    BY <2>3, ClickFits DEF AccountsClicked
<1>3. CASE handleDeleteTokens
  <2>1. PICK who \in {abnormalTokens, selectedTokens} \cup {{a} : a \in currentRows} :
          ui' = [ui EXCEPT !.deleting = TRUE] /\ calls' = Ask("delete", who, "")
    BY <1>3 DEF handleDeleteTokens
  <2>2. who \in SUBSET DOMAIN ui.list
    BY <1>0, RowsListed DEF selectedTokens
  <2>3. ShownAndSent
    BY <1>0, <1>a, <2>1, <2>2 DEF AccountPages, SelectionListed
  <2>4. QED
    BY <2>3, ClickFits DEF AccountsClicked
<1>4. CASE openEditDialog
  <2>1. PICK a \in currentRows : ui' = [ui EXCEPT !.edit = [who |-> a, st |-> ui.list[a]]]
    BY <1>4 DEF openEditDialog
  <2>2. a \in Accounts /\ ui.list[a] \in Statuses
    BY <1>0, RowsListed, AccountValues DEF AccountPages
  <2>3. [who |-> a, st |-> ui.list[a]] \in AccountEdits
    BY <2>2 DEF AccountEdits, Accounts
  <2>4. ShownAndSent
    BY <1>0, <1>4, <2>1, <2>3 DEF openEditDialog, AccountPages, SelectionListed
  <2>5. QED
    BY <2>4, ClickFits DEF AccountsClicked
<1>5. CASE EditDialog
  <2>1. CASE ui' = [ui EXCEPT !.edit = NoEdit] /\ UNCHANGED calls
    <3>1. ShownAndSent
      BY <1>0, <2>1, AccountValues DEF AccountPages, SelectionListed
    <3>2. QED
      BY <3>1, ClickFits DEF AccountsClicked
  <2>2. ASSUME NEW st \in {"ok", "bad"}, ui' = [ui EXCEPT !.updating = TRUE, !.edit.st = st],
               calls' = Ask("update", {ui.edit.who}, st), ui.edit.who # 0
        PROVE  AccountsInv'
    <3> DEFINE e == [ui.edit EXCEPT !.st = st]
    <3>1. e \in AccountEdits /\ ui.edit.who \in Accounts
      BY <1>0, <2>2 DEF AccountPages, AccountEdits, Statuses, Accounts
    <3>2. ui' = [ui EXCEPT !.updating = TRUE, !.edit = e]
      BY <2>2
    <3>3. calls' \in Seq(GoodAccountRequests(server))
      BY <1>0, <2>2, <3>1, AskGood DEF Whom, AccountAsks, Statuses
    <3> HIDE DEF e
    <3>4. ShownAndSent
      BY <1>0, <3>1, <3>2, <3>3 DEF AccountPages, SelectionListed
    <3>5. QED
      BY <3>4, ClickFits DEF AccountsClicked
  <2>3. QED
    BY <1>5, <2>1, <2>2 DEF EditDialog
<1>6. CASE toggleSelectAll \/ RowChecked
  <2>1. PICK sel \in SUBSET (ui.sel \cup currentRows) : ui' = [ui EXCEPT !.sel = sel]
    BY <1>6 DEF toggleSelectAll, RowChecked
  <2>2. sel \in SUBSET Accounts /\ sel \subseteq DOMAIN ui.list
    BY <1>0, RowsListed DEF SelectionListed, AccountPages
  <2>3. UNCHANGED calls
    BY <1>6 DEF toggleSelectAll, RowChecked
  <2>4. ShownAndSent
    BY <1>0, <2>1, <2>2, <2>3 DEF AccountPages, SelectionListed
  <2>5. QED
    BY <2>4, ClickFits DEF AccountsClicked
<1>7. CASE FilterChanged
  <2>1. PICK f \in {"all", "bad"} : ui' = [ui EXCEPT !.filter = f, !.at = 1]
    BY <1>7 DEF FilterChanged
  <2>2. ShownAndSent
    BY <1>0, <1>7, <2>1, 1 \in Int DEF FilterChanged, AccountPages, SelectionListed
  <2>3. QED
    BY <2>2, ClickFits DEF AccountsClicked
<1>8. CASE PageTurned
  <2>1. PICK n \in {safePage - 1, safePage + 1} : ui' = [ui EXCEPT !.at = n]
    BY <1>8 DEF PageTurned
  <2>2. safePage \in Int
    <3> DEFINE m == (Cardinality(filteredAccounts) + PageRows - 1) \div PageRows
    <3>1. m \in Int
      BY <1>0, RowsListed DEF PageRows
    <3>2. safePage = IF m = 0 THEN 1 ELSE IF ui.at > m THEN m ELSE ui.at
      BY DEF safePage
    <3> HIDE DEF m
    <3>3. QED
      BY <1>0, <3>1, <3>2 DEF AccountPages
  <2>3. ShownAndSent
    BY <1>0, <1>8, <2>1, <2>2 DEF PageTurned, AccountPages, SelectionListed
  <2>4. QED
    BY <2>3, ClickFits DEF AccountsClicked
<1>9. QED
  BY <1>1, <1>2, <1>3, <1>4, <1>5, <1>6, <1>7, <1>8 DEF AccountsClicked

(* The clicks in the import dialog change nothing but the dialog.          *)
LEMMA DialogFits ==
  ASSUME AccountsInv, NEW d \in ImportDialogs, ui' = [ui EXCEPT !.dialog = d]
  PROVE  /\ ui' \in AccountPages /\ SelectionListed(ui')
         /\ ui'.list = ui.list /\ ui'.open = ui.open
BY DEF AccountsInv, AccountPages, SelectionListed

LEMMA ImportClickedStep == AccountsInv /\ ImportClicked => AccountsInv'
<1> SUFFICES ASSUME AccountsInv, ImportClicked PROVE AccountsInv'
  OBVIOUS
<1>0. /\ ui \in AccountPages /\ SelectionListed(ui) /\ ui.dialog \in ImportDialogs
      /\ calls \in Seq(GoodAccountRequests(server))
  BY DEF AccountsInv, AccountPages
<1>1. \A d \in ImportDialogs : Dialog(d) /\ calls' \in Seq(GoodAccountRequests(server))
        => AccountsInv'
  BY DialogFits, ClickFits DEF Dialog, ImportClicked
<1>2. ASSUME NEW tokens, NEW files \in SUBSET Whom, NEW source \in {"web", "codex"},
             submitTokens(tokens, files, source)
      PROVE  AccountsInv'
  <2>1. [ui.dialog EXCEPT !.busy = TRUE] \in ImportDialogs
    BY <1>0 DEF ImportDialogs
  <2>2. calls' \in Seq(GoodAccountRequests(server))
    BY <1>0, <1>2, AskGood DEF submitTokens, AccountAsks
  <2>3. Dialog([ui.dialog EXCEPT !.busy = TRUE])
    BY <1>2 DEF submitTokens
  <2>4. QED
    BY <1>1, <2>1, <2>2, <2>3
<1>3. CASE handleOpenChange
  <2>1. /\ [ui.dialog EXCEPT !.open = TRUE] \in ImportDialogs
        /\ [ui.dialog EXCEPT !.open = FALSE] \in ImportDialogs
    BY <1>0 DEF ImportDialogs
  <2>2. [resetState(ui.dialog) EXCEPT !.open = FALSE] \in ImportDialogs
    <3>1. resetState(ui.dialog) \in ImportDialogs
      BY <1>0, AccountValues DEF resetState, ImportDialogs
    <3>2. QED
      BY <3>1 DEF ImportDialogs
  <2>3. calls' \in Seq(GoodAccountRequests(server))
    BY <1>0, <1>3 DEF handleOpenChange
  <2>4. \/ Dialog([ui.dialog EXCEPT !.open = TRUE]) \/ Dialog([ui.dialog EXCEPT !.open = FALSE])
        \/ Dialog([resetState(ui.dialog) EXCEPT !.open = FALSE])
    BY <1>3 DEF handleOpenChange
  <2>5. QED
    BY <1>1, <2>1, <2>2, <2>3, <2>4
<1>4. CASE SourceChosen
  <2> DEFINE source == IF ui.dialog.source = "web" THEN "codex" ELSE "web"
  <2>1. Dialog([ui.dialog EXCEPT !.source = source])
    BY <1>4 DEF SourceChosen
  <2>2. source \in {"web", "codex"}
    OBVIOUS
  <2> HIDE DEF source
  <2>3. [ui.dialog EXCEPT !.source = source] \in ImportDialogs
    BY <1>0, <2>2 DEF ImportDialogs
  <2>4. calls' \in Seq(GoodAccountRequests(server))
    BY <1>0, <1>4 DEF SourceChosen
  <2>5. QED
    BY <1>1, <2>1, <2>3, <2>4
<1>5. CASE handleImportTokenText
  <2>1. ui.dialog.source \in {"web", "codex"} /\ {} \in SUBSET Whom
    BY <1>0 DEF ImportDialogs
  <2>2. QED
    BY <1>2, <1>5, <2>1 DEF handleImportTokenText
<1>6. CASE handleImportSessionJson
  BY <1>2, <1>6, {} \in SUBSET Whom DEF handleImportSessionJson
<1>7. CASE FilesChosen
  <2>1. calls' \in Seq(GoodAccountRequests(server))
    <3>1. CASE calls' = Ask("txt", {}, "")
      BY <1>0, <3>1, AskGood
    <3>2. ASSUME NEW kinds \in {{"full"}, {"full", "bare"}}, calls' = Ask("json", kinds, "")
          PROVE  calls' \in Seq(GoodAccountRequests(server))
      <4>1. kinds \in SUBSET Whom
        BY DEF Whom, FileKinds
      <4>2. QED
        BY <1>0, <3>2, <4>1, AskGood
    <3>3. QED
      BY <1>7, <3>1, <3>2 DEF FilesChosen
  <2>2. ui' = ui
    BY <1>7 DEF FilesChosen
  <2>3. QED
    BY <1>0, <2>1, <2>2, ClickFits DEF ImportClicked
<1>8. CASE JsonConfirmed
  <2>1. [ui.dialog EXCEPT !.confirm = TRUE] \in ImportDialogs
    BY <1>0 DEF ImportDialogs
  <2>2. QED
    BY <1>0, <1>1, <1>8, <2>1 DEF JsonConfirmed
<1>9. CASE ConfirmDialog
  <2>1. [ui.dialog EXCEPT !.confirm = FALSE] \in ImportDialogs
    BY <1>0 DEF ImportDialogs
  <2>2. ui.dialog.files \in SUBSET Whom /\ ui.dialog.source \in {"web", "codex"}
    BY <1>0 DEF ImportDialogs
  <2>3. QED
    BY <1>0, <1>1, <1>2, <1>9, <2>1, <2>2 DEF ConfirmDialog
<1>10. QED
  BY <1>3, <1>4, <1>5, <1>6, <1>7, <1>8, <1>9 DEF ImportClicked

LEMMA AccountsStep == AccountsInv /\ AccountsNext => AccountsInv'
<1> SUFFICES ASSUME AccountsInv, AccountsNext PROVE AccountsInv'
  OBVIOUS
<1>0. /\ page = "accounts" /\ ui \in AccountPages /\ SelectionListed(ui)
      /\ mem \in [hit : BOOLEAN, list : AccountLists]
      /\ server \in ServedLists /\ past \in [clicks : Int, v : Int, stale : BOOLEAN]
      /\ calls \in Seq(GoodAccountRequests(server))
  BY DEF AccountsInv
<1>c. /\ Clicked \in [clicks : Int, v : Int, stale : BOOLEAN]
      /\ Clicked.v = past.v /\ Clicked.stale = past.stale
  BY <1>0 DEF Clicked
<1>q. ASSUME NEW i \in DOMAIN calls
      PROVE  /\ calls[i] \in GoodAccountRequests(server) /\ calls[i] \in AccountRequests
             /\ Dropped(i) \in Seq(GoodAccountRequests(server))
  <2>1. calls[i] \in GoodAccountRequests(server) /\ Dropped(i) \in Seq(GoodAccountRequests(server))
    BY <1>0, CallOfSeq, RemovedSeq DEF Dropped
  <2>2. QED
    BY <2>1 DEF GoodAccountRequests
<1>1. CASE AccountsOpened
  <2>1. calls' \in Seq(GoodAccountRequests(server))
    <3>1. (IF mem.hit THEN "silent" ELSE "") \in Statuses \cup {"", "silent", "web", "codex"}
      OBVIOUS
    <3>2. calls' = Ask("load", {}, IF mem.hit THEN "silent" ELSE "")
      BY <1>1 DEF AccountsOpened
    <3>3. QED
      BY <1>0, <3>1, <3>2, AskGood DEF AccountAsks
  <2>2. past' \in [clicks : Int, v : Int, stale : BOOLEAN] /\ past'.v = past.v /\ past'.stale
    BY <1>c, <1>1 DEF AccountsOpened
  <2>3. QED
    BY <1>0, <1>1, <2>1, <2>2, AccountsMountedFits DEF AccountsOpened, AccountsInv
<1>2. CASE AccountsLeft
  <2>1. ASSUME NEW i \in DOMAIN calls
        PROVE  [calls[i] EXCEPT !.arg.mine = FALSE] \in GoodAccountRequests(server)
    <3> DEFINE a == [calls[i].arg EXCEPT !.mine = FALSE]
    <3>1. a \in AccountArgs /\ a.what = calls[i].arg.what
      BY <1>q DEF AccountRequests, AccountArgs
    <3>2. [calls[i] EXCEPT !.arg.mine = FALSE] = [calls[i] EXCEPT !.arg = a]
      OBVIOUS
    <3> HIDE DEF a
    <3>3. QED
      BY <1>q, <3>1, <3>2 DEF GoodAccountRequests, AccountRequests
  <2>2. calls' \in Seq(GoodAccountRequests(server))
    BY <1>0, <1>2, <2>1, ReshapedSeq DEF AccountsLeft
  <2>3. ui' \in AccountPages /\ SelectionListed(ui') /\ ~ui'.open
    BY <1>0, <1>2, AccountsMountedFits DEF AccountsLeft
  <2>4. QED
    BY <1>c, <1>2, <2>2, <2>3 DEF AccountsLeft, AccountsInv
<1>3. CASE AccountsServed
  <2>1. PICK i \in DOMAIN calls :
          LET q == calls[i]
              old == server.list
          IN  /\ q.op \in AccountAsks /\ q.at = "sent"
              /\ server' = Changed(
                   CASE q.op = "delete" -> Restrict(old, DOMAIN old \ q.arg.who)
                     [] q.op = "update" -> [a \in DOMAIN old |-> IF a \in q.arg.who
                                                                   THEN q.arg.what ELSE old[a]]
                     [] q.op = "import" -> [a \in (DOMAIN old) \cup {3} |-> IF a = 3
                                                                   THEN "ok" ELSE old[a]]
                     [] OTHER -> old)
              /\ calls' = Answered(i, server')
    BY <1>3 DEF AccountsServed, AccountAsks
  <2> DEFINE q == calls[i]
             old == server.list
             l == CASE q.op = "delete" -> Restrict(old, DOMAIN old \ q.arg.who)
                    [] q.op = "update" -> [a \in DOMAIN old |-> IF a \in q.arg.who
                                                                  THEN q.arg.what ELSE old[a]]
                    [] q.op = "import" -> [a \in (DOMAIN old) \cup {3} |-> IF a = 3
                                                                  THEN "ok" ELSE old[a]]
                    [] OTHER -> old
  <2>2. /\ old \in AccountLists /\ DOMAIN old \in SUBSET Accounts
        /\ \A a \in DOMAIN old : old[a] \in Statuses
    BY <1>0, AccountValues DEF ServedLists
  <2>3. l \in AccountLists
    <3>1. CASE q.op = "delete"
      <4>1. l = [a \in DOMAIN old \ q.arg.who |-> old[a]]
        BY <3>1 DEF Restrict
      <4>2. QED
        BY <2>2, <4>1, AccountListOf
    <3>2. CASE q.op = "update"
      <4>1. q.arg.what \in Statuses
        BY <1>q, <3>2 DEF GoodAccountRequests
      <4>2. l = [a \in DOMAIN old |-> IF a \in q.arg.who THEN q.arg.what ELSE old[a]]
        BY <3>2
      <4>3. QED
        BY <2>2, <4>1, <4>2, AccountListOf
    <3>3. CASE q.op = "import"
      <4>1. l = [a \in (DOMAIN old) \cup {3} |-> IF a = 3 THEN "ok" ELSE old[a]]
        BY <3>3
      <4>2. (DOMAIN old) \cup {3} \in SUBSET Accounts /\ "ok" \in Statuses
        BY <2>2 DEF Accounts, Statuses
      <4>3. QED
        BY <2>2, <4>1, <4>2, AccountListOf
    <3>4. CASE q.op \notin {"delete", "update", "import"}
      BY <2>2, <3>4
    <3>5. QED
      BY <3>1, <3>2, <3>3, <3>4
  <2>4. server' = Changed(l) /\ calls' = Answered(i, server')
    BY <2>1
  <2> HIDE DEF l
  <2>5. /\ server' \in ServedLists /\ NotAhead(server', server')
        /\ calls \in Seq(GoodAccountRequests(server'))
    BY <1>0, <2>3, <2>4, ChangedAhead
  <2>6. [calls[i] EXCEPT !.at = "ok", !.data = server'] \in GoodAccountRequests(server')
    BY <1>q, <2>5 DEF GoodAccountRequests, AccountRequests
  <2>7. calls' \in Seq(GoodAccountRequests(server'))
    BY <2>4, <2>5, <2>6, ChangedSeq DEF Answered
  <2>8. UNCHANGED <<page, ui, mem, past>>
    BY <1>3 DEF AccountsServed
  <2>9. QED
    BY <1>0, <2>3, <2>4, <2>7, <2>8, AccountsStay
<1>4. CASE AccountsFail
  <2>1. PICK i \in DOMAIN calls : calls' = Failed(i)
    BY <1>4 DEF AccountsFail
  <2>2. [calls[i] EXCEPT !.at = "failed"] \in GoodAccountRequests(server)
    BY <1>q DEF GoodAccountRequests, AccountRequests
  <2>3. calls' = [calls EXCEPT ![i] = [calls[i] EXCEPT !.at = "failed"]]
    BY <2>1 DEF Failed
  <2>4. calls' \in Seq(GoodAccountRequests(server))
    BY <1>0, <2>2, <2>3, ChangedSeq
  <2>5. QED
    BY <1>0, <1>4, <2>4, ClickFits DEF AccountsFail
<1>5. CASE PoolChanges
  <2>1. PICK a \in DOMAIN server.list :
          server' \in {Changed([server.list EXCEPT ![a] = "bad"]),
                       Changed(Restrict(server.list, DOMAIN server.list \ {a}))}
    BY <1>5 DEF PoolChanges
  <2>2. /\ server.list \in AccountLists /\ DOMAIN server.list \in SUBSET Accounts
        /\ \A b \in DOMAIN server.list : server.list[b] \in Statuses
    BY <1>0, AccountValues DEF ServedLists
  <2>3. [server.list EXCEPT ![a] = "bad"] \in AccountLists
    <3>1. [server.list EXCEPT ![a] = "bad"]
            = [b \in DOMAIN server.list |-> IF b = a THEN "bad" ELSE server.list[b]]
      BY <2>2 DEF AccountLists
    <3>2. "bad" \in Statuses
      BY DEF Statuses
    <3>3. QED
      BY <2>2, <3>1, <3>2, AccountListOf
  <2>4. Restrict(server.list, DOMAIN server.list \ {a}) \in AccountLists
    BY <2>2, AccountListOf DEF Restrict
  <2>5. PICK l \in AccountLists : server' = Changed(l)
    BY <2>1, <2>3, <2>4
  <2>6. calls \in Seq(GoodAccountRequests(server'))
    BY <1>0, <2>5, ChangedAhead
  <2>7. QED
    BY <1>5, <1>c, <2>5, <2>6, AccountsStay DEF PoolChanges
<1>6. CASE AccountsAnswered
  <2>1. PICK i \in UNION {Arrived(op) : op \in AccountAsks} :
          LET q == calls[i]
          IN  /\ calls' = Dropped(i)
              /\ IF q.at = "failed"
                   THEN /\ ui' = IF q.arg.mine THEN Unlocked(ui, q) ELSE ui
                        /\ UNCHANGED <<mem, past>>
                 ELSE IF q.arg.mine
                   THEN /\ ui' = Unlocked(Done(Listed(ui, q.data.list), q), q)
                        /\ mem' = [hit |-> TRUE, list |-> q.data.list]
                        /\ past' = Noted(q)
                 ELSE mem' = [hit |-> TRUE, list |-> q.data.list] /\ UNCHANGED <<ui, past>>
    BY <1>6 DEF AccountsAnswered, AccountAsks
  <2> DEFINE q == calls[i]
  <2>2. i \in DOMAIN calls /\ q.op \in AccountAsks /\ q.at # "sent"
    BY <2>1 DEF Arrived, Pending
  <2>3. calls' \in Seq(GoodAccountRequests(server)) /\ q.at \in {"ok", "failed"}
    BY <1>q, <2>1, <2>2 DEF AccountRequests
  <2>4. UNCHANGED <<page, server>>
    BY <1>6 DEF AccountsAnswered
  <2>5. CASE q.at = "failed"
    <3>1. UNCHANGED <<mem, past>>
      BY <2>1, <2>5
    <3>2. ui' \in AccountPages /\ SelectionListed(ui') /\ ui'.list = ui.list /\ ui'.open = ui.open
      <4>1. ui' = Unlocked(ui, q) \/ ui' = ui
        BY <2>1, <2>5
      <4> HIDE DEF q
      <4>2. QED
        BY <1>0, <2>2, <4>1, UnlockedFits
    <3>3. QED
      BY <2>3, <2>4, <3>1, <3>2 DEF AccountsInv
  <2>6. CASE q.at = "ok"
    <3>1. NotAhead(q.data, server)
      BY <1>q, <2>2, <2>6 DEF GoodAccountRequests
    <3>2. /\ q.data.list \in AccountLists /\ q.data.v \in Int /\ q.data.v <= server.v
          /\ q.data.v = server.v => q.data.list = server.list
      BY <3>1 DEF NotAhead, ServedLists
    <3>3. mem' = [hit |-> TRUE, list |-> q.data.list]
      BY <2>1, <2>6
    <3>4. mem' \in [hit : BOOLEAN, list : AccountLists]
      BY <3>2, <3>3
    <3>5. CASE q.arg.mine
      <4> DEFINE u == Listed(ui, q.data.list)
                 d == Done(u, q)
      <4>1. ui' = Unlocked(d, q) /\ past' = Noted(q)
        BY <2>1, <2>6, <3>5
      <4>2. u \in AccountPages /\ SelectionListed(u) /\ u.list = q.data.list /\ u.open = ui.open
        BY <1>0, <3>2, ListedFits
      <4> HIDE DEF u, q
      <4>3. d \in AccountPages /\ SelectionListed(d) /\ d.list = q.data.list /\ d.open = ui.open
        BY <4>2, DoneFits
      <4> HIDE DEF d
      <4>4. ui' \in AccountPages /\ SelectionListed(ui') /\ ui'.list = q.data.list
        BY <2>2, <4>1, <4>3, UnlockedFits
      <4>5. past' \in [clicks : Int, v : Int, stale : BOOLEAN] /\ past'.v = q.data.v
        <5> DEFINE stale == past.v > q.data.v
        <5>1. stale \in BOOLEAN /\ past' = [past EXCEPT !.v = q.data.v, !.stale = stale]
          BY <4>1 DEF Noted
        <5> HIDE DEF stale
        <5>2. QED
          BY <1>0, <3>2, <5>1
      <4>6. QED
        BY <1>0, <2>3, <2>4, <3>2, <3>4, <4>4, <4>5 DEF AccountsInv
    <3>6. CASE ~q.arg.mine
      <4>1. UNCHANGED <<ui, past>>
        BY <2>1, <2>6, <3>6
      <4>2. QED
        BY <2>3, <2>4, <3>4, <4>1 DEF AccountsInv
    <3>7. QED
      BY <3>5, <3>6
  <2>7. QED
    BY <2>3, <2>5, <2>6
<1>7. CASE AccountsClicked
  BY <1>7, AccountsClickedStep
<1>8. CASE ImportClicked
  BY <1>8, ImportClickedStep
<1>9. CASE handleTxtSelected
  <2>1. PICK i \in Waiting("txt") :
          /\ calls' = Dropped(i)
          /\ ui' = IF calls[i].arg.mine THEN [ui EXCEPT !.dialog.text = TRUE] ELSE ui
    BY <1>9 DEF handleTxtSelected
  <2>2. calls' \in Seq(GoodAccountRequests(server))
    BY <1>q, <2>1 DEF Waiting, Pending
  <2> DEFINE d == [ui.dialog EXCEPT !.text = TRUE]
  <2>3. d \in ImportDialogs
    BY <1>0 DEF AccountPages, ImportDialogs
  <2>4. ui' = [ui EXCEPT !.dialog = d] \/ ui' = ui
    BY <2>1
  <2> HIDE DEF d
  <2>5. ui' \in AccountPages /\ SelectionListed(ui') /\ ui'.list = ui.list /\ ui'.open = ui.open
    BY <1>0, <2>3, <2>4, DialogFits
  <2>6. QED
    BY <1>9, <2>2, <2>5 DEF handleTxtSelected, AccountsInv
<1>10. CASE handleJsonSelected
  <2>1. PICK i \in Waiting("json") :
          /\ calls' = Dropped(i)
          /\ ui' = IF calls[i].arg.mine
                     THEN [ui EXCEPT !.dialog = [ui.dialog EXCEPT !.files = calls[i].arg.who,
                                                                  !.confirm = TRUE]]
                   ELSE ui
    BY <1>10 DEF handleJsonSelected
  <2>2. i \in DOMAIN calls
    BY <2>1 DEF Waiting, Pending
  <2>3. calls' \in Seq(GoodAccountRequests(server)) /\ calls[i].arg.who \in SUBSET Whom
    BY <1>q, <2>1, <2>2 DEF AccountRequests, AccountArgs
  <2> DEFINE d == [ui.dialog EXCEPT !.files = calls[i].arg.who, !.confirm = TRUE]
  <2>4. d \in ImportDialogs
    BY <1>0, <2>3 DEF AccountPages, ImportDialogs
  <2>5. ui' = [ui EXCEPT !.dialog = d] \/ ui' = ui
    BY <2>1
  <2> HIDE DEF d
  <2>6. ui' \in AccountPages /\ SelectionListed(ui') /\ ui'.list = ui.list /\ ui'.open = ui.open
    BY <1>0, <2>4, <2>5, DialogFits
  <2>7. QED
    BY <1>10, <2>3, <2>6 DEF handleJsonSelected, AccountsInv
<1>11. CASE FileUnreadable
  <2>1. PICK i \in Arrived("txt") \cup Arrived("json") : calls' = Dropped(i)
    BY <1>11 DEF FileUnreadable
  <2>2. calls' \in Seq(GoodAccountRequests(server))
    BY <1>q, <2>1 DEF Arrived, Pending
  <2>3. QED
    BY <1>11, <2>2 DEF FileUnreadable, AccountsInv
<1>12. QED
  BY <1>1, <1>2, <1>3, <1>4, <1>5, <1>6, <1>7, <1>8, <1>9, <1>10, <1>11 DEF AccountsNext

-----------------------------------------------------------------------------
(* The image manager.                                                      *)

(* The paths in use: a fourth image may come, once.                        *)
Paths(came) == IF came THEN 1 .. 4 ELSE 1 .. 3
Filters == Owners \cup {""}
ImageRecords == [owner : Owners, tag : BOOLEAN, v : Int]
ImageLists(came) == UNION {[who -> ImageRecords] : who \in SUBSET Paths(came)}

GalleryDialogs(came) ==
  [mode : {"none", "selected", "filtered"}, one : Paths(came) \cup {0}]

GalleryPages(came) ==
  [open : BOOLEAN, list : ImageLists(came), of : Filters, v : Int, owner : Filters,
   tags : BOOLEAN, sel : SUBSET Paths(came), dialog : GalleryDialogs(came),
   loading : BOOLEAN, deleting : BOOLEAN]

GalleryCaches(came) ==
  [hit : BOOLEAN, list : ImageLists(came), of : Filters, v : Int, owner : Filters]

EditArgs(came) == [who : SUBSET Paths(came), tag : BOOLEAN]

DeleteArgs(came) ==
  [mode : {"one", "selected", "filtered"}, who : SUBSET Paths(came), tags : BOOLEAN,
   shown : SUBSET Paths(came), list : ImageLists(came), of : Filters, v : Int]

GalleryAsks(ops, args, came) ==
  [op : ops, arg : args, at : {"sent", "ok", "failed"}, data : ImageLists(came),
   v : Int, owner : Filters, silent : BOOLEAN, mine : BOOLEAN]

ReadOps == {"load", "reload"}
EditOps == {"tag", "untag"}

GalleryReads(came) == GalleryAsks(ReadOps, DeleteArgs(came) \cup {{}}, came)
GalleryEdits(came) == GalleryAsks(EditOps, EditArgs(came), came)
GalleryDeletes(came) == GalleryAsks({"delete"}, DeleteArgs(came), came)

(* What makes DeletesWhatItLists true: an image in a list is as listed, or *)
(* its version differs; one that is not in the list is not of its filter,  *)
(* or has changed since.                                                   *)
FitsServer(list, of, v, s) ==
  /\ v <= s.v
  /\ \A i \in DOMAIN list : list[i].v <= s.v
  /\ \A i \in DOMAIN s.imgs :
       IF i \in DOMAIN list THEN s.imgs[i].v = list[i].v => s.imgs[i].tag = list[i].tag
                            ELSE Matches(of, s.imgs[i]) => s.imgs[i].v > v

GoodRead(q, s) == q.at = "ok" => FitsServer(q.data, q.owner, q.v, s)

(* The tags an edit has set are those of the images it is the last to have *)
(* changed.                                                                *)
GoodEdit(q, s) ==
  q.at = "ok" =>
    /\ q.v <= s.v
    /\ \A i \in DOMAIN s.imgs : (q.op = "untag" \/ i \in q.arg.who) /\ s.imgs[i].v = q.v
                                  => s.imgs[i].tag = q.arg.tag

GoodDelete(q, s) ==
  /\ FitsServer(q.arg.list, q.arg.of, q.arg.v, s)
  /\ q.arg.shown = IF q.arg.mode = "filtered"
                     THEN {i \in DOMAIN q.arg.list : q.arg.tags => q.arg.list[i].tag}
                   ELSE q.arg.who
  /\ q.at = "ok" /\ q.arg.mode = "one" => q.arg.who \cap DOMAIN s.imgs = {}

GoodGalleryRequests(s, came) ==
  {q \in GalleryReads(came) : GoodRead(q, s)}
    \cup {q \in GalleryEdits(came) : GoodEdit(q, s)}
    \cup {q \in GalleryDeletes(came) : GoodDelete(q, s)}

Galleries(came) ==
  {s \in [imgs : ImageLists(came), v : Int] : \A i \in DOMAIN s.imgs : s.imgs[i].v <= s.v}

GalleryInv ==
  /\ page = "gallery"
  /\ past \in [clicks : Int, came : BOOLEAN, hit : {"none", "mixed"}]
  /\ server \in Galleries(past.came)
  /\ ui \in GalleryPages(past.came) /\ FitsServer(ui.list, ui.of, ui.v, server)
  /\ mem \in GalleryCaches(past.came) /\ FitsServer(mem.list, mem.of, mem.v, server)
  /\ calls \in Seq(GoodGalleryRequests(server, past.came))

(* The server moved on: every image of t is of s, or it has the new        *)
(* version; and no path of the past is used again.                         *)
MovedOn(s, t, came) ==
  /\ t.v = s.v + 1
  /\ \A i \in DOMAIN t.imgs : \/ i \in DOMAIN s.imgs /\ t.imgs[i] = s.imgs[i]
                              \/ t.imgs[i].v = t.v
  /\ \A i \in DOMAIN t.imgs : i \in Paths(came) => i \in DOMAIN s.imgs

LEMMA PathsGrow ==
  ASSUME NEW c \in BOOLEAN, NEW d \in BOOLEAN, c => d
  PROVE  /\ Paths(c) \subseteq Paths(d) /\ ImageLists(c) \subseteq ImageLists(d)
         /\ GalleryDialogs(c) \subseteq GalleryDialogs(d)
         /\ GalleryPages(c) \subseteq GalleryPages(d)
         /\ GalleryCaches(c) \subseteq GalleryCaches(d)
         /\ EditArgs(c) \subseteq EditArgs(d) /\ DeleteArgs(c) \subseteq DeleteArgs(d)
<1>1. Paths(c) \subseteq Paths(d)
  BY DEF Paths
<1>2. ImageLists(c) \subseteq ImageLists(d)
  BY <1>1 DEF ImageLists
<1>3. GalleryDialogs(c) \subseteq GalleryDialogs(d)
  BY <1>1 DEF GalleryDialogs
<1>4. GalleryPages(c) \subseteq GalleryPages(d)
  BY <1>1, <1>2, <1>3 DEF GalleryPages
<1>5. GalleryCaches(c) \subseteq GalleryCaches(d)
  BY <1>2 DEF GalleryCaches
<1>6. EditArgs(c) \subseteq EditArgs(d) /\ DeleteArgs(c) \subseteq DeleteArgs(d)
  BY <1>1, <1>2 DEF EditArgs, DeleteArgs
<1>7. QED
  BY <1>1, <1>2, <1>3, <1>4, <1>5, <1>6

LEMMA ListValues ==
  ASSUME NEW c \in BOOLEAN
  PROVE  /\ NoImages \in ImageLists(c) /\ DOMAIN NoImages = {}
         /\ \A l \in ImageLists(c) :
              /\ DOMAIN l \in SUBSET Paths(c)
              /\ \A i \in DOMAIN l : l[i] \in ImageRecords
<1>1. NoImages \in [{} -> ImageRecords] /\ {} \in SUBSET Paths(c) /\ DOMAIN NoImages = {}
  BY DEF NoImages
<1>2. QED
  BY <1>1 DEF ImageLists

LEMMA ImageListOf ==
  ASSUME NEW c \in BOOLEAN, NEW who \in SUBSET Paths(c), NEW l, l = [i \in who |-> l[i]],
         \A i \in who : l[i] \in ImageRecords
  PROVE  l \in ImageLists(c)
<1>1. l \in [who -> ImageRecords]
  OBVIOUS
<1>2. QED
  BY <1>1 DEF ImageLists

LEMMA ListRestricted ==
  ASSUME NEW c \in BOOLEAN, NEW l \in ImageLists(c), NEW who \in SUBSET DOMAIN l
  PROVE  /\ Restrict(l, who) \in ImageLists(c) /\ DOMAIN Restrict(l, who) = who
         /\ \A i \in who : Restrict(l, who)[i] = l[i]
<1>1. Restrict(l, who) = [i \in who |-> l[i]]
  BY DEF Restrict
<1>2. who \in SUBSET Paths(c) /\ \A i \in who : l[i] \in ImageRecords
  BY ListValues
<1>3. QED
  BY <1>1, <1>2, ImageListOf

LEMMA FitsLater ==
  ASSUME NEW c \in BOOLEAN, NEW d \in BOOLEAN, NEW s \in Galleries(c), NEW t \in Galleries(d),
         MovedOn(s, t, c), NEW l \in ImageLists(c), NEW of \in Filters, NEW v \in Int,
         FitsServer(l, of, v, s)
  PROVE  FitsServer(l, of, v, t)
<1>1. /\ s.v \in Int /\ t.v = s.v + 1 /\ v <= s.v
      /\ \A i \in DOMAIN l : l[i].v \in Int /\ l[i].v <= s.v
  BY ListValues DEF Galleries, MovedOn, FitsServer, ImageRecords
<1>2. ASSUME NEW i \in DOMAIN t.imgs
      PROVE  IF i \in DOMAIN l THEN t.imgs[i].v = l[i].v => t.imgs[i].tag = l[i].tag
                               ELSE Matches(of, t.imgs[i]) => t.imgs[i].v > v
  <2>1. CASE i \in DOMAIN s.imgs /\ t.imgs[i] = s.imgs[i]
    BY <2>1 DEF FitsServer
  <2>2. CASE t.imgs[i].v = t.v
    BY <1>1, <2>2
  <2>3. QED
    BY <2>1, <2>2 DEF MovedOn
<1>3. v <= t.v /\ \A i \in DOMAIN l : l[i].v <= t.v
  BY <1>1
<1>4. QED
  BY <1>2, <1>3 DEF FitsServer

LEMMA GoodLater ==
  ASSUME NEW c \in BOOLEAN, NEW d \in BOOLEAN, c => d, NEW s \in Galleries(c),
         NEW t \in Galleries(d), MovedOn(s, t, c)
  PROVE  GoodGalleryRequests(s, c) \subseteq GoodGalleryRequests(t, d)
<1> SUFFICES ASSUME NEW q \in GoodGalleryRequests(s, c) PROVE q \in GoodGalleryRequests(t, d)
  OBVIOUS
<1>1. CASE q \in GalleryReads(c) /\ GoodRead(q, s)
  <2>1. q \in GalleryReads(d)
    BY <1>1, PathsGrow DEF GalleryReads, GalleryAsks
  <2>2. q.data \in ImageLists(c) /\ q.owner \in Filters /\ q.v \in Int
    BY <1>1 DEF GalleryReads, GalleryAsks
  <2>3. GoodRead(q, t)
    BY <1>1, <2>2, FitsLater DEF GoodRead
  <2>4. QED
    BY <2>1, <2>3 DEF GoodGalleryRequests
<1>2. CASE q \in GalleryEdits(c) /\ GoodEdit(q, s)
  <2>1. q \in GalleryEdits(d)
    BY <1>2, PathsGrow DEF GalleryEdits, GalleryAsks
  <2>2. q.v \in Int /\ s.v \in Int /\ t.v = s.v + 1
    BY <1>2 DEF GalleryEdits, GalleryAsks, Galleries, MovedOn
  <2>3. GoodEdit(q, t)
    BY <1>2, <2>2 DEF GoodEdit, MovedOn
  <2>4. QED
    BY <2>1, <2>3 DEF GoodGalleryRequests
<1>3. CASE q \in GalleryDeletes(c) /\ GoodDelete(q, s)
  <2>1. q \in GalleryDeletes(d)
    BY <1>3, PathsGrow DEF GalleryDeletes, GalleryAsks
  <2>2. /\ q.arg.list \in ImageLists(c) /\ q.arg.of \in Filters /\ q.arg.v \in Int
        /\ q.arg.who \in SUBSET Paths(c)
    BY <1>3 DEF GalleryDeletes, GalleryAsks, DeleteArgs
  <2>3. FitsServer(q.arg.list, q.arg.of, q.arg.v, t)
    BY <1>3, <2>2, FitsLater DEF GoodDelete
  <2>4. q.at = "ok" /\ q.arg.mode = "one" => q.arg.who \cap DOMAIN t.imgs = {}
    BY <1>3, <2>2 DEF GoodDelete, MovedOn
  <2>5. GoodDelete(q, t)
    BY <1>3, <2>3, <2>4 DEF GoodDelete
  <2>6. QED
    BY <2>1, <2>5 DEF GoodGalleryRequests
<1>4. QED
  BY <1>1, <1>2, <1>3 DEF GoodGalleryRequests

(* Nothing but the server and what is on the way has changed.              *)
LEMMA GalleryMovedOn ==
  ASSUME GalleryInv, MovedOn(server, server', past.came), past.came => past'.came,
         server' \in Galleries(past'.came), UNCHANGED <<page, ui, mem>>,
         past' \in [clicks : Int, came : BOOLEAN, hit : {"none", "mixed"}],
         calls' \in Seq(GoodGalleryRequests(server', past'.came))
  PROVE  GalleryInv'
<1>1. /\ ui \in GalleryPages(past.came) /\ mem \in GalleryCaches(past.came)
      /\ past.came \in BOOLEAN /\ past'.came \in BOOLEAN /\ server \in Galleries(past.came)
  BY DEF GalleryInv
<1>2. ui' \in GalleryPages(past'.came) /\ mem' \in GalleryCaches(past'.came)
  BY <1>1, PathsGrow
<1>3. /\ ui.list \in ImageLists(past.came) /\ ui.of \in Filters /\ ui.v \in Int
      /\ mem.list \in ImageLists(past.came) /\ mem.of \in Filters /\ mem.v \in Int
  BY <1>1 DEF GalleryPages, GalleryCaches
<1>4. FitsServer(ui.list, ui.of, ui.v, server') /\ FitsServer(mem.list, mem.of, mem.v, server')
  BY <1>1, <1>3, FitsLater DEF GalleryInv
<1>5. QED
  BY <1>2, <1>4 DEF GalleryInv

(* Nothing but the page, its cache and what is on the way has changed.     *)
LEMMA GalleryStays ==
  ASSUME GalleryInv, UNCHANGED <<page, server>>, past'.came = past.came,
         past' \in [clicks : Int, came : BOOLEAN, hit : {"none", "mixed"}],
         ui' \in GalleryPages(past.came), FitsServer(ui'.list, ui'.of, ui'.v, server),
         mem' \in GalleryCaches(past.came), FitsServer(mem'.list, mem'.of, mem'.v, server),
         calls' \in Seq(GoodGalleryRequests(server, past.came))
  PROVE  GalleryInv'
BY DEF GalleryInv

LEMMA GalleryMountedFits ==
  ASSUME NEW c \in BOOLEAN, mem \in GalleryCaches(c)
  PROVE  /\ GalleryMounted \in GalleryPages(c)
         /\ [GalleryMounted EXCEPT !.open = FALSE] \in GalleryPages(c)
         /\ \A u \in {GalleryMounted, [GalleryMounted EXCEPT !.open = FALSE]} :
              u.list = mem.list /\ u.of = mem.of /\ u.v = mem.v
<1> DEFINE l == ~mem.hit
<1>1. NoGalleryDialog \in GalleryDialogs(c) /\ {} \in SUBSET Paths(c) /\ l \in BOOLEAN
  BY DEF NoGalleryDialog, GalleryDialogs
<1>2. GalleryMounted =
        [open |-> TRUE, list |-> mem.list, of |-> mem.of, v |-> mem.v, owner |-> mem.owner,
         tags |-> FALSE, sel |-> {}, dialog |-> NoGalleryDialog, loading |-> l,
         deleting |-> FALSE]
  BY DEF GalleryMounted
<1> HIDE DEF l
<1>3. /\ GalleryMounted \in GalleryPages(c)
      /\ GalleryMounted.list = mem.list /\ GalleryMounted.of = mem.of /\ GalleryMounted.v = mem.v
  BY <1>1, <1>2 DEF GalleryPages, GalleryCaches
<1>4. QED
  BY <1>3 DEF GalleryPages

(* A read that is sent.                                                    *)
LEMMA ReadGood ==
  ASSUME NEW c \in BOOLEAN, NEW s, ui.owner \in Filters, NEW silent \in BOOLEAN
  PROVE  /\ GalleryCall("load", {}, silent) \in GoodGalleryRequests(s, c)
         /\ \A o \in Filters : [GalleryCall("load", {}, silent) EXCEPT !.owner = o]
                                  \in GoodGalleryRequests(s, c)
<1> DEFINE q == GalleryCall("load", {}, silent)
<1>1. /\ q = [op |-> "load", arg |-> {}, at |-> "sent", data |-> NoImages, v |-> 0,
              owner |-> ui.owner, silent |-> silent, mine |-> TRUE]
      /\ NoImages \in ImageLists(c) /\ {} \in DeleteArgs(c) \cup {{}} /\ 0 \in Int
  BY ListValues DEF GalleryCall
<1> HIDE DEF q
<1>2. \A o \in Filters : /\ [q EXCEPT !.owner = o] \in GalleryReads(c)
                         /\ [q EXCEPT !.owner = o].at = "sent"
  BY <1>1 DEF GalleryReads, GalleryAsks, ReadOps
<1>3. q \in GalleryReads(c) /\ q.at = "sent"
  BY <1>1 DEF GalleryReads, GalleryAsks, ReadOps
<1>4. QED
  BY <1>2, <1>3 DEF GoodGalleryRequests, GoodRead, q

(* What happens to any request.                                            *)
LEMMA RequestKept ==
  ASSUME NEW c \in BOOLEAN, NEW s, NEW q \in GoodGalleryRequests(s, c)
  PROVE  /\ [q EXCEPT !.mine = FALSE] \in GoodGalleryRequests(s, c)
         /\ [q EXCEPT !.at = "failed"] \in GoodGalleryRequests(s, c)
<1>1. CASE q \in GalleryReads(c) /\ GoodRead(q, s)
  <2>1. /\ [q EXCEPT !.mine = FALSE] \in GalleryReads(c)
        /\ [q EXCEPT !.at = "failed"] \in GalleryReads(c)
    BY <1>1 DEF GalleryReads, GalleryAsks
  <2>2. GoodRead([q EXCEPT !.mine = FALSE], s) /\ GoodRead([q EXCEPT !.at = "failed"], s)
    BY <1>1 DEF GoodRead, GalleryReads, GalleryAsks
  <2>3. QED
    BY <2>1, <2>2 DEF GoodGalleryRequests
<1>2. CASE q \in GalleryEdits(c) /\ GoodEdit(q, s)
  <2>1. /\ [q EXCEPT !.mine = FALSE] \in GalleryEdits(c)
        /\ [q EXCEPT !.at = "failed"] \in GalleryEdits(c)
    BY <1>2 DEF GalleryEdits, GalleryAsks
  <2>2. GoodEdit([q EXCEPT !.mine = FALSE], s) /\ GoodEdit([q EXCEPT !.at = "failed"], s)
    BY <1>2 DEF GoodEdit, GalleryEdits, GalleryAsks
  <2>3. QED
    BY <2>1, <2>2 DEF GoodGalleryRequests
<1>3. CASE q \in GalleryDeletes(c) /\ GoodDelete(q, s)
  <2>1. /\ [q EXCEPT !.mine = FALSE] \in GalleryDeletes(c)
        /\ [q EXCEPT !.at = "failed"] \in GalleryDeletes(c)
    BY <1>3 DEF GalleryDeletes, GalleryAsks
  <2>2. /\ [q EXCEPT !.mine = FALSE].arg = q.arg /\ [q EXCEPT !.mine = FALSE].at = q.at
        /\ [q EXCEPT !.at = "failed"].arg = q.arg /\ [q EXCEPT !.at = "failed"].at = "failed"
    BY <1>3 DEF GalleryDeletes, GalleryAsks
  <2>3. GoodDelete([q EXCEPT !.mine = FALSE], s) /\ GoodDelete([q EXCEPT !.at = "failed"], s)
    BY <1>3, <2>2 DEF GoodDelete
  <2>4. QED
    BY <2>1, <2>3 DEF GoodGalleryRequests
<1>4. QED
  BY <1>1, <1>2, <1>3 DEF GoodGalleryRequests

LEMMA GalleryInitInv == GalleryInit => GalleryInv
<1> SUFFICES ASSUME GalleryInit PROVE GalleryInv
  OBVIOUS
<1> DEFINE c == past.came
<1>1. /\ page = "gallery" /\ past = [clicks |-> 0, came |-> FALSE, hit |-> "none"]
      /\ mem = [hit |-> FALSE, list |-> NoImages, of |-> "", v |-> -1, owner |-> ""]
      /\ ui = GalleryMounted
      /\ server = [imgs |-> <<Image("a", TRUE), Image("a", FALSE), Image("b", FALSE)>>, v |-> 0]
      /\ calls = <<GalleryCall("load", {}, FALSE)>>
  BY DEF GalleryInit
<1>2. past \in [clicks : Int, came : BOOLEAN, hit : {"none", "mixed"}]
  <2>1. past = [clicks |-> 0, came |-> FALSE, hit |-> "none"]
    BY <1>1
  <2>2. QED
    BY <2>1
<1>c. c \in BOOLEAN /\ ~c
  <2>1. past = [clicks |-> 0, came |-> FALSE, hit |-> "none"]
    BY <1>1
  <2>2. c = FALSE
    BY <2>1
  <2>3. QED
    BY <2>2
<1> HIDE DEF c
<1>3. server \in Galleries(c) /\ server.v = 0 /\ \A i \in DOMAIN server.imgs : server.imgs[i].v = 0
  <2> DEFINE imgs == <<Image("a", TRUE), Image("a", FALSE), Image("b", FALSE)>>
  <2>1. /\ DOMAIN imgs = 1 .. 3 /\ imgs = [i \in 1 .. 3 |-> imgs[i]]
        /\ imgs[1] = Image("a", TRUE) /\ imgs[2] = Image("a", FALSE) /\ imgs[3] = Image("b", FALSE)
    OBVIOUS
  <2>2. \A o \in Owners, t \in BOOLEAN : Image(o, t) \in ImageRecords /\ Image(o, t).v = 0
    BY DEF Image, ImageRecords
  <2> HIDE DEF imgs
  <2>3. \A i \in 1 .. 3 : imgs[i] \in ImageRecords /\ imgs[i].v = 0
    <3>1. \A i \in 1 .. 3 : i = 1 \/ i = 2 \/ i = 3
      OBVIOUS
    <3>2. "a" \in Owners /\ "b" \in Owners
      BY DEF Owners
    <3>3. QED
      BY <2>1, <2>2, <3>1, <3>2
  <2>4. 1 .. 3 \in SUBSET Paths(c)
    BY <1>c DEF Paths
  <2>5. imgs \in ImageLists(c)
    BY <1>c, <2>1, <2>3, <2>4, ImageListOf
  <2>6. server = [imgs |-> imgs, v |-> 0]
    BY <1>1 DEF imgs
  <2>7. server \in [imgs : ImageLists(c), v : Int] /\ server.imgs = imgs /\ server.v = 0
    BY <2>5, <2>6
  <2>8. QED
    BY <2>1, <2>3, <2>7 DEF Galleries
<1>4. mem \in GalleryCaches(c)
  <2>1. NoImages \in ImageLists(c) /\ "" \in Filters /\ -1 \in Int
    BY <1>c, ListValues DEF Filters
  <2>2. QED
    BY <1>1, <2>1 DEF GalleryCaches
<1>5. FitsServer(mem.list, mem.of, mem.v, server)
  <2>1. mem.list = NoImages /\ mem.v = -1 /\ DOMAIN NoImages = {}
    BY <1>c, <1>1, ListValues
  <2>2. QED
    BY <1>3, <2>1 DEF FitsServer
<1>6. ui \in GalleryPages(c) /\ FitsServer(ui.list, ui.of, ui.v, server)
  BY <1>c, <1>1, <1>4, <1>5, GalleryMountedFits
<1>7. GalleryCall("load", {}, FALSE) \in GoodGalleryRequests(server, c)
  BY <1>c, <1>6, ReadGood DEF GalleryPages
<1>8. calls \in Seq(GoodGalleryRequests(server, c))
  BY <1>1, <1>7, OneSeq
<1>9. QED
  BY <1>1, <1>2, <1>c, <1>3, <1>4, <1>5, <1>6, <1>8 DEF GalleryInv, c

LEMMA ServerReads ==
  ASSUME GalleryInv, GalleryRead
  PROVE  GalleryInv'
<1> DEFINE c == past.came
<1>0. /\ c \in BOOLEAN /\ server \in Galleries(c)
      /\ calls \in Seq(GoodGalleryRequests(server, c))
  BY DEF GalleryInv
<1>1. PICK i \in Waiting("load") \cup Waiting("reload") :
        calls' = [calls EXCEPT ![i] = [calls[i] EXCEPT !.at = "ok", !.v = server.v,
                                                       !.data = ListOf(calls[i].owner)]]
  BY DEF GalleryRead
<1> DEFINE q == calls[i]
           d == ListOf(q.owner)
           r == [q EXCEPT !.at = "ok", !.v = server.v, !.data = d]
<1>2. i \in DOMAIN calls /\ q.op \in ReadOps /\ q \in GoodGalleryRequests(server, c)
  BY <1>0, CallOfSeq DEF Waiting, Pending, ReadOps
<1>3. q \in GalleryReads(c)
  BY <1>2 DEF GoodGalleryRequests, GalleryReads, GalleryEdits, GalleryDeletes, GalleryAsks,
       ReadOps, EditOps
<1>4. d \in ImageLists(c) /\ FitsServer(d, q.owner, server.v, server)
  <2> DEFINE shown == {j \in DOMAIN server.imgs : Matches(q.owner, server.imgs[j])}
  <2>1. server.imgs \in ImageLists(c) /\ server.v \in Int /\ shown \in SUBSET DOMAIN server.imgs
    BY <1>0 DEF Galleries
  <2>2. /\ d \in ImageLists(c) /\ DOMAIN d = shown
        /\ \A j \in shown : d[j] = server.imgs[j]
    BY <1>0, <2>1, ListRestricted DEF ListOf
  <2>3. \A j \in DOMAIN server.imgs : server.imgs[j].v <= server.v
    BY <1>0 DEF Galleries
  <2> HIDE DEF d
  <2>4. QED
    BY <2>1, <2>2, <2>3 DEF FitsServer
<1> HIDE DEF d
<1>5. r \in GalleryReads(c) /\ r.data = d /\ r.v = server.v /\ r.owner = q.owner
  BY <1>0, <1>3, <1>4 DEF GalleryReads, GalleryAsks, Galleries
<1>6. r \in GoodGalleryRequests(server, c)
  BY <1>4, <1>5 DEF GoodGalleryRequests, GoodRead
<1>7. calls' = [calls EXCEPT ![i] = r]
  BY <1>1 DEF d
<1> HIDE DEF r, q
<1>8. calls' \in Seq(GoodGalleryRequests(server, c))
  BY <1>0, <1>2, <1>6, <1>7, ChangedSeq
<1>9. QED
  BY <1>8, GalleryStays DEF GalleryRead, GalleryInv

(* No deletion of a page whose list fits the server reaches an image that  *)
(* was not shown, while the list is of the filter of the deletion.         *)
LEMMA NothingUnseen ==
  ASSUME NEW c \in BOOLEAN, server \in Galleries(c), NEW q \in GalleryDeletes(c),
         GoodDelete(q, server), q.arg.of = q.owner
  PROVE  Unseen(q) = {}
<1> SUFFICES ASSUME NEW i \in Unseen(q) PROVE FALSE
  OBVIOUS
<1> DEFINE l == q.arg.list
<1>1. /\ i \in Victims(q) /\ i \notin q.arg.shown
      /\ IF i \in DOMAIN l THEN server.imgs[i].v = l[i].v ELSE server.imgs[i].v <= q.arg.v
  BY DEF Unseen
<1>2. FitsServer(l, q.owner, q.arg.v, server)
  BY DEF GoodDelete
<1>3. q.arg.mode = "filtered"
  BY <1>1 DEF GoodDelete, Victims
<1>4. /\ i \in DOMAIN server.imgs /\ Matches(q.owner, server.imgs[i])
      /\ q.arg.tags => server.imgs[i].tag
  BY <1>1, <1>3 DEF Victims
<1>5. CASE i \in DOMAIN l
  BY <1>1, <1>2, <1>3, <1>4, <1>5 DEF FitsServer, GoodDelete
<1>6. CASE i \notin DOMAIN l
  <2>1. server.imgs[i].v > q.arg.v
    BY <1>2, <1>4, <1>6 DEF FitsServer
  <2>2. server.imgs[i].v \in Int /\ q.arg.v \in Int
    BY <1>4, ListValues DEF Galleries, ImageRecords, GalleryDeletes, GalleryAsks, DeleteArgs
  <2>3. QED
    BY <1>1, <1>6, <2>1, <2>2
<1>7. QED
  BY <1>5, <1>6

LEMMA ServerDeletes ==
  ASSUME GalleryInv, DeleteServed
  PROVE  GalleryInv'
<1> DEFINE c == past.came
<1>0. /\ c \in BOOLEAN /\ server \in Galleries(c)
      /\ past \in [clicks : Int, came : BOOLEAN, hit : {"none", "mixed"}]
      /\ calls \in Seq(GoodGalleryRequests(server, c))
  BY DEF GalleryInv
<1>1. PICK i \in Waiting("delete") :
        LET q == calls[i]
        IN  /\ server' = Touched(Restrict(server.imgs, DOMAIN server.imgs \ Victims(q)))
            /\ calls' = [calls EXCEPT ![i] = [q EXCEPT !.at = "ok"]]
            /\ past' = IF Unseen(q) = {} \/ past.hit = "clean" THEN past
                       ELSE [past EXCEPT !.hit = IF q.arg.of = q.owner THEN "clean" ELSE "mixed"]
  BY DEF DeleteServed
<1> DEFINE q == calls[i]
           left == DOMAIN server.imgs \ Victims(q)
           imgs == Restrict(server.imgs, left)
           r == [q EXCEPT !.at = "ok"]
<1>2. i \in DOMAIN calls /\ q.op = "delete" /\ q \in GoodGalleryRequests(server, c)
  BY <1>0, CallOfSeq DEF Waiting, Pending
<1>3. q \in GalleryDeletes(c) /\ GoodDelete(q, server)
  BY <1>2 DEF GoodGalleryRequests, GalleryReads, GalleryEdits, GalleryDeletes, GalleryAsks,
       ReadOps, EditOps
<1>4. server' = Touched(imgs) /\ calls' = [calls EXCEPT ![i] = r]
  BY <1>1
<1>5. /\ server.imgs \in ImageLists(c) /\ server.v \in Int
      /\ \A j \in DOMAIN server.imgs : server.imgs[j].v \in Int /\ server.imgs[j].v <= server.v
  BY <1>0, ListValues DEF Galleries, ImageRecords
<1>6. /\ imgs \in ImageLists(c) /\ DOMAIN imgs = left
      /\ \A j \in left : imgs[j] = server.imgs[j]
  BY <1>0, <1>5, ListRestricted
<1>7. past' \in [clicks : Int, came : BOOLEAN, hit : {"none", "mixed"}] /\ past'.came = c
  <2>1. Unseen(q) = {} \/ q.arg.of # q.owner
    BY <1>0, <1>3, NothingUnseen
  <2>2. past' = past \/ past' = [past EXCEPT !.hit = "mixed"]
    BY <1>1, <2>1
  <2>3. QED
    BY <1>0, <2>2
<1> HIDE DEF imgs, left
<1>8. server' = [imgs |-> imgs, v |-> server.v + 1]
  BY <1>4 DEF Touched
<1>9. server' \in Galleries(c) /\ MovedOn(server, server', c)
  <2>1. left \subseteq DOMAIN server.imgs
    BY DEF left
  <2>2. server' \in [imgs : ImageLists(c), v : Int]
    BY <1>5, <1>6, <1>8
  <2>3. \A j \in DOMAIN server'.imgs : server'.imgs[j].v <= server'.v
    BY <1>5, <1>6, <1>8, <2>1
  <2>4. MovedOn(server, server', c)
    BY <1>6, <1>8, <2>1 DEF MovedOn
  <2>5. QED
    BY <2>2, <2>3, <2>4 DEF Galleries
<1>10. r \in GoodGalleryRequests(server', c)
  <2>1. r \in GalleryDeletes(c) /\ r.arg = q.arg
    BY <1>3 DEF GalleryDeletes, GalleryAsks
  <2>2. q \in GoodGalleryRequests(server', c)
    BY <1>0, <1>2, <1>9, GoodLater
  <2>3. GoodDelete(q, server')
    BY <1>2, <2>2 DEF GoodGalleryRequests, GalleryReads, GalleryEdits, GalleryDeletes,
         GalleryAsks, ReadOps, EditOps
  <2>4. q.arg.mode = "one" => q.arg.who \cap DOMAIN server'.imgs = {}
    BY <1>6, <1>8 DEF left, Victims
  <2>5. GoodDelete(r, server')
    BY <2>1, <2>3, <2>4 DEF GoodDelete
  <2>6. QED
    BY <2>1, <2>5 DEF GoodGalleryRequests
<1>11. calls \in Seq(GoodGalleryRequests(server', c))
  BY <1>0, <1>9, GoodLater, SeqMonotonic
<1> HIDE DEF r
<1>12. calls' \in Seq(GoodGalleryRequests(server', c))
  BY <1>2, <1>4, <1>10, <1>11, ChangedSeq
<1>13. QED
  BY <1>0, <1>7, <1>9, <1>12, GalleryMovedOn DEF DeleteServed

LEMMA ServerTags ==
  ASSUME GalleryInv, TagServed
  PROVE  GalleryInv'
<1> DEFINE c == past.came
<1>0. /\ c \in BOOLEAN /\ server \in Galleries(c)
      /\ past \in [clicks : Int, came : BOOLEAN, hit : {"none", "mixed"}]
      /\ calls \in Seq(GoodGalleryRequests(server, c))
  BY DEF GalleryInv
<1>1. PICK i \in Waiting("tag") \cup Waiting("untag") :
       LET q == calls[i]
           hit == IF q.op = "untag" THEN DOMAIN server.imgs ELSE q.arg.who \cap DOMAIN server.imgs
       IN  /\ server' = Touched([j \in DOMAIN server.imgs |->
                           IF j \in hit THEN [server.imgs[j] EXCEPT !.tag = q.arg.tag,
                                                                    !.v = server.v + 1]
                           ELSE server.imgs[j]])
           /\ calls' = [calls EXCEPT ![i] = [q EXCEPT !.at = "ok", !.v = server.v + 1]]
  BY DEF TagServed
<1> DEFINE q == calls[i]
           hit == IF q.op = "untag" THEN DOMAIN server.imgs ELSE q.arg.who \cap DOMAIN server.imgs
           now == server.v + 1
           imgs == [j \in DOMAIN server.imgs |->
                      IF j \in hit THEN [server.imgs[j] EXCEPT !.tag = q.arg.tag, !.v = now]
                      ELSE server.imgs[j]]
           r == [q EXCEPT !.at = "ok", !.v = now]
<1>2. i \in DOMAIN calls /\ q.op \in EditOps /\ q \in GoodGalleryRequests(server, c)
  BY <1>0, CallOfSeq DEF Waiting, Pending, EditOps
<1>3. q \in GalleryEdits(c) /\ q.arg.tag \in BOOLEAN
  <2>1. q \in GalleryEdits(c)
    BY <1>2 DEF GoodGalleryRequests, GalleryReads, GalleryEdits, GalleryDeletes, GalleryAsks,
         ReadOps, EditOps
  <2>2. QED
    BY <2>1 DEF GalleryEdits, GalleryAsks, EditArgs
<1>4. server' = Touched(imgs) /\ calls' = [calls EXCEPT ![i] = r]
  BY <1>1
<1>5. /\ server.imgs \in ImageLists(c) /\ server.v \in Int /\ now \in Int
      /\ \A j \in DOMAIN server.imgs :
           /\ server.imgs[j] \in ImageRecords
           /\ server.imgs[j].v \in Int /\ server.imgs[j].v <= server.v
  BY <1>0, ListValues DEF Galleries, ImageRecords
<1>6. \A j \in hit : /\ [server.imgs[j] EXCEPT !.tag = q.arg.tag, !.v = now] \in ImageRecords
                     /\ [server.imgs[j] EXCEPT !.tag = q.arg.tag, !.v = now].v = now
                     /\ [server.imgs[j] EXCEPT !.tag = q.arg.tag, !.v = now].tag = q.arg.tag
  BY <1>3, <1>5 DEF ImageRecords
<1>7. /\ DOMAIN imgs = DOMAIN server.imgs
      /\ \A j \in DOMAIN imgs :
           /\ imgs[j] \in ImageRecords
           /\ IF j \in hit THEN imgs[j].v = now /\ imgs[j].tag = q.arg.tag
                           ELSE imgs[j] = server.imgs[j]
  BY <1>5, <1>6
<1>8. imgs \in ImageLists(c)
  <2>1. imgs = [j \in DOMAIN server.imgs |-> imgs[j]] /\ DOMAIN server.imgs \in SUBSET Paths(c)
    BY <1>0, <1>5, ListValues
  <2>2. QED
    BY <1>0, <1>7, <2>1, ImageListOf
<1>9. server' = [imgs |-> imgs, v |-> now]
  BY <1>4 DEF Touched
<1> HIDE DEF imgs
<1>10. server' \in Galleries(c) /\ MovedOn(server, server', c)
  <2>1. server' \in [imgs : ImageLists(c), v : Int]
    BY <1>5, <1>8, <1>9
  <2>2. \A j \in DOMAIN server'.imgs : server'.imgs[j].v <= server'.v
    BY <1>5, <1>7, <1>9
  <2>3. MovedOn(server, server', c)
    BY <1>7, <1>9 DEF MovedOn
  <2>4. QED
    BY <2>1, <2>2, <2>3 DEF Galleries
<1>11. r \in GalleryEdits(c) /\ r.arg = q.arg /\ r.op = q.op /\ r.v = now
  BY <1>3, <1>5 DEF GalleryEdits, GalleryAsks
<1>12. GoodEdit(r, server')
  <2>1. ASSUME NEW j \in DOMAIN server'.imgs, r.op = "untag" \/ j \in r.arg.who
        PROVE  server'.imgs[j].tag = r.arg.tag
    <3>1. j \in hit
      BY <1>7, <1>9, <1>11, <2>1
    <3>2. QED
      BY <1>7, <1>9, <1>11, <3>1
  <2>2. r.v <= server'.v
    BY <1>5, <1>9, <1>11
  <2>3. QED
    BY <2>1, <2>2 DEF GoodEdit
<1>13. r \in GoodGalleryRequests(server', c)
  BY <1>11, <1>12 DEF GoodGalleryRequests
<1>14. calls \in Seq(GoodGalleryRequests(server', c))
  BY <1>0, <1>10, GoodLater, SeqMonotonic
<1> HIDE DEF r
<1>15. calls' \in Seq(GoodGalleryRequests(server', c))
  BY <1>2, <1>4, <1>13, <1>14, ChangedSeq
<1>16. past' = past /\ UNCHANGED <<page, ui, mem>>
  BY DEF TagServed
<1>17. QED
  BY <1>0, <1>10, <1>15, <1>16, GalleryMovedOn

LEMMA ServerGrows ==
  ASSUME GalleryInv, ImageAppears
  PROVE  GalleryInv'
<1> DEFINE c == past.came
           d == past'.came
<1>0. /\ c \in BOOLEAN /\ ~c /\ server \in Galleries(c)
      /\ past \in [clicks : Int, came : BOOLEAN, hit : {"none", "mixed"}]
      /\ calls \in Seq(GoodGalleryRequests(server, c))
  BY DEF GalleryInv, ImageAppears
<1>8. /\ past' \in [clicks : Int, came : BOOLEAN, hit : {"none", "mixed"}] 
         /\ d
  <2>1. past' = [Clicked EXCEPT !.came = TRUE]
    BY DEF ImageAppears
  <2>2. Clicked \in [clicks : Int, came : BOOLEAN, hit : {"none", "mixed"}]
    BY <1>0 DEF Clicked
  <2>3. d
    BY <2>1, <2>2
  <2>4. ASSUME NEW b \in BOOLEAN
        PROVE  [Clicked EXCEPT !.came = b] \in [clicks : Int, came : BOOLEAN, hit : {"none", "mixed"}]
    BY <2>2
  <2>5. QED
    BY <2>1, <2>3, <2>4
<1>1. PICK o \in Owners :
       server' = Touched([i \in (DOMAIN server.imgs) \cup {4} |->
                    IF i = 4 THEN [Image(o, FALSE) EXCEPT !.v = server.v + 1] ELSE server.imgs[i]])
  BY DEF ImageAppears
<1> DEFINE now == server.v + 1
           new == [Image(o, FALSE) EXCEPT !.v = now]
           all == (DOMAIN server.imgs) \cup {4}
           imgs == [i \in all |-> IF i = 4 THEN new ELSE server.imgs[i]]
<1>2. /\ server.imgs \in ImageLists(c) /\ server.v \in Int /\ now \in Int
      /\ \A j \in DOMAIN server.imgs :
           /\ server.imgs[j] \in ImageRecords
           /\ server.imgs[j].v \in Int /\ server.imgs[j].v <= server.v
  BY <1>0, ListValues DEF Galleries, ImageRecords
<1>p. DOMAIN server.imgs \in SUBSET (1 .. 3)
  <2>1. DOMAIN server.imgs \in SUBSET Paths(c)
    BY <1>0, <1>2, ListValues
  <2>2. QED
    BY <1>0, <2>1 DEF Paths
<1>3. new \in ImageRecords /\ new.v = now
  BY <1>2 DEF Image, ImageRecords
<1> HIDE DEF new
<1>4. /\ DOMAIN imgs = all /\ all \in SUBSET Paths(d)
      /\ \A j \in all : /\ imgs[j] \in ImageRecords
                        /\ IF j = 4 THEN imgs[j].v = now
                           ELSE j \in DOMAIN server.imgs /\ imgs[j] = server.imgs[j]
  BY <1>2, <1>p, <1>3, <1>8 DEF Paths
<1>5. imgs \in ImageLists(d)
  <2>1. imgs = [j \in all |-> imgs[j]]
    BY <1>4
  <2>2. QED
    BY <1>8, <1>4, <2>1, ImageListOf
<1>6. server' = [imgs |-> imgs, v |-> now]
  BY <1>1 DEF Touched, new
<1> HIDE DEF imgs, all
<1>7. server' \in Galleries(d) /\ MovedOn(server, server', c)
  <2>1. server' \in [imgs : ImageLists(d), v : Int]
    BY <1>2, <1>5, <1>6
  <2>2. \A j \in DOMAIN server'.imgs : server'.imgs[j].v <= server'.v
    BY <1>2, <1>4, <1>6
  <2>3. \A j \in DOMAIN server'.imgs : j \in Paths(c) => j \in DOMAIN server.imgs
    BY <1>0, <1>4, <1>6, <1>p DEF Paths
  <2>4. MovedOn(server, server', c)
    BY <1>4, <1>6, <2>3 DEF MovedOn
  <2>5. QED
    BY <2>1, <2>2, <2>4 DEF Galleries
<1>9. calls \in Seq(GoodGalleryRequests(server', d))
  BY <1>0, <1>7, <1>8, GoodLater, SeqMonotonic
<1>10. QED
  BY <1>0, <1>7, <1>8, <1>9, GalleryMovedOn DEF ImageAppears

(* A list that is read replaces the one on the page.                       *)
LEMMA ReadShown ==
  ASSUME NEW c \in BOOLEAN, NEW u \in GalleryPages(c), FitsServer(u.list, u.of, u.v, server),
         NEW q \in GalleryReads(c), GoodRead(q, server), q.at # "sent"
  PROVE  LET w == ReadEnded(GalleryShown(u, q), q)
         IN  w \in GalleryPages(c) /\ FitsServer(w.list, w.of, w.v, server)
<1> DEFINE sel == u.sel \cap DOMAIN q.data
           w == GalleryShown(u, q)
<1>0. /\ q.at \in {"sent", "ok", "failed"} /\ q.data \in ImageLists(c) /\ q.owner \in Filters
      /\ q.v \in Int /\ q.silent \in BOOLEAN
  BY DEF GalleryReads, GalleryAsks
<1>1. w \in GalleryPages(c) /\ FitsServer(w.list, w.of, w.v, server)
  <2>1. CASE q.at = "failed"
    BY <2>1 DEF GalleryShown
  <2>2. CASE q.at # "failed"
    <3>1. w = [u EXCEPT !.list = q.data, !.of = q.owner, !.v = q.v, !.sel = sel]
      BY <2>2 DEF GalleryShown
    <3>2. sel \in SUBSET Paths(c)
      BY DEF GalleryPages
    <3>3. FitsServer(q.data, q.owner, q.v, server)
      BY <1>0, <2>2 DEF GoodRead
    <3> HIDE DEF sel, w
    <3>4. w \in GalleryPages(c) /\ w.list = q.data /\ w.of = q.owner /\ w.v = q.v
      BY <1>0, <3>1, <3>2 DEF GalleryPages
    <3>5. QED
      BY <3>3, <3>4
  <2>3. QED
    BY <2>1, <2>2
<1> HIDE DEF w
<1> DEFINE l == w.loading /\ q.silent
           x == [w EXCEPT !.loading = l]
           d == IF q.silent THEN [x.dialog EXCEPT !.one = 0] ELSE x.dialog
<1>2. l \in BOOLEAN
  OBVIOUS
<1>3. ReadEnded(w, q) = IF q.op = "load" THEN x ELSE [x EXCEPT !.deleting = FALSE, !.dialog = d]
  BY DEF ReadEnded
<1> HIDE DEF l
<1>4. x \in GalleryPages(c) /\ x.list = w.list /\ x.of = w.of /\ x.v = w.v
  BY <1>1, <1>2 DEF GalleryPages
<1> HIDE DEF x
<1>5. d \in GalleryDialogs(c)
  <2>1. [x.dialog EXCEPT !.one = 0] \in GalleryDialogs(c) /\ x.dialog \in GalleryDialogs(c)
    BY <1>4 DEF GalleryPages, GalleryDialogs
  <2>2. QED
    BY <2>1
<1> HIDE DEF d
<1>6. /\ [x EXCEPT !.deleting = FALSE, !.dialog = d] \in GalleryPages(c)
      /\ [x EXCEPT !.deleting = FALSE, !.dialog = d].list = x.list
      /\ [x EXCEPT !.deleting = FALSE, !.dialog = d].of = x.of
      /\ [x EXCEPT !.deleting = FALSE, !.dialog = d].v = x.v
  BY <1>4, <1>5 DEF GalleryPages
<1>7. QED
  BY <1>1, <1>3, <1>4, <1>6 DEF w

(* What is written to the cache.                                           *)
LEMMA CachedFits ==
  ASSUME NEW c \in BOOLEAN, NEW l \in ImageLists(c), NEW of \in Filters, NEW v \in Int,
         NEW o \in Filters, FitsServer(l, of, v, server), Cached(l, of, v, o)
  PROVE  mem' \in GalleryCaches(c) /\ FitsServer(mem'.list, mem'.of, mem'.v, server)
BY DEF Cached, GalleryCaches

LEMMA PageReads ==
  ASSUME GalleryInv, loadImages
  PROVE  GalleryInv'
<1> DEFINE c == past.came
<1>0. /\ c \in BOOLEAN /\ calls \in Seq(GoodGalleryRequests(server, c))
      /\ ui \in GalleryPages(c) /\ FitsServer(ui.list, ui.of, ui.v, server)
      /\ mem \in GalleryCaches(c) /\ FitsServer(mem.list, mem.of, mem.v, server)
  BY DEF GalleryInv
<1>1. PICK i \in Loads :
        /\ calls[i].at # "sent" /\ calls' = Dropped(i)
        /\ ui' = IF calls[i].mine THEN ReadEnded(GalleryShown(ui, calls[i]), calls[i]) ELSE ui
        /\ \/ calls[i].at = "ok" /\ Cached(calls[i].data, calls[i].owner, calls[i].v, calls[i].owner)
           \/ UNCHANGED mem
  BY DEF loadImages
<1> DEFINE q == calls[i]
<1>2. i \in DOMAIN calls /\ q.op \in ReadOps /\ q \in GoodGalleryRequests(server, c)
  BY <1>0, CallOfSeq DEF Loads, Pending, ReadOps
<1>3. q \in GalleryReads(c) /\ GoodRead(q, server)
  BY <1>2 DEF GoodGalleryRequests, GalleryReads, GalleryEdits, GalleryDeletes, GalleryAsks,
       ReadOps, EditOps
<1>4. calls' \in Seq(GoodGalleryRequests(server, c))
  BY <1>0, <1>1, <1>2, RemovedSeq DEF Dropped
<1> HIDE DEF q
<1>5. ui' \in GalleryPages(c) /\ FitsServer(ui'.list, ui'.of, ui'.v, server)
  <2>1. ui' = ReadEnded(GalleryShown(ui, q), q) \/ ui' = ui
    BY <1>1 DEF q
  <2>2. q.at # "sent"
    BY <1>1 DEF q
  <2>3. QED
    BY <1>0, <1>3, <2>1, <2>2, ReadShown
<1>6. mem' \in GalleryCaches(c) /\ FitsServer(mem'.list, mem'.of, mem'.v, server)
  <2>1. CASE q.at = "ok" /\ Cached(q.data, q.owner, q.v, q.owner)
    <3>1. q.data \in ImageLists(c) /\ q.owner \in Filters /\ q.v \in Int
      BY <1>3 DEF GalleryReads, GalleryAsks
    <3>2. FitsServer(q.data, q.owner, q.v, server)
      BY <1>3, <2>1 DEF GoodRead
    <3>3. QED
      BY <1>0, <2>1, <3>1, <3>2, CachedFits
  <2>2. CASE UNCHANGED mem
    BY <1>0, <2>2
  <2>3. QED
    BY <1>1, <2>1, <2>2 DEF q
<1>7. UNCHANGED <<page, server, past>>
  BY DEF loadImages
<1>8. QED
  BY <1>4, <1>5, <1>6, <1>7, GalleryStays DEF GalleryInv

(* The read that follows a deletion.                                       *)
LEMMA RereadGood ==
  ASSUME NEW c \in BOOLEAN, NEW q \in GalleryDeletes(c)
  PROVE  Reread(q) \in GoodGalleryRequests(server, c)
<1> DEFINE one == q.arg.mode = "one"
<1>1. one \in BOOLEAN /\ Reread(q) = [q EXCEPT !.op = "reload", !.at = "sent", !.silent = one]
  BY DEF Reread
<1> HIDE DEF one
<1>2. Reread(q) \in GalleryReads(c) /\ Reread(q).at = "sent"
  BY <1>1 DEF GalleryDeletes, GalleryReads, GalleryAsks, ReadOps
<1>3. QED
  BY <1>2 DEF GoodGalleryRequests, GoodRead

LEMMA PageDeletes ==
  ASSUME GalleryInv, handleDelete
  PROVE  GalleryInv'
<1> DEFINE c == past.came
<1>0. /\ c \in BOOLEAN /\ calls \in Seq(GoodGalleryRequests(server, c))
      /\ ui \in GalleryPages(c) /\ FitsServer(ui.list, ui.of, ui.v, server)
      /\ mem \in GalleryCaches(c) /\ FitsServer(mem.list, mem.of, mem.v, server)
  BY DEF GalleryInv
<1>1. PICK i \in Arrived("delete") :
        IF calls[i].at = "ok"
          THEN /\ calls' = Append(Dropped(i), Reread(calls[i]))
               /\ ui' = IF calls[i].mine THEN Deleted(ui, calls[i]) ELSE ui
               /\ IF calls[i].mine /\ calls[i].arg.mode = "one"
                    THEN Cached(ui'.list, ui.of, ui.v, calls[i].owner)
                  ELSE UNCHANGED mem
        ELSE /\ calls' = Dropped(i)
             /\ ui' = IF calls[i].mine
                        THEN [ui EXCEPT !.deleting = FALSE,
                                        !.dialog = IF calls[i].arg.mode = "one"
                                                     THEN [@ EXCEPT !.one = 0] ELSE @]
                      ELSE ui
             /\ UNCHANGED mem
  BY DEF handleDelete
<1> DEFINE q == calls[i]
<1>2. i \in DOMAIN calls /\ q.op = "delete" /\ q \in GoodGalleryRequests(server, c)
  BY <1>0, CallOfSeq DEF Arrived, Pending
<1>3. q \in GalleryDeletes(c) /\ GoodDelete(q, server)
  BY <1>2 DEF GoodGalleryRequests, GalleryReads, GalleryEdits, GalleryDeletes, GalleryAsks,
       ReadOps, EditOps
<1>4. calls' \in Seq(GoodGalleryRequests(server, c))
  <2>1. Dropped(i) \in Seq(GoodGalleryRequests(server, c))
    BY <1>0, <1>2, RemovedSeq DEF Dropped
  <2>2. Reread(q) \in GoodGalleryRequests(server, c)
    BY <1>0, <1>3, RereadGood
  <2>3. QED
    BY <1>1, <2>1, <2>2, AppendedSeq
<1> HIDE DEF q
<1>5. UNCHANGED <<page, server, past>>
  BY DEF handleDelete
<1>6. CASE q.at = "ok" /\ q.mine /\ q.arg.mode = "one"
  <2> DEFINE left == DOMAIN ui.list \ q.arg.who
             list == Restrict(ui.list, left)
             sel == ui.sel \ q.arg.who
  <2>1. /\ ui' = [ui EXCEPT !.list = list, !.sel = sel]
        /\ Cached(ui'.list, ui.of, ui.v, q.owner)
    BY <1>1, <1>6 DEF Deleted, q
  <2>2. ui.list \in ImageLists(c) /\ ui.of \in Filters /\ ui.v \in Int /\ q.owner \in Filters
    BY <1>0, <1>3 DEF GalleryPages, GalleryDeletes, GalleryAsks
  <2>3. list \in ImageLists(c) /\ DOMAIN list = left /\ \A j \in left : list[j] = ui.list[j]
    BY <1>0, <2>2, ListRestricted
  <2>4. q.arg.who \cap DOMAIN server.imgs = {}
    BY <1>3, <1>6 DEF GoodDelete
  <2> HIDE DEF list
  <2>5. FitsServer(list, ui.of, ui.v, server)
    BY <1>0, <2>3, <2>4 DEF FitsServer
  <2>6. sel \in SUBSET Paths(c)
    BY <1>0 DEF GalleryPages
  <2> HIDE DEF sel
  <2>7. /\ ui' \in GalleryPages(c) /\ ui'.list = list /\ ui'.of = ui.of /\ ui'.v = ui.v
    BY <1>0, <2>1, <2>3, <2>6 DEF GalleryPages
  <2>8. mem' \in GalleryCaches(c) /\ FitsServer(mem'.list, mem'.of, mem'.v, server)
    BY <1>0, <2>1, <2>2, <2>3, <2>5, <2>7, CachedFits
  <2>9. QED
    BY <1>4, <1>5, <2>5, <2>7, <2>8, GalleryStays DEF GalleryInv
<1>7. CASE ~(q.at = "ok" /\ q.mine /\ q.arg.mode = "one")
  <2> DEFINE none == [ui.dialog EXCEPT !.mode = "none"]
             d == IF q.arg.mode = "one" THEN [ui.dialog EXCEPT !.one = 0] ELSE ui.dialog
  <2>1. mem' = mem
    BY <1>1, <1>7 DEF q
  <2>2. \/ ui' = ui \/ ui' = [ui EXCEPT !.deleting = FALSE, !.dialog = d]
        \/ ui' = [ui EXCEPT !.dialog = none, !.sel = {}, !.loading = TRUE]
    BY <1>1, <1>7 DEF Deleted, q
  <2>3. d \in GalleryDialogs(c) /\ none \in GalleryDialogs(c)
    <3>1. /\ [ui.dialog EXCEPT !.one = 0] \in GalleryDialogs(c) /\ ui.dialog \in GalleryDialogs(c)
          /\ none \in GalleryDialogs(c)
      BY <1>0 DEF GalleryPages, GalleryDialogs
    <3>2. QED
      BY <3>1
  <2> HIDE DEF d, none
  <2>4. /\ [ui EXCEPT !.deleting = FALSE, !.dialog = d] \in GalleryPages(c)
        /\ [ui EXCEPT !.dialog = none, !.sel = {}, !.loading = TRUE] \in GalleryPages(c)
    BY <1>0, <2>3, {} \in SUBSET Paths(c) DEF GalleryPages
  <2>5. ui'.list = ui.list /\ ui'.of = ui.of /\ ui'.v = ui.v
    BY <1>0, <2>2 DEF GalleryPages
  <2>6. ui' \in GalleryPages(c)
    BY <1>0, <2>2, <2>4
  <2>7. QED
    BY <1>0, <1>4, <1>5, <2>1, <2>5, <2>6, GalleryStays DEF GalleryInv
<1>8. QED
  BY <1>6, <1>7

LEMMA PageTags ==
  ASSUME GalleryInv, handleSetTags
  PROVE  GalleryInv'
<1> DEFINE c == past.came
<1>0. /\ c \in BOOLEAN /\ calls \in Seq(GoodGalleryRequests(server, c))
      /\ ui \in GalleryPages(c) /\ FitsServer(ui.list, ui.of, ui.v, server)
      /\ mem \in GalleryCaches(c) /\ FitsServer(mem.list, mem.of, mem.v, server)
  BY DEF GalleryInv
<1>1. PICK i \in Arrived("tag") \cup Arrived("untag") :
        /\ calls' = Dropped(i)
        /\ IF calls[i].at = "ok" /\ calls[i].mine
             THEN /\ ui' = [ui EXCEPT !.list = Retagged(calls[i]), !.tags = @ /\ calls[i].op = "tag"]
                  /\ Cached(ui'.list, ui.of, ui.v, calls[i].owner)
           ELSE UNCHANGED <<ui, mem>>
  BY DEF handleSetTags
<1> DEFINE q == calls[i]
<1>2. i \in DOMAIN calls /\ q.op \in EditOps /\ q \in GoodGalleryRequests(server, c)
  BY <1>0, CallOfSeq DEF Arrived, Pending, EditOps
<1>3. q \in GalleryEdits(c) /\ GoodEdit(q, server)
  BY <1>2 DEF GoodGalleryRequests, GalleryReads, GalleryEdits, GalleryDeletes, GalleryAsks,
       ReadOps, EditOps
<1>4. calls' \in Seq(GoodGalleryRequests(server, c))
  BY <1>0, <1>1, <1>2, RemovedSeq DEF Dropped
<1> HIDE DEF q
<1>5. UNCHANGED <<page, server, past>>
  BY DEF handleSetTags
<1>6. CASE q.at = "ok" /\ q.mine
  <2> DEFINE list == Retagged(q)
             tags == ui.tags /\ q.op = "tag"
             hit == {j \in DOMAIN ui.list : q.op = "untag" \/ j \in q.arg.who}
  <2>1. /\ ui' = [ui EXCEPT !.list = list, !.tags = tags]
        /\ Cached(ui'.list, ui.of, ui.v, q.owner)
    BY <1>1, <1>6 DEF q
  <2>2. /\ ui.list \in ImageLists(c) /\ ui.of \in Filters /\ ui.v \in Int /\ q.owner \in Filters
        /\ q.v \in Int /\ q.arg.tag \in BOOLEAN
    BY <1>0, <1>3 DEF GalleryPages, GalleryEdits, GalleryAsks, EditArgs
  <2>3. \A j \in hit : /\ [ui.list[j] EXCEPT !.tag = q.arg.tag, !.v = q.v] \in ImageRecords
                       /\ [ui.list[j] EXCEPT !.tag = q.arg.tag, !.v = q.v].v = q.v
                       /\ [ui.list[j] EXCEPT !.tag = q.arg.tag, !.v = q.v].tag = q.arg.tag
    <3>1. \A j \in hit : ui.list[j] \in ImageRecords
      BY <1>0, <2>2, ListValues
    <3>2. QED
      BY <2>2, <3>1 DEF ImageRecords
  <2>4. /\ list = [j \in DOMAIN ui.list |-> list[j]] /\ DOMAIN list = DOMAIN ui.list
        /\ \A j \in DOMAIN ui.list :
             list[j] = IF j \in hit THEN [ui.list[j] EXCEPT !.tag = q.arg.tag, !.v = q.v]
                       ELSE ui.list[j]
    BY DEF Retagged
  <2>5. list \in ImageLists(c)
    <3>1. DOMAIN ui.list \in SUBSET Paths(c) /\ \A j \in DOMAIN ui.list : ui.list[j] \in ImageRecords
      BY <1>0, <2>2, ListValues
    <3>2. \A j \in DOMAIN ui.list : list[j] \in ImageRecords
      BY <2>3, <2>4, <3>1
    <3> HIDE DEF list
    <3>3. QED
      BY <1>0, <2>4, <3>1, <3>2, ImageListOf
  <2> HIDE DEF list
  <2>6. FitsServer(list, ui.of, ui.v, server)
    <3>1. q.v <= server.v
      BY <1>3, <1>6 DEF GoodEdit
    <3>2. \A j \in DOMAIN list : list[j].v <= server.v
      BY <1>0, <2>3, <2>4, <3>1 DEF FitsServer
    <3>3. ASSUME NEW j \in DOMAIN server.imgs, j \in DOMAIN list, server.imgs[j].v = list[j].v
          PROVE  server.imgs[j].tag = list[j].tag
      <4>1. CASE j \in hit
        <5>1. list[j].v = q.v /\ list[j].tag = q.arg.tag
          BY <2>3, <2>4, <4>1
        <5>2. QED
          BY <1>3, <1>6, <3>3, <4>1, <5>1 DEF GoodEdit
      <4>2. CASE j \notin hit
        BY <1>0, <2>4, <3>3, <4>2 DEF FitsServer
      <4>3. QED
        BY <4>1, <4>2
    <3>4. QED
      BY <1>0, <2>4, <3>2, <3>3 DEF FitsServer
  <2>7. tags \in BOOLEAN
    OBVIOUS
  <2> HIDE DEF tags
  <2>8. ui' \in GalleryPages(c) /\ ui'.list = list /\ ui'.of = ui.of /\ ui'.v = ui.v
    BY <1>0, <2>1, <2>5, <2>7 DEF GalleryPages
  <2>9. mem' \in GalleryCaches(c) /\ FitsServer(mem'.list, mem'.of, mem'.v, server)
    BY <1>0, <2>1, <2>2, <2>5, <2>6, <2>8, CachedFits
  <2>10. QED
    BY <1>4, <1>5, <2>6, <2>8, <2>9, GalleryStays DEF GalleryInv
<1>7. CASE ~(q.at = "ok" /\ q.mine)
  <2>1. UNCHANGED <<ui, mem>>
    BY <1>1, <1>7 DEF q
  <2>2. QED
    BY <1>0, <1>4, <1>5, <2>1, GalleryStays DEF GalleryInv
<1>8. QED
  BY <1>6, <1>7

(* A click leaves the list on the page alone.                              *)
LEMMA GalleryClickFits ==
  ASSUME GalleryInv, past' = Clicked, UNCHANGED <<page, mem, server>>,
         ui' \in GalleryPages(past.came), ui'.list = ui.list, ui'.of = ui.of, ui'.v = ui.v,
         calls' \in Seq(GoodGalleryRequests(server, past.came))
  PROVE  GalleryInv'
<1>1. past' \in [clicks : Int, came : BOOLEAN, hit : {"none", "mixed"}] /\ past'.came = past.came
  BY DEF GalleryInv, Clicked
<1>2. QED
  BY <1>1 DEF GalleryInv

LEMMA UserDeletes ==
  ASSUME GalleryInv, confirmDelete
  PROVE  /\ calls' \in Seq(GoodGalleryRequests(server, past.came))
         /\ ui' \in GalleryPages(past.came) /\ ui'.list = ui.list /\ ui'.of = ui.of /\ ui'.v = ui.v
<1> DEFINE c == past.came
<1>0. /\ c \in BOOLEAN /\ calls \in Seq(GoodGalleryRequests(server, c))
      /\ ui \in GalleryPages(c) /\ FitsServer(ui.list, ui.of, ui.v, server)
  BY DEF GalleryInv
<1>1. PICK mode \in {"one", "selected", "filtered"}, who \in SUBSET Paths(c), silent \in BOOLEAN :
        calls' = Append(calls, GalleryCall("delete", Deletion(mode, who), silent))
  <2>1. CASE /\ ui.dialog.one # 0
             /\ calls' = Append(calls, GalleryCall("delete", Deletion("one", {ui.dialog.one}), TRUE))
    <3>1. {ui.dialog.one} \in SUBSET Paths(c)
      BY <1>0, <2>1 DEF GalleryPages, GalleryDialogs
    <3>2. QED
      BY <2>1, <3>1
  <2>2. CASE /\ ui.dialog.mode # "none"
             /\ calls' = Append(calls, GalleryCall("delete", Deletion(ui.dialog.mode, ui.sel), FALSE))
    <3>1. ui.dialog.mode \in {"one", "selected", "filtered"} /\ ui.sel \in SUBSET Paths(c)
      BY <1>0, <2>2 DEF GalleryPages, GalleryDialogs
    <3>2. QED
      BY <2>2, <3>1
  <2>3. QED
    BY <2>1, <2>2 DEF confirmDelete
<1> DEFINE a == Deletion(mode, who)
           q == GalleryCall("delete", a, silent)
           items == {i \in DOMAIN ui.list : ui.tags => ui.list[i].tag}
           shown == IF mode = "filtered" THEN items ELSE who
<1>2. a = [mode |-> mode, who |-> who, tags |-> ui.tags, shown |-> shown,
           list |-> ui.list, of |-> ui.of, v |-> ui.v]
  BY DEF Deletion, filteredItems
<1>3. /\ ui.list \in ImageLists(c) /\ ui.of \in Filters /\ ui.v \in Int /\ ui.tags \in BOOLEAN
      /\ ui.owner \in Filters
  BY <1>0 DEF GalleryPages
<1>4. shown \in SUBSET Paths(c)
  <2>1. DOMAIN ui.list \in SUBSET Paths(c)
    BY <1>0, <1>3, ListValues
  <2>2. QED
    BY <2>1
<1> HIDE DEF a, shown
<1>5. a \in DeleteArgs(c)
  BY <1>2, <1>3, <1>4 DEF DeleteArgs
<1>6. /\ a.list = ui.list /\ a.of = ui.of /\ a.v = ui.v /\ a.tags = ui.tags /\ a.shown = shown
      /\ a.mode = mode /\ a.who = who
  BY <1>2
<1>7. NoImages \in ImageLists(c) /\ 0 \in Int
  BY <1>0, ListValues
<1>8. q \in GalleryDeletes(c) /\ q.arg = a /\ q.at = "sent"
  BY <1>3, <1>5, <1>7 DEF GalleryDeletes, GalleryAsks, GalleryCall
<1>9. GoodDelete(q, server)
  BY <1>0, <1>6, <1>8 DEF GoodDelete, shown
<1>10. q \in GoodGalleryRequests(server, c)
  BY <1>8, <1>9 DEF GoodGalleryRequests
<1>11. calls' \in Seq(GoodGalleryRequests(server, c))
  BY <1>0, <1>1, <1>10, AppendedSeq DEF a
<1>12. ui' = [ui EXCEPT !.deleting = TRUE]
  BY DEF confirmDelete
<1>13. QED
  BY <1>0, <1>11, <1>12 DEF GalleryPages

LEMMA UserClicks ==
  ASSUME GalleryInv, GalleryClicked
  PROVE  GalleryInv'
<1> DEFINE c == past.came
<1>0. /\ c \in BOOLEAN /\ calls \in Seq(GoodGalleryRequests(server, c))
      /\ ui \in GalleryPages(c) /\ ui.owner \in Filters
      /\ past' = Clicked /\ UNCHANGED <<page, mem, server>>
  BY DEF GalleryInv, GalleryClicked, GalleryPages
<1>f. ASSUME NEW l \in BOOLEAN, NEW t \in BOOLEAN, NEW o \in Filters
      PROVE  LET w == [ui EXCEPT !.owner = o, !.tags = t, !.loading = l]
             IN  w \in GalleryPages(c) /\ w.list = ui.list /\ w.of = ui.of /\ w.v = ui.v
  BY <1>0 DEF GalleryPages
<1>l. ASSUME NEW q \in GoodGalleryRequests(server, c), calls' = Append(calls, q)
      PROVE  calls' \in Seq(GoodGalleryRequests(server, c))
  BY <1>0, <1>l, AppendedSeq
<1>i. filteredItems \in SUBSET Paths(c)
  <2>1. ui.list \in ImageLists(c)
    BY <1>0 DEF GalleryPages
  <2>2. DOMAIN ui.list \in SUBSET Paths(c)
    BY <1>0, <2>1, ListValues
  <2>3. QED
    BY <2>2 DEF filteredItems
<1>1. CASE OwnerFilter
  <2>1. PICK o \in Owners \cup {""} :
          /\ ui' = [ui EXCEPT !.owner = o, !.loading = TRUE]
          /\ calls' = Append(calls, [GalleryCall("load", {}, FALSE) EXCEPT !.owner = o])
    BY <1>1 DEF OwnerFilter
  <2>2. o \in Filters
    BY DEF Filters
  <2>3. calls' \in Seq(GoodGalleryRequests(server, c))
    BY <1>0, <1>l, <2>1, <2>2, ReadGood
  <2>4. ui' \in GalleryPages(c) /\ ui'.list = ui.list /\ ui'.of = ui.of /\ ui'.v = ui.v
    BY <1>0, <2>1, <2>2 DEF GalleryPages
  <2>5. QED
    BY <1>0, <2>3, <2>4, GalleryClickFits
<1>2. CASE clearFilters
  <2> DEFINE l == ui.loading \/ ui.owner # ""
  <2>1. l \in BOOLEAN /\ ui' = [ui EXCEPT !.owner = "", !.tags = FALSE, !.loading = l]
    BY <1>2 DEF clearFilters
  <2>2. "" \in Filters
    BY DEF Filters
  <2>3. calls' \in Seq(GoodGalleryRequests(server, c))
    BY <1>0, <1>2, <1>l, <2>2, ReadGood DEF clearFilters
  <2> HIDE DEF l
  <2>4. ui' \in GalleryPages(c) /\ ui'.list = ui.list /\ ui'.of = ui.of /\ ui'.v = ui.v
    BY <1>0, <2>1, <2>2 DEF GalleryPages
  <2>5. QED
    BY <1>0, <2>3, <2>4, GalleryClickFits
<1>3. CASE QueryClicked
  <2>1. calls' \in Seq(GoodGalleryRequests(server, c))
    BY <1>0, <1>3, <1>l, ReadGood DEF QueryClicked
  <2>2. ui' \in GalleryPages(c) /\ ui'.list = ui.list /\ ui'.of = ui.of /\ ui'.v = ui.v
    BY <1>0, <1>3 DEF QueryClicked, GalleryPages
  <2>3. QED
    BY <1>0, <2>1, <2>2, GalleryClickFits
<1>4. CASE toggleFilterTag
  <2> DEFINE t == ~ui.tags
  <2>1. t \in BOOLEAN /\ ui' = [ui EXCEPT !.tags = t] /\ calls' = calls
    BY <1>4 DEF toggleFilterTag
  <2> HIDE DEF t
  <2>2. ui' \in GalleryPages(c) /\ ui'.list = ui.list /\ ui'.of = ui.of /\ ui'.v = ui.v
    BY <1>0, <2>1 DEF GalleryPages
  <2>3. QED
    BY <1>0, <2>1, <2>2, GalleryClickFits
<1>5. CASE togglePaths
  <2>1. PICK who \in {filteredItems} \cup {{j} : j \in filteredItems} :
          ui' = [ui EXCEPT !.sel = IF who \subseteq @ THEN @ \ who ELSE @ \cup who]
    BY <1>5 DEF togglePaths
  <2> DEFINE sel == IF who \subseteq ui.sel THEN ui.sel \ who ELSE ui.sel \cup who
  <2>2. sel \in SUBSET Paths(c)
    <3>1. who \in SUBSET Paths(c) /\ ui.sel \in SUBSET Paths(c)
      BY <1>0, <1>i DEF GalleryPages
    <3>2. QED
      BY <3>1
  <2>c. ui' = [ui EXCEPT !.sel = sel] /\ calls' = calls
    BY <1>5, <2>1 DEF togglePaths
  <2> HIDE DEF sel
  <2>3. ui' \in GalleryPages(c) /\ ui'.list = ui.list /\ ui'.of = ui.of /\ ui'.v = ui.v
    BY <1>0, <2>2, <2>c DEF GalleryPages
  <2>4. QED
    BY <1>0, <2>c, <2>3, GalleryClickFits
<1>6. CASE TagsEdited
  <2>1. ASSUME NEW op \in EditOps, NEW a \in EditArgs(c)
        PROVE  GalleryCall(op, a, FALSE) \in GoodGalleryRequests(server, c)
    <3>1. NoImages \in ImageLists(c) /\ 0 \in Int
      BY <1>0, ListValues
    <3>2. GalleryCall(op, a, FALSE) \in GalleryEdits(c) /\ GalleryCall(op, a, FALSE).at = "sent"
      BY <1>0, <3>1 DEF GalleryEdits, GalleryAsks, GalleryCall
    <3>3. QED
      BY <3>2 DEF GoodGalleryRequests, GoodEdit
  <2>2. ASSUME calls' = Append(calls, GalleryCall("untag", [who |-> {}, tag |-> FALSE], FALSE))
        PROVE  calls' \in Seq(GoodGalleryRequests(server, c))
    <3> DEFINE a == [who |-> {}, tag |-> FALSE]
    <3>1. a \in EditArgs(c) /\ "untag" \in EditOps
      BY DEF EditArgs, EditOps
    <3>2. calls' = Append(calls, GalleryCall("untag", a, FALSE))
      BY <2>2
    <3> HIDE DEF a
    <3>3. QED
      BY <1>l, <2>1, <3>1, <3>2
  <2>3. ASSUME NEW j \in filteredItems,
               calls' = Append(calls, GalleryCall("tag", [who |-> {j}, tag |-> ~ui.list[j].tag], FALSE))
        PROVE  calls' \in Seq(GoodGalleryRequests(server, c))
    <3> DEFINE t == ~ui.list[j].tag
    <3>1. t \in BOOLEAN /\ {j} \in SUBSET Paths(c) /\ "tag" \in EditOps
      BY <1>i DEF EditOps
    <3>2. calls' = Append(calls, GalleryCall("tag", [who |-> {j}, tag |-> t], FALSE))
      BY <2>3
    <3> HIDE DEF t
    <3>3. [who |-> {j}, tag |-> t] \in EditArgs(c)
      BY <3>1 DEF EditArgs
    <3>4. QED
      BY <1>l, <2>1, <3>1, <3>2, <3>3
  <2>4. calls' \in Seq(GoodGalleryRequests(server, c)) /\ ui' = ui
    <3>1. \/ \E j \in filteredItems :
               calls' = Append(calls, GalleryCall("tag", [who |-> {j}, tag |-> ~ui.list[j].tag], FALSE))
          \/ calls' = Append(calls, GalleryCall("untag", [who |-> {}, tag |-> FALSE], FALSE))
      BY <1>6 DEF TagsEdited
    <3>2. calls' \in Seq(GoodGalleryRequests(server, c))
      <4>1. CASE calls' = Append(calls, GalleryCall("untag", [who |-> {}, tag |-> FALSE], FALSE))
        BY <2>2, <4>1
      <4>2. CASE \E j \in filteredItems :
                   calls' = Append(calls, GalleryCall("tag", [who |-> {j}, tag |-> ~ui.list[j].tag], FALSE))
        <5>1. PICK j \in filteredItems :
                calls' = Append(calls, GalleryCall("tag", [who |-> {j}, tag |-> ~ui.list[j].tag], FALSE))
          BY <4>2
        <5>2. QED
          BY <2>3, <5>1
      <4>3. QED
        BY <3>1, <4>1, <4>2
    <3>3. QED
      BY <1>6, <3>2 DEF TagsEdited
  <2>5. QED
    BY <1>0, <2>4, GalleryClickFits
<1>7. CASE DialogOpened
  <2>1. PICK d \in GalleryDialogs(c) : ui' = [ui EXCEPT !.dialog = d]
    <3>0. ui.dialog \in GalleryDialogs(c)
      BY <1>0 DEF GalleryPages
    <3>1. ASSUME NEW j \in filteredItems, ui' = [ui EXCEPT !.dialog.one = j]
          PROVE  \E d \in GalleryDialogs(c) : ui' = [ui EXCEPT !.dialog = d]
      <4>1. [ui.dialog EXCEPT !.one = j] \in GalleryDialogs(c)
        BY <1>i, <3>0 DEF GalleryDialogs
      <4>2. QED
        BY <3>1, <4>1
    <3>2. ASSUME NEW m \in {"selected", "filtered"}, ui' = [ui EXCEPT !.dialog.mode = m]
          PROVE  \E d \in GalleryDialogs(c) : ui' = [ui EXCEPT !.dialog = d]
      <4>1. [ui.dialog EXCEPT !.mode = m] \in GalleryDialogs(c)
        BY <3>0 DEF GalleryDialogs
      <4>2. QED
        BY <3>2, <4>1
    <3>3. QED
      BY <1>7, <3>1, <3>2 DEF DialogOpened
  <2>2. ui' \in GalleryPages(c) /\ ui'.list = ui.list /\ ui'.of = ui.of /\ ui'.v = ui.v
    BY <1>0, <2>1 DEF GalleryPages
  <2>3. calls' = calls
    BY <1>7 DEF DialogOpened
  <2>4. QED
    BY <1>0, <2>2, <2>3, GalleryClickFits
<1>8. CASE DialogClosed
  <2>1. NoGalleryDialog \in GalleryDialogs(c)
    BY DEF NoGalleryDialog, GalleryDialogs
  <2>2. ui' \in GalleryPages(c) /\ ui'.list = ui.list /\ ui'.of = ui.of /\ ui'.v = ui.v
    BY <1>0, <1>8, <2>1 DEF DialogClosed, GalleryPages
  <2>3. calls' = calls
    BY <1>8 DEF DialogClosed
  <2>4. QED
    BY <1>0, <2>2, <2>3, GalleryClickFits
<1>9. CASE confirmDelete
  BY <1>0, <1>9, UserDeletes, GalleryClickFits
<1>10. QED
  BY <1>1, <1>2, <1>3, <1>4, <1>5, <1>6, <1>7, <1>8, <1>9 DEF GalleryClicked

LEMMA GalleryStep == GalleryInv /\ GalleryNext => GalleryInv'
<1> SUFFICES ASSUME GalleryInv, GalleryNext PROVE GalleryInv'
  OBVIOUS
<1> DEFINE c == past.came
<1>0. /\ c \in BOOLEAN /\ calls \in Seq(GoodGalleryRequests(server, c))
      /\ ui \in GalleryPages(c) /\ ui.owner \in Filters
      /\ mem \in GalleryCaches(c) /\ FitsServer(mem.list, mem.of, mem.v, server)
      /\ mem.hit \in BOOLEAN /\ mem.owner \in Filters
      /\ past \in [clicks : Int, came : BOOLEAN, hit : {"none", "mixed"}]
  BY DEF GalleryInv, GalleryPages, GalleryCaches
<1>c. Clicked \in [clicks : Int, came : BOOLEAN, hit : {"none", "mixed"}] /\ Clicked.came = c
  BY <1>0 DEF Clicked
<1>1. CASE GalleryOpened
  <2>1. [GalleryCall("load", {}, mem.hit) EXCEPT !.owner = mem.owner] \in GoodGalleryRequests(server, c)
    BY <1>0, ReadGood
  <2>2. calls' \in Seq(GoodGalleryRequests(server, c))
    BY <1>0, <1>1, <2>1, AppendedSeq DEF GalleryOpened
  <2>3. /\ ui' \in GalleryPages(c)
        /\ ui'.list = mem.list /\ ui'.of = mem.of /\ ui'.v = mem.v
    BY <1>0, <1>1, GalleryMountedFits DEF GalleryOpened
  <2>4. QED
    BY <1>0, <1>c, <1>1, <2>2, <2>3, GalleryStays DEF GalleryOpened
<1>2. CASE GalleryLeft
  <2>1. calls' \in Seq(GoodGalleryRequests(server, c))
    <3>1. \A i \in DOMAIN calls : [calls[i] EXCEPT !.mine = FALSE] \in GoodGalleryRequests(server, c)
      BY <1>0, CallOfSeq, RequestKept
    <3>2. QED
      BY <1>0, <1>2, <3>1, ReshapedSeq DEF GalleryLeft
  <2>2. /\ ui' \in GalleryPages(c)
        /\ ui'.list = mem.list /\ ui'.of = mem.of /\ ui'.v = mem.v
    BY <1>0, <1>2, GalleryMountedFits DEF GalleryLeft
  <2>3. QED
    BY <1>0, <1>c, <1>2, <2>1, <2>2, GalleryStays DEF GalleryLeft
<1>3. CASE GalleryRead
  BY <1>3, ServerReads
<1>4. CASE DeleteServed
  BY <1>4, ServerDeletes
<1>5. CASE TagServed
  BY <1>5, ServerTags
<1>6. CASE GalleryFails
  <2>1. PICK i \in DOMAIN calls : calls' = Failed(i)
    BY <1>6 DEF GalleryFails
  <2>2. [calls[i] EXCEPT !.at = "failed"] \in GoodGalleryRequests(server, c)
    BY <1>0, CallOfSeq, RequestKept
  <2>3. calls' = [calls EXCEPT ![i] = [calls[i] EXCEPT !.at = "failed"]]
    BY <2>1 DEF Failed
  <2>4. calls' \in Seq(GoodGalleryRequests(server, c))
    BY <1>0, <2>2, <2>3, ChangedSeq
  <2>5. QED
    BY <1>0, <1>6, <2>4, GalleryClickFits DEF GalleryFails
<1>7. CASE ImageAppears
  BY <1>7, ServerGrows
<1>8. CASE loadImages
  BY <1>8, PageReads
<1>9. CASE handleDelete
  BY <1>9, PageDeletes
<1>10. CASE handleSetTags
  BY <1>10, PageTags
<1>11. CASE GalleryClicked
  BY <1>11, UserClicks
<1>12. QED
  BY <1>1, <1>2, <1>3, <1>4, <1>5, <1>6, <1>7, <1>8, <1>9, <1>10, <1>11 DEF GalleryNext
-----------------------------------------------------------------------------
(* The settings page.                                                      *)

Forms == [minutes : Int, protect : BOOLEAN, proxy : {"", Blank, "p"}]
CleanForms == {f \in Forms : f.minutes # 0}

SettingsAsks(ops, args, data) ==
  [op : ops, arg : args, at : {"sent", "ok", "failed"}, data : data \cup {"none"}]

FormReads == SettingsAsks({"load", "revert"}, [silent : BOOLEAN, crossed : BOOLEAN], CleanForms)
FormSaves == SettingsAsks({"save"}, CleanForms, CleanForms)
ProxyTests == SettingsAsks({"test"}, {"p"}, {"ok", "bad"})

(* CleanFormIsServed is not inductive: what a read brings that no save has *)
(* overlapped, and what a save brings, must be what the server stores.     *)
GoodSettingsRequests(s) ==
  {q \in FormReads : q.at = "ok" => q.data \in CleanForms /\ (~q.arg.crossed => q.data = s)}
    \cup {q \in FormSaves : q.at = "ok" => q.data = s}
    \cup ProxyTests

(* While a save is on the way every read on the way knows it is crossed.   *)
ReadsCrossed(cs) ==
  \A i, j \in DOMAIN cs : cs[i] \in FormSaves /\ cs[j] \in FormReads => cs[j].arg.crossed

SettingsInv ==
  /\ page = "settings"
  /\ mem \in [config : Forms, loading : BOOLEAN, saving : BOOLEAN, dirty : BOOLEAN]
  /\ ui \in [open : BOOLEAN, testing : BOOLEAN, result : {"none", "ok", "bad"}]
  /\ server \in CleanForms
  /\ past \in [edits : Int, clicks : Int, crossed : BOOLEAN]
  /\ calls \in Seq(GoodSettingsRequests(server))
  /\ AtMostOne(calls, FormSaves) /\ ReadsCrossed(calls)
  /\ mem.saving \/ NoneOf(calls, FormSaves)
  /\ NoneOf(calls, FormSaves) \/ mem.dirty \/ past.crossed
  /\ mem.config = Unloaded \/ mem.dirty \/ past.crossed \/ mem.config = server

LEMMA CleanStays ==
  ASSUME NEW f \in CleanForms
  PROVE  normalizeConfig(f) = f /\ f \in Forms
<1>1. f.minutes # 0 /\ f \in Forms
  BY DEF CleanForms
<1>2. normalizeConfig(f) = [f EXCEPT !.minutes = f.minutes]
  BY <1>1 DEF normalizeConfig
<1>3. QED
  BY <1>1, <1>2 DEF Forms

LEMMA SanitizedClean ==
  ASSUME NEW f \in Forms
  PROVE  Sanitized(f) \in CleanForms
<1> DEFINE n == IF f.minutes = 0 THEN Minutes ELSE f.minutes
           g == [f EXCEPT !.minutes = n]
           p == IF g.proxy = Blank THEN "p" ELSE g.proxy
<1>1. n \in Int /\ n # 0
  <2>1. f.minutes \in Int
    BY DEF Forms
  <2>2. QED
    BY <2>1, 60 \in Int DEF Minutes
<1>2. normalizeConfig(f) = g
  BY DEF normalizeConfig
<1> HIDE DEF n
<1>3. g \in Forms /\ g.minutes = n
  BY <1>1 DEF Forms
<1>4. Sanitized(f) = [g EXCEPT !.proxy = p]
  BY <1>2 DEF Sanitized
<1> HIDE DEF g
<1>5. p \in {"", Blank, "p"}
  BY <1>3 DEF Forms
<1> HIDE DEF p
<1>6. Sanitized(f) \in Forms /\ Sanitized(f).minutes = n
  BY <1>3, <1>4, <1>5 DEF Forms
<1>7. QED
  BY <1>1, <1>6 DEF CleanForms

LEMMA SettingsOps ==
  ASSUME NEW s, NEW q \in GoodSettingsRequests(s)
  PROVE  /\ q.op \in {"load", "revert"} => q \in FormReads /\ q \notin FormSaves
         /\ q.op = "save" => q \in FormSaves /\ q \notin FormReads
         /\ q.op = "test" => q \in ProxyTests /\ q \notin FormSaves /\ q \notin FormReads
         /\ q \in FormSaves => q.op = "save"
         /\ q \in FormReads => q.op \in {"load", "revert"}
BY DEF GoodSettingsRequests, FormReads, FormSaves, ProxyTests, SettingsAsks

(* What is on the way when one request is done with, or one is sent.       *)
LEMMA SettingsDropped ==
  ASSUME calls \in Seq(GoodSettingsRequests(server)), AtMostOne(calls, FormSaves),
         ReadsCrossed(calls), NEW i \in DOMAIN calls
  PROVE  /\ RemoveAt(calls, i) \in Seq(GoodSettingsRequests(server))
         /\ AtMostOne(RemoveAt(calls, i), FormSaves) /\ ReadsCrossed(RemoveAt(calls, i))
         /\ calls[i] \in FormSaves => NoneOf(RemoveAt(calls, i), FormSaves)
         /\ NoneOf(calls, FormSaves) => NoneOf(RemoveAt(calls, i), FormSaves)
<1>1. \A j \in DOMAIN RemoveAt(calls, i) :
        /\ j \in DOMAIN calls /\ j + 1 \in DOMAIN calls
        /\ RemoveAt(calls, i)[j] = IF j < i THEN calls[j] ELSE calls[j + 1]
  BY RemovedSeq
<1>2. ReadsCrossed(RemoveAt(calls, i))
  BY <1>1 DEF ReadsCrossed
<1>3. QED
  BY <1>2, RemovedSeq, OneRemoved

LEMMA SettingsSent ==
  ASSUME NEW s, NEW cs \in Seq(GoodSettingsRequests(s)), AtMostOne(cs, FormSaves), ReadsCrossed(cs),
         NEW q \in GoodSettingsRequests(s),
         q \in FormSaves => NoneOf(cs, FormSaves)
                        /\ \A j \in DOMAIN cs : cs[j] \in FormReads => cs[j].arg.crossed,
         q \in FormReads => NoneOf(cs, FormSaves) \/ q.arg.crossed
  PROVE  /\ Append(cs, q) \in Seq(GoodSettingsRequests(s))
         /\ AtMostOne(Append(cs, q), FormSaves) /\ ReadsCrossed(Append(cs, q))
         /\ q \notin FormSaves /\ NoneOf(cs, FormSaves) => NoneOf(Append(cs, q), FormSaves)
<1>1. /\ DOMAIN Append(cs, q) = 1 .. Len(cs) + 1 /\ DOMAIN cs = 1 .. Len(cs) /\ Len(cs) \in Nat
      /\ \A j \in DOMAIN cs : Append(cs, q)[j] = cs[j]
      /\ Append(cs, q)[Len(cs) + 1] = q
  BY AppendedSeq
<1>2. \A j \in DOMAIN Append(cs, q) : j \in DOMAIN cs \/ Append(cs, q)[j] = q
  BY <1>1
<1>3. ~(q \in FormSaves /\ q \in FormReads)
  BY SettingsOps
<1>4. ReadsCrossed(Append(cs, q))
  BY <1>1, <1>2, <1>3 DEF ReadsCrossed, NoneOf
<1>5. QED
  BY <1>4, AppendedSeq, OneAppended

(* An answer changes neither what a request is nor whether it is crossed.  *)
LEMMA SettingsAnswered ==
  ASSUME NEW s, NEW t, calls \in Seq(GoodSettingsRequests(s)), AtMostOne(calls, FormSaves),
         ReadsCrossed(calls), NEW i \in DOMAIN calls, NEW q \in GoodSettingsRequests(t),
         q.op = calls[i].op, q.arg = calls[i].arg,
         calls \in Seq(GoodSettingsRequests(t)),
         calls' = [calls EXCEPT ![i] = q]
  PROVE  /\ calls' \in Seq(GoodSettingsRequests(t))
         /\ AtMostOne(calls', FormSaves) /\ ReadsCrossed(calls')
         /\ NoneOf(calls, FormSaves) => NoneOf(calls', FormSaves)
<1>1. DOMAIN calls' = DOMAIN calls /\ \A j \in DOMAIN calls : calls'[j] = IF j = i THEN q ELSE calls[j]
  OBVIOUS
<1>2. calls[i] \in GoodSettingsRequests(s)
  BY CallOfSeq
<1>3. (q \in FormSaves => calls[i] \in FormSaves) /\ (q \in FormReads => calls[i] \in FormReads)
  BY <1>2, SettingsOps
<1>4. \A j \in DOMAIN calls : /\ calls'[j] \in FormSaves => calls[j] \in FormSaves
                              /\ calls'[j] \in FormReads => calls[j] \in FormReads
                              /\ calls'[j].arg = calls[j].arg
  BY <1>1, <1>3
<1>5. ReadsCrossed(calls')
  BY <1>1, <1>4 DEF ReadsCrossed
<1>6. QED
  BY <1>1, <1>4, <1>5, ChangedSeq, OneReshaped

LEMMA SettingsInitInv == SettingsInit => SettingsInv
<1> SUFFICES ASSUME SettingsInit PROVE SettingsInv
  OBVIOUS
<1>1. /\ page = "settings" /\ calls = <<>>
      /\ mem = [config |-> Unloaded, loading |-> TRUE, saving |-> FALSE, dirty |-> FALSE]
      /\ ui = [open |-> FALSE, testing |-> FALSE, result |-> "none"]
      /\ server = [minutes |-> 5, protect |-> TRUE, proxy |-> "p"]
      /\ past = [edits |-> 0, clicks |-> 0, crossed |-> FALSE]
  BY DEF SettingsInit
<1>2. Unloaded \in Forms
  BY -1 \in Int DEF Unloaded, Forms
<1>3. mem \in [config : Forms, loading : BOOLEAN, saving : BOOLEAN, dirty : BOOLEAN]
  BY <1>1, <1>2
<1>4. mem.config = Unloaded
  BY <1>1
<1>5. server \in CleanForms
  BY <1>1 DEF CleanForms, Forms
<1>6. calls \in Seq(GoodSettingsRequests(server)) /\ DOMAIN calls = {}
  BY <1>1
<1>7. ui \in [open : BOOLEAN, testing : BOOLEAN, result : {"none", "ok", "bad"}]
  BY <1>1
<1>8. past \in [edits : Int, clicks : Int, crossed : BOOLEAN]
  BY <1>1
<1>9. QED
  BY <1>1, <1>3, <1>4, <1>5, <1>6, <1>7, <1>8 DEF SettingsInv, AtMostOne, NoneOf, ReadsCrossed

(* A form that the server's answer fills in, or not.                       *)
LEMMA FormAnswered ==
  ASSUME SettingsInv, loadConfig \/ revertConfig
  PROVE  SettingsInv'
<1>0. /\ mem \in [config : Forms, loading : BOOLEAN, saving : BOOLEAN, dirty : BOOLEAN]
      /\ past \in [edits : Int, clicks : Int, crossed : BOOLEAN]
      /\ calls \in Seq(GoodSettingsRequests(server))
      /\ AtMostOne(calls, FormSaves) /\ ReadsCrossed(calls)
  BY DEF SettingsInv
<1>1. PICK i \in Arrived("load") \cup Arrived("revert"), l \in BOOLEAN :
        /\ calls' = Dropped(i)
        /\ \/ /\ SettingsShown(i)
              /\ mem' = [mem EXCEPT !.config = normalizeConfig(calls[i].data), !.dirty = FALSE,
                                    !.loading = l]
           \/ mem' = [mem EXCEPT !.loading = l] /\ past' = past
  <2>1. CASE loadConfig
    <3>1. PICK i \in Arrived("load") :
            /\ calls' = Dropped(i)
            /\ \/ /\ SettingsShown(i)
                  /\ mem' = [mem EXCEPT !.config = normalizeConfig(calls[i].data), !.dirty = FALSE,
                                        !.loading = @ /\ calls[i].arg.silent]
               \/ /\ mem' = [mem EXCEPT !.loading = @ /\ calls[i].arg.silent]
                  /\ past' = past
      BY <2>1 DEF loadConfig
    <3> DEFINE l == mem.loading /\ calls[i].arg.silent
    <3>2. l \in BOOLEAN
      OBVIOUS
    <3>3. \/ /\ SettingsShown(i)
             /\ mem' = [mem EXCEPT !.config = normalizeConfig(calls[i].data), !.dirty = FALSE,
                                   !.loading = l]
          \/ mem' = [mem EXCEPT !.loading = l] /\ past' = past
      BY <3>1
    <3> HIDE DEF l
    <3>4. QED
      BY <3>1, <3>2, <3>3
  <2>2. CASE revertConfig
    <3>1. PICK i \in Arrived("revert") :
            /\ calls' = Dropped(i)
            /\ \/ /\ SettingsShown(i)
                  /\ mem' = [mem EXCEPT !.config = normalizeConfig(calls[i].data), !.dirty = FALSE]
               \/ mem' = mem /\ past' = past
      BY <2>2 DEF revertConfig
    <3>2. mem.loading \in BOOLEAN /\ mem = [mem EXCEPT !.loading = mem.loading]
      BY <1>0
    <3>3. [mem EXCEPT !.config = normalizeConfig(calls[i].data), !.dirty = FALSE]
            = [mem EXCEPT !.config = normalizeConfig(calls[i].data), !.dirty = FALSE,
                          !.loading = mem.loading]
      BY <1>0
    <3>4. QED
      BY <3>1, <3>2, <3>3
  <2>3. QED
    BY <2>1, <2>2
<1> DEFINE q == calls[i]
<1>2. i \in DOMAIN calls /\ q.op \in {"load", "revert"} /\ q \in GoodSettingsRequests(server)
  BY <1>0, CallOfSeq DEF Arrived, Pending
<1>3. q \in FormReads /\ q \notin FormSaves
  BY <1>2, SettingsOps
<1>4. /\ calls' \in Seq(GoodSettingsRequests(server))
      /\ AtMostOne(calls', FormSaves) /\ ReadsCrossed(calls')
      /\ NoneOf(calls, FormSaves) => NoneOf(calls', FormSaves)
  BY <1>0, <1>1, <1>2, SettingsDropped DEF Dropped
<1>5. UNCHANGED <<page, ui, server>>
  BY DEF loadConfig, revertConfig
<1>6. CASE /\ SettingsShown(i)
           /\ mem' = [mem EXCEPT !.config = normalizeConfig(q.data), !.dirty = FALSE,
                                 !.loading = l]
  <2>1. q.at = "ok" /\ past' = [past EXCEPT !.crossed = q.arg.crossed]
    BY <1>6 DEF SettingsShown
  <2>2. q.data \in CleanForms /\ (~q.arg.crossed => q.data = server) /\ q.arg.crossed \in BOOLEAN
    BY <1>2, <1>3, <2>1 DEF GoodSettingsRequests, FormReads, FormSaves, ProxyTests, SettingsAsks
  <2>3. normalizeConfig(q.data) = q.data /\ q.data \in Forms
    BY <2>2, CleanStays
  <2>4. past' \in [edits : Int, clicks : Int, crossed : BOOLEAN] /\ past'.crossed = q.arg.crossed
    BY <1>0, <2>1, <2>2
  <2>5. /\ mem' \in [config : Forms, loading : BOOLEAN, saving : BOOLEAN, dirty : BOOLEAN]
        /\ mem'.config = q.data /\ mem'.saving = mem.saving
    BY <1>0, <1>6, <2>3
  <2>6. NoneOf(calls, FormSaves) \/ q.arg.crossed
    BY <1>0, <1>2, <1>3 DEF ReadsCrossed, NoneOf
  <2>7. QED
    BY <1>4, <1>5, <2>2, <2>4, <2>5, <2>6 DEF SettingsInv
<1>7. CASE mem' = [mem EXCEPT !.loading = l] /\ past' = past
  <2>1. /\ mem' \in [config : Forms, loading : BOOLEAN, saving : BOOLEAN, dirty : BOOLEAN]
        /\ mem'.config = mem.config /\ mem'.saving = mem.saving /\ mem'.dirty = mem.dirty
    BY <1>0, <1>7
  <2>2. QED
    BY <1>4, <1>5, <1>7, <2>1 DEF SettingsInv
<1>8. QED
  BY <1>1, <1>6, <1>7

LEMMA SaveAnswered ==
  ASSUME SettingsInv, saveConfig
  PROVE  SettingsInv'
<1>0. /\ mem \in [config : Forms, loading : BOOLEAN, saving : BOOLEAN, dirty : BOOLEAN]
      /\ past \in [edits : Int, clicks : Int, crossed : BOOLEAN]
      /\ calls \in Seq(GoodSettingsRequests(server)) /\ server \in CleanForms
      /\ AtMostOne(calls, FormSaves) /\ ReadsCrossed(calls)
  BY DEF SettingsInv
<1>1. PICK i \in Arrived("save") :
        /\ calls' = Dropped(i)
        /\ mem' = IF calls[i].at = "ok"
                    THEN [mem EXCEPT !.config = normalizeConfig(calls[i].data),
                                     !.dirty = FALSE, !.saving = FALSE]
                  ELSE [mem EXCEPT !.saving = FALSE]
        /\ past' = [past EXCEPT !.crossed = @ /\ calls[i].at = "failed"]
  BY DEF saveConfig
<1> DEFINE q == calls[i]
           crossed == past.crossed /\ q.at = "failed"
<1>2. i \in DOMAIN calls /\ q.op = "save" /\ q.at # "sent" /\ q \in GoodSettingsRequests(server)
  BY <1>0, CallOfSeq DEF Arrived, Pending
<1>3. q \in FormSaves
  BY <1>2, SettingsOps
<1>4. /\ calls' \in Seq(GoodSettingsRequests(server))
      /\ AtMostOne(calls', FormSaves) /\ ReadsCrossed(calls')
      /\ NoneOf(calls', FormSaves)
  BY <1>0, <1>1, <1>2, <1>3, SettingsDropped DEF Dropped
<1>5. UNCHANGED <<page, ui, server>>
  BY DEF saveConfig
<1>6. crossed \in BOOLEAN /\ past' = [past EXCEPT !.crossed = crossed]
  BY <1>1
<1>7. ~NoneOf(calls, FormSaves)
  BY <1>2, <1>3 DEF NoneOf
<1>8. q.at = "ok" => q.data = server
  BY <1>2, <1>3 DEF GoodSettingsRequests, FormReads, FormSaves, ProxyTests, SettingsAsks
<1>9. q.at \in {"ok", "failed"}
  BY <1>2, <1>3 DEF FormSaves, SettingsAsks
<1>10. q.at = "failed" => crossed = past.crossed
  BY <1>0
<1> HIDE DEF crossed
<1>11. past' \in [edits : Int, clicks : Int, crossed : BOOLEAN] /\ past'.crossed = crossed
  BY <1>0, <1>6
<1>12. CASE q.at = "ok"
  <2>1. mem' = [mem EXCEPT !.config = server, !.dirty = FALSE, !.saving = FALSE]
    BY <1>0, <1>1, <1>8, <1>12, CleanStays
  <2>2. /\ mem' \in [config : Forms, loading : BOOLEAN, saving : BOOLEAN, dirty : BOOLEAN]
        /\ mem'.config = server
    BY <1>0, <2>1, CleanStays
  <2>3. QED
    BY <1>0, <1>4, <1>5, <1>11, <2>2 DEF SettingsInv
<1>13. CASE q.at = "failed"
  <2>1. /\ mem' \in [config : Forms, loading : BOOLEAN, saving : BOOLEAN, dirty : BOOLEAN]
        /\ mem'.config = mem.config /\ mem'.dirty = mem.dirty
    BY <1>0, <1>1, <1>13
  <2>2. mem.dirty \/ past.crossed
    BY <1>7 DEF SettingsInv
  <2>3. QED
    BY <1>4, <1>5, <1>10, <1>11, <1>13, <2>1, <2>2 DEF SettingsInv
<1>14. QED
  BY <1>9, <1>12, <1>13

(* A save the server carries out, whatever the page is told of it.         *)
LEMMA SaveDone ==
  ASSUME SettingsInv, NEW i \in DOMAIN calls, calls[i].op = "save", server' = calls[i].arg,
         NEW q, q.op = "save", q.arg = calls[i].arg, q \in FormSaves,
         q.at = "ok" => q.data = calls[i].arg,
         calls' = [calls EXCEPT ![i] = q], UNCHANGED <<page, ui, mem>>,
         past' \in [edits : Int, clicks : Int, crossed : BOOLEAN], past'.crossed = past.crossed
  PROVE  SettingsInv'
<1>0. /\ calls \in Seq(GoodSettingsRequests(server)) /\ server \in CleanForms
      /\ AtMostOne(calls, FormSaves) /\ ReadsCrossed(calls)
  BY DEF SettingsInv
<1>1. calls[i] \in FormSaves /\ calls[i] \in GoodSettingsRequests(server)
  BY <1>0, CallOfSeq, SettingsOps
<1>2. server' \in CleanForms
  BY <1>1 DEF FormSaves, SettingsAsks
<1>3. ~NoneOf(calls, FormSaves)
  BY <1>1 DEF NoneOf
<1>4. q \in GoodSettingsRequests(server')
  BY DEF GoodSettingsRequests
<1>5. \A j \in DOMAIN calls' : calls'[j] \in GoodSettingsRequests(server')
  <2>1. SUFFICES ASSUME NEW j \in DOMAIN calls, j # i
                 PROVE  calls[j] \in GoodSettingsRequests(server')
    BY <1>4
  <2>2. calls[j] \in GoodSettingsRequests(server)
    BY <1>0, CallOfSeq
  <2>3. calls[j] \notin FormSaves
    BY <1>0, <1>1, <2>1 DEF AtMostOne
  <2>4. calls[j] \in FormReads => calls[j].arg.crossed
    BY <1>0, <1>1 DEF ReadsCrossed
  <2>5. QED
    BY <2>2, <2>3, <2>4 DEF GoodSettingsRequests
<1>6. calls' \in Seq(GoodSettingsRequests(server'))
  BY <1>0, <1>5, ReshapedSeq
<1>7. AtMostOne(calls', FormSaves) /\ ReadsCrossed(calls')
  <2>1. \A j \in DOMAIN calls : /\ calls'[j] \in FormSaves => calls[j] \in FormSaves
                                /\ calls'[j] \in FormReads => calls[j] \in FormReads
                                /\ calls'[j].arg = calls[j].arg
    BY <1>1, <1>4, SettingsOps
  <2>2. DOMAIN calls' = DOMAIN calls
    OBVIOUS
  <2>3. ReadsCrossed(calls')
    BY <1>0, <2>1, <2>2 DEF ReadsCrossed
  <2>4. QED
    BY <1>0, <2>1, <2>2, <2>3, OneReshaped
<1>8. mem.saving /\ (mem.dirty \/ past.crossed)
  BY <1>3 DEF SettingsInv
<1>9. QED
  BY <1>2, <1>6, <1>7, <1>8 DEF SettingsInv

(* A click that saves or reads, and one that reads the proxy's test.       *)
LEMMA SettingsStays ==
  ASSUME SettingsInv, UNCHANGED <<page, server>>,
         ui' \in [open : BOOLEAN, testing : BOOLEAN, result : {"none", "ok", "bad"}],
         mem' \in [config : Forms, loading : BOOLEAN, saving : BOOLEAN, dirty : BOOLEAN],
         mem'.config = mem.config \/ mem'.dirty, mem.dirty => mem'.dirty, mem.saving => mem'.saving,
         past' \in [edits : Int, clicks : Int, crossed : BOOLEAN], past'.crossed = past.crossed,
         calls' \in Seq(GoodSettingsRequests(server)), AtMostOne(calls', FormSaves),
         ReadsCrossed(calls'),
         (mem'.saving /\ mem'.dirty) \/ (NoneOf(calls, FormSaves) => NoneOf(calls', FormSaves))
  PROVE  SettingsInv'
BY DEF SettingsInv

LEMMA SaveBarClicked ==
  ASSUME SettingsInv, FloatingSaveBar
  PROVE  SettingsInv'
<1>0. /\ mem \in [config : Forms, loading : BOOLEAN, saving : BOOLEAN, dirty : BOOLEAN]
      /\ past \in [edits : Int, clicks : Int, crossed : BOOLEAN]
      /\ calls \in Seq(GoodSettingsRequests(server))
      /\ AtMostOne(calls, FormSaves) /\ ReadsCrossed(calls)
      /\ ui \in [open : BOOLEAN, testing : BOOLEAN, result : {"none", "ok", "bad"}]
  BY DEF SettingsInv
<1>1. /\ NoneOf(calls, FormSaves) /\ mem.dirty /\ ~mem.saving /\ UNCHANGED <<page, server>>
      /\ SaveClicked \/ RevertClicked
  BY DEF FloatingSaveBar, SettingsInv
<1>c. Clicked \in [edits : Int, clicks : Int, crossed : BOOLEAN] /\ Clicked.crossed = past.crossed
  BY <1>0 DEF Clicked
<1>q. ASSUME NEW i \in DOMAIN calls
      PROVE  calls[i] \in GoodSettingsRequests(server) /\ calls[i] \notin FormSaves
  BY <1>0, <1>1, CallOfSeq DEF NoneOf
<1>2. CASE SaveClicked
  <2> DEFINE cs == [i \in DOMAIN calls |->
                      IF i \in Reads THEN [calls[i] EXCEPT !.arg.crossed = TRUE] ELSE calls[i]]
             q == Request("save", Sanitized(mem.config))
  <2>1. calls' = Append(cs, q) /\ mem' = [mem EXCEPT !.saving = TRUE] /\ past' = Clicked /\ ui' = ui
    BY <1>2 DEF SaveClicked
  <2>2. ASSUME NEW i \in DOMAIN calls
        PROVE  /\ cs[i] \in GoodSettingsRequests(server) /\ cs[i] \notin FormSaves
               /\ cs[i] \in FormReads => cs[i].arg.crossed
    <3>1. CASE i \in Reads
      <4> DEFINE a == [calls[i].arg EXCEPT !.crossed = TRUE]
      <4>1. calls[i].op \in {"load", "revert"}
        BY <3>1 DEF Reads, Pending
      <4>2. calls[i] \in FormReads
        BY <1>q, <4>1, SettingsOps
      <4>3. cs[i] = [calls[i] EXCEPT !.arg = a]
        BY <3>1
      <4>4. a \in [silent : BOOLEAN, crossed : BOOLEAN] /\ a.crossed
        BY <4>2 DEF FormReads, SettingsAsks
      <4> HIDE DEF a, cs
      <4>5. /\ cs[i] \in FormReads /\ cs[i].arg = a
            /\ cs[i].at = calls[i].at /\ cs[i].data = calls[i].data
        BY <4>2, <4>3, <4>4 DEF FormReads, SettingsAsks
      <4>6. calls[i].at = "ok" => calls[i].data \in CleanForms
        BY <1>q, <4>2 DEF GoodSettingsRequests, FormReads, FormSaves, ProxyTests, SettingsAsks
      <4>7. cs[i] \in GoodSettingsRequests(server)
        BY <4>4, <4>5, <4>6 DEF GoodSettingsRequests
      <4>8. cs[i] \notin FormSaves
        BY <4>5 DEF FormReads, FormSaves, SettingsAsks
      <4>9. QED
        BY <4>4, <4>5, <4>7, <4>8
    <3>2. CASE i \notin Reads
      <4>1. cs[i] = calls[i] /\ calls[i].op \notin {"load", "revert"}
        BY <3>2 DEF Reads, Pending
      <4>2. QED
        BY <1>q, <4>1, SettingsOps
    <3>3. QED
      BY <3>1, <3>2
  <2>3. DOMAIN cs = DOMAIN calls /\ cs = [i \in DOMAIN calls |-> cs[i]]
    OBVIOUS
  <2> HIDE DEF cs
  <2>4. cs \in Seq(GoodSettingsRequests(server)) /\ NoneOf(cs, FormSaves)
    BY <1>0, <2>2, <2>3, ReshapedSeq DEF NoneOf
  <2>5. AtMostOne(cs, FormSaves) /\ ReadsCrossed(cs)
    BY <2>4 DEF AtMostOne, ReadsCrossed, NoneOf
  <2>6. q \in FormSaves /\ q.at = "sent"
    <3>1. Sanitized(mem.config) \in CleanForms
      BY <1>0, SanitizedClean
    <3>2. QED
      BY <3>1 DEF FormSaves, SettingsAsks, Request
  <2>7. q \in GoodSettingsRequests(server) /\ q \notin FormReads
    BY <2>6 DEF GoodSettingsRequests, FormSaves, FormReads, SettingsAsks
  <2> HIDE DEF q
  <2>8. /\ calls' \in Seq(GoodSettingsRequests(server))
        /\ AtMostOne(calls', FormSaves) /\ ReadsCrossed(calls')
    BY <2>1, <2>2, <2>3, <2>4, <2>5, <2>7, SettingsSent
  <2>9. /\ mem' \in [config : Forms, loading : BOOLEAN, saving : BOOLEAN, dirty : BOOLEAN]
        /\ mem'.config = mem.config /\ mem'.saving /\ mem'.dirty = mem.dirty
    BY <1>0, <2>1
  <2>10. QED
    BY <1>0, <1>1, <1>c, <2>1, <2>8, <2>9, SettingsStays
<1>3. CASE RevertClicked
  <2> DEFINE b == Pending("save") # {}
             q == Request("revert", [silent |-> FALSE, crossed |-> b])
  <2>1. calls' = Append(calls, q) /\ past' = Clicked /\ UNCHANGED <<ui, mem>>
    BY <1>3 DEF RevertClicked, Sent, Read
  <2>2. b \in BOOLEAN
    OBVIOUS
  <2> HIDE DEF b
  <2>3. q \in FormReads /\ q.at = "sent"
    BY <2>2 DEF FormReads, SettingsAsks, Request
  <2>4. q \in GoodSettingsRequests(server) /\ q \notin FormSaves
    BY <2>3 DEF GoodSettingsRequests, FormReads, FormSaves, SettingsAsks
  <2> HIDE DEF q
  <2>5. /\ calls' \in Seq(GoodSettingsRequests(server))
        /\ AtMostOne(calls', FormSaves) /\ ReadsCrossed(calls') /\ NoneOf(calls', FormSaves)
    BY <1>0, <1>1, <2>1, <2>4, SettingsSent
  <2>6. QED
    BY <1>0, <1>1, <1>c, <2>1, <2>5, SettingsStays
<1>4. QED
  BY <1>1, <1>2, <1>3

(* The setters of the store.                                               *)
LEMMA FormEdited ==
  ASSUME SettingsInv, SettingEdited \/ ProxyEdited
  PROVE  SettingsInv'
<1>0. /\ mem \in [config : Forms, loading : BOOLEAN, saving : BOOLEAN, dirty : BOOLEAN]
      /\ past \in [edits : Int, clicks : Int, crossed : BOOLEAN] /\ mem.config \in Forms
      /\ ui \in [open : BOOLEAN, testing : BOOLEAN, result : {"none", "ok", "bad"}]
  BY DEF SettingsInv
<1> DEFINE c == mem.config
<1>1. /\ \A n \in {0, 5} : [c EXCEPT !.minutes = n] \in Forms
      /\ \A p \in {"", Blank, "p"} : [c EXCEPT !.proxy = p] \in Forms
      /\ [c EXCEPT !.protect = ~@] \in Forms
  <2>1. \A n \in Int : [c EXCEPT !.minutes = n] \in Forms
    BY <1>0 DEF Forms
  <2>2. \A p \in {"", Blank, "p"} : [c EXCEPT !.proxy = p] \in Forms
    BY <1>0 DEF Forms
  <2>3. \A b \in BOOLEAN : [c EXCEPT !.protect = b] \in Forms
    BY <1>0 DEF Forms
  <2> DEFINE b == ~c.protect
  <2>4. [c EXCEPT !.protect = ~@] = [c EXCEPT !.protect = b] /\ b \in BOOLEAN
    OBVIOUS
  <2> HIDE DEF b
  <2>5. [c EXCEPT !.protect = ~@] \in Forms
    BY <2>3, <2>4
  <2>6. 0 \in Int /\ 5 \in Int
    OBVIOUS
  <2>7. QED
    BY <2>1, <2>2, <2>5, <2>6
<1>2. \A f \in AccountSection(c) \cup ImageSection(c) \cup SecuritySection(c) \cup LogSection(c)
               \cup NetworkSection(c) : f \in Forms
  BY <1>1 DEF AccountSection, ImageSection, SecuritySection, LogSection, NetworkSection
<1>3. PICK f \in Forms : mem' = [mem EXCEPT !.config = f, !.dirty = TRUE]
  <2>1. CASE SettingEdited
    <3>1. PICK f \in AccountSection(c) \cup ImageSection(c) \cup SecuritySection(c) \cup LogSection(c) :
            mem' = [mem EXCEPT !.config = f, !.dirty = TRUE]
      BY <2>1 DEF SettingEdited, Setters
    <3>2. QED
      BY <1>2, <3>1
  <2>2. CASE ProxyEdited
    <3>1. PICK f \in NetworkSection(c) : mem' = [mem EXCEPT !.config = f, !.dirty = TRUE]
      BY <2>2 DEF ProxyEdited, Setters
    <3>2. QED
      BY <1>2, <3>1
  <2>3. QED
    BY <2>1, <2>2
<1>4. /\ mem' \in [config : Forms, loading : BOOLEAN, saving : BOOLEAN, dirty : BOOLEAN]
      /\ mem'.dirty /\ mem'.saving = mem.saving
  BY <1>0, <1>3
<1>5. /\ past' \in [edits : Int, clicks : Int, crossed : BOOLEAN] /\ past'.crossed = past.crossed
      /\ UNCHANGED <<page, calls, server>>
  <2>1. past' = [past EXCEPT !.edits = @ + 1] /\ UNCHANGED <<page, calls, server>>
    BY DEF SettingEdited, ProxyEdited, Setters
  <2>2. QED
    BY <1>0, <2>1
<1>6. ui' \in [open : BOOLEAN, testing : BOOLEAN, result : {"none", "ok", "bad"}]
  BY <1>0 DEF SettingEdited, ProxyEdited
<1>7. QED
  BY <1>4, <1>5, <1>6 DEF SettingsInv

LEMMA SettingsStep == SettingsInv /\ SettingsNext => SettingsInv'
<1> SUFFICES ASSUME SettingsInv, SettingsNext PROVE SettingsInv'
  OBVIOUS
<1>0. /\ mem \in [config : Forms, loading : BOOLEAN, saving : BOOLEAN, dirty : BOOLEAN]
      /\ past \in [edits : Int, clicks : Int, crossed : BOOLEAN]
      /\ calls \in Seq(GoodSettingsRequests(server)) /\ server \in CleanForms
      /\ AtMostOne(calls, FormSaves) /\ ReadsCrossed(calls)
      /\ ui \in [open : BOOLEAN, testing : BOOLEAN, result : {"none", "ok", "bad"}]
  BY DEF SettingsInv
<1>c. Clicked \in [edits : Int, clicks : Int, crossed : BOOLEAN] /\ Clicked.crossed = past.crossed
  BY <1>0 DEF Clicked
<1>q. ASSUME NEW i \in DOMAIN calls
      PROVE  calls[i] \in GoodSettingsRequests(server)
  BY <1>0, CallOfSeq
<1>u. [open |-> FALSE, testing |-> FALSE, result |-> "none"]
        \in [open : BOOLEAN, testing : BOOLEAN, result : {"none", "ok", "bad"}]
  OBVIOUS
<1>v. [open |-> TRUE, testing |-> FALSE, result |-> "none"]
        \in [open : BOOLEAN, testing : BOOLEAN, result : {"none", "ok", "bad"}]
  OBVIOUS
<1>1. CASE SettingsOpened
  <2> DEFINE silent == mem.config # Unloaded
             loading == mem.loading \/ ~silent
             b == Pending("save") # {}
             q == Request("load", [silent |-> silent, crossed |-> b])
  <2>1. /\ ui' = [open |-> TRUE, testing |-> FALSE, result |-> "none"]
        /\ calls' = Append(calls, q) /\ past' = Clicked /\ UNCHANGED <<page, server>>
    BY <1>1 DEF SettingsOpened, Sent, Read
  <2>2. mem' = [mem EXCEPT !.loading = loading]
    BY <1>1 DEF SettingsOpened
  <2>3. silent \in BOOLEAN /\ loading \in BOOLEAN /\ b \in BOOLEAN
    OBVIOUS
  <2>4. NoneOf(calls, FormSaves) \/ b
    <3>1. ASSUME NEW i \in DOMAIN calls, calls[i] \in FormSaves PROVE Pending("save") # {}
      BY <1>q, <3>1, SettingsOps DEF Pending
    <3>2. QED
      BY <3>1 DEF NoneOf
  <2> HIDE DEF silent, loading, b
  <2>5. q \in FormReads /\ q.at = "sent" /\ q.arg.crossed = b
    BY <2>3 DEF FormReads, SettingsAsks, Request
  <2>6. q \in GoodSettingsRequests(server) /\ q \notin FormSaves
    BY <2>5 DEF GoodSettingsRequests, FormReads, FormSaves, SettingsAsks
  <2> HIDE DEF q
  <2>7. /\ calls' \in Seq(GoodSettingsRequests(server))
        /\ AtMostOne(calls', FormSaves) /\ ReadsCrossed(calls')
        /\ NoneOf(calls, FormSaves) => NoneOf(calls', FormSaves)
    BY <1>0, <2>1, <2>4, <2>5, <2>6, SettingsSent
  <2>8. /\ mem' \in [config : Forms, loading : BOOLEAN, saving : BOOLEAN, dirty : BOOLEAN]
        /\ mem'.config = mem.config /\ mem'.saving = mem.saving /\ mem'.dirty = mem.dirty
    BY <1>0, <2>2, <2>3
  <2>9. QED
    BY <1>c, <1>v, <2>1, <2>7, <2>8, SettingsStays
<1>2. CASE SettingsLeft
  <2>1. calls' = Cancelled(calls, "test")
    BY <1>2 DEF SettingsLeft
  <2>2. calls' = calls \/ \E i \in DOMAIN calls : calls' = RemoveAt(calls, i)
    BY <1>0, <2>1, CancelledSeq
  <2>3. /\ calls' \in Seq(GoodSettingsRequests(server))
        /\ AtMostOne(calls', FormSaves) /\ ReadsCrossed(calls')
        /\ NoneOf(calls, FormSaves) => NoneOf(calls', FormSaves)
    BY <1>0, <2>2, SettingsDropped
  <2>4. QED
    BY <1>0, <1>c, <1>u, <1>2, <2>3, SettingsStays DEF SettingsLeft
<1>3. CASE ConfigServed
  <2>1. PICK i \in Waiting("load") \cup Waiting("revert") : calls' = Answered(i, server)
    BY <1>3 DEF ConfigServed
  <2> DEFINE q == [calls[i] EXCEPT !.at = "ok", !.data = server]
  <2>2. i \in DOMAIN calls /\ calls[i].op \in {"load", "revert"}
    BY <2>1 DEF Waiting, Pending
  <2>3. calls[i] \in FormReads
    BY <1>q, <2>2, SettingsOps
  <2>4. /\ q \in FormReads /\ q.op = calls[i].op /\ q.arg = calls[i].arg /\ q.data = server
    BY <1>0, <2>3 DEF FormReads, SettingsAsks
  <2>5. calls' = [calls EXCEPT ![i] = q]
    BY <2>1 DEF Answered
  <2> HIDE DEF q
  <2>6. q \in GoodSettingsRequests(server)
    BY <1>0, <2>4 DEF GoodSettingsRequests
  <2>7. /\ calls' \in Seq(GoodSettingsRequests(server))
        /\ AtMostOne(calls', FormSaves) /\ ReadsCrossed(calls')
        /\ NoneOf(calls, FormSaves) => NoneOf(calls', FormSaves)
    BY <1>0, <2>2, <2>4, <2>5, <2>6, SettingsAnswered
  <2>8. QED
    BY <1>0, <1>3, <2>7, SettingsStays DEF ConfigServed
<1>4. CASE SaveServed
  <2>1. PICK i \in Waiting("save") :
          server' = calls[i].arg /\ calls' = Answered(i, calls[i].arg)
    BY <1>4 DEF SaveServed
  <2> DEFINE q == [calls[i] EXCEPT !.at = "ok", !.data = calls[i].arg]
  <2>2. i \in DOMAIN calls /\ calls[i].op = "save"
    BY <2>1 DEF Waiting, Pending
  <2>3. calls[i] \in FormSaves
    BY <1>q, <2>2, SettingsOps
  <2>4. q \in FormSaves /\ q.op = "save" /\ q.arg = calls[i].arg /\ q.data = calls[i].arg
    BY <2>2, <2>3 DEF FormSaves, SettingsAsks
  <2>5. calls' = [calls EXCEPT ![i] = q]
    BY <2>1 DEF Answered
  <2> HIDE DEF q
  <2>6. QED
    BY <1>0, <1>4, <2>1, <2>2, <2>4, <2>5, SaveDone DEF SaveServed
<1>5. CASE SettingsFail
  <2>1. PICK i \in DOMAIN calls :
          /\ calls' = Failed(i)
          /\ server' = server \/ (calls[i].op = "save" /\ server' = calls[i].arg)
    BY <1>5 DEF SettingsFail
  <2> DEFINE q == [calls[i] EXCEPT !.at = "failed"]
  <2>2. calls' = [calls EXCEPT ![i] = q] /\ UNCHANGED <<page, ui, mem>> /\ past' = Clicked
    BY <1>5, <2>1 DEF SettingsFail, Failed
  <2>3. /\ q \in GoodSettingsRequests(server)
        /\ q.op = calls[i].op /\ q.arg = calls[i].arg /\ q.at = "failed"
    BY <1>q DEF GoodSettingsRequests, FormReads, FormSaves, ProxyTests, SettingsAsks
  <2> HIDE DEF q
  <2>4. CASE server' = server
    <3>1. /\ calls' \in Seq(GoodSettingsRequests(server))
          /\ AtMostOne(calls', FormSaves) /\ ReadsCrossed(calls')
          /\ NoneOf(calls, FormSaves) => NoneOf(calls', FormSaves)
      BY <1>0, <2>2, <2>3, SettingsAnswered
    <3>2. QED
      BY <1>0, <1>c, <2>2, <2>4, <3>1, SettingsStays
  <2>5. CASE calls[i].op = "save" /\ server' = calls[i].arg
    <3>1. q \in FormSaves
      BY <2>3, <2>5, SettingsOps
    <3>2. QED
      BY <1>c, <2>2, <2>3, <2>5, <3>1, SaveDone
  <2>6. QED
    BY <2>1, <2>4, <2>5
<1>6. CASE loadConfig
  BY <1>6, FormAnswered
<1>7. CASE revertConfig
  BY <1>7, FormAnswered
<1>8. CASE saveConfig
  BY <1>8, SaveAnswered
<1>9. CASE FloatingSaveBar
  BY <1>9, SaveBarClicked
<1>10. CASE SettingEdited
  BY <1>10, FormEdited
<1>11. CASE ProxyEdited
  BY <1>11, FormEdited
<1>12. CASE ProxyTestClicked
  <2> DEFINE q == Request("test", "p")
  <2>1. q \in GoodSettingsRequests(server) /\ q \notin FormSaves /\ q \notin FormReads
    BY DEF Request, GoodSettingsRequests, FormSaves, FormReads, ProxyTests, SettingsAsks
  <2>2. calls' = Append(calls, q)
    BY <1>12 DEF ProxyTestClicked, Sent
  <2> HIDE DEF q
  <2>3. /\ calls' \in Seq(GoodSettingsRequests(server))
        /\ AtMostOne(calls', FormSaves) /\ ReadsCrossed(calls')
        /\ NoneOf(calls, FormSaves) => NoneOf(calls', FormSaves)
    BY <1>0, <2>1, <2>2, SettingsSent
  <2>4. ui' \in [open : BOOLEAN, testing : BOOLEAN, result : {"none", "ok", "bad"}]
    BY <1>0, <1>12 DEF ProxyTestClicked
  <2>5. QED
    BY <1>0, <1>c, <1>12, <2>3, <2>4, SettingsStays DEF ProxyTestClicked
<1>13. CASE ProxyTested
  <2>1. PICK i \in Waiting("test"), r \in {"ok", "bad"} : calls' = Answered(i, r)
    BY <1>13 DEF ProxyTested
  <2> DEFINE q == [calls[i] EXCEPT !.at = "ok", !.data = r]
  <2>2. i \in DOMAIN calls /\ calls[i].op = "test"
    BY <2>1 DEF Waiting, Pending
  <2>3. calls[i] \in ProxyTests
    BY <1>q, <2>2, SettingsOps
  <2>4. q \in ProxyTests /\ q.op = calls[i].op /\ q.arg = calls[i].arg
    BY <2>3 DEF ProxyTests, SettingsAsks
  <2>5. calls' = [calls EXCEPT ![i] = q]
    BY <2>1 DEF Answered
  <2> HIDE DEF q
  <2>6. q \in GoodSettingsRequests(server)
    BY <2>4 DEF GoodSettingsRequests
  <2>7. /\ calls' \in Seq(GoodSettingsRequests(server))
        /\ AtMostOne(calls', FormSaves) /\ ReadsCrossed(calls')
        /\ NoneOf(calls, FormSaves) => NoneOf(calls', FormSaves)
    BY <1>0, <2>2, <2>4, <2>5, <2>6, SettingsAnswered
  <2>8. QED
    BY <1>0, <1>13, <2>7, SettingsStays DEF ProxyTested
<1>14. CASE handleTestProxy
  <2>1. PICK i \in Arrived("test") :
          /\ calls' = Dropped(i)
          /\ ui' = [ui EXCEPT !.testing = FALSE,
                              !.result = IF calls[i].at = "ok" THEN calls[i].data ELSE @]
    BY <1>14 DEF handleTestProxy
  <2>2. i \in DOMAIN calls /\ calls[i].op = "test" /\ calls[i].at # "sent"
    BY <2>1 DEF Arrived, Pending
  <2>3. calls[i] \in ProxyTests
    BY <1>q, <2>2, SettingsOps
  <2> DEFINE r == IF calls[i].at = "ok" THEN calls[i].data ELSE ui.result
  <2>4. r \in {"none", "ok", "bad"}
    BY <1>0, <2>3 DEF ProxyTests, SettingsAsks
  <2>5. ui' = [ui EXCEPT !.testing = FALSE, !.result = r]
    BY <2>1
  <2> HIDE DEF r
  <2>6. ui' \in [open : BOOLEAN, testing : BOOLEAN, result : {"none", "ok", "bad"}]
    BY <1>0, <2>4, <2>5
  <2>7. /\ calls' \in Seq(GoodSettingsRequests(server))
        /\ AtMostOne(calls', FormSaves) /\ ReadsCrossed(calls')
        /\ NoneOf(calls, FormSaves) => NoneOf(calls', FormSaves)
    BY <1>0, <2>1, <2>2, SettingsDropped DEF Dropped
  <2>8. QED
    BY <1>0, <1>14, <2>6, <2>7, SettingsStays DEF handleTestProxy
<1>15. QED
  BY <1>1, <1>2, <1>3, <1>4, <1>5, <1>6, <1>7, <1>8, <1>9, <1>10, <1>11, <1>12, <1>13, <1>14
     DEF SettingsNext

LEMMA SettingsServed == SettingsInv => CleanFormIsServed
BY DEF SettingsInv, CleanFormIsServed
-----------------------------------------------------------------------------
(* The registration page.                                                  *)

MailTypes == {"lol", "yyds"}
FormArgs == [total : Int, mail : Seq(MailTypes)]
Configs ==
  [total : Int, mail : Seq(MailTypes), on : BOOLEAN, busy : BOOLEAN,
   job : {"none", "register", "repair"}]
Texts == {"", "a", "b"}

RegisterPages ==
  [open : BOOLEAN, stream : {"opening", "open", "waiting", "off"},
   last : Configs \cup {NoConfig}, yyds : BOOLEAN, text : Texts, busy : BOOLEAN]

RegisterStores == [cfg : Configs \cup {NoConfig}, loading : BOOLEAN, saving : BOOLEAN]

Runs == FormArgs \cup {NoConfig}
RegisterPasts == [steps : Int, ran : [asked : Runs, runs : Runs]]

RegisterAsks(ops, args, data) ==
  {q \in [op : ops, arg : args, at : {"sent", "ok", "failed"}, data : data \cup {"none"}] :
     q.at = "ok" => q.data \in data}

FormPosts == RegisterAsks({"save", "put", "start"}, FormArgs, Configs)
Commands == RegisterAsks({"stop", "reset", "repair", "test"}, {0}, Configs)
ConfigReads == RegisterAsks({"load"}, BOOLEAN, Configs)
Events == {q \in RegisterAsks({"event"}, {0}, Configs) : q.at = "ok"}
DomainPosts == RegisterAsks({"block", "lost"}, Texts, Texts)
DomainReads == RegisterAsks({"blocked"}, {0}, Texts)

(* What shares isSavingRegister.                                           *)
Locked == FormPosts \cup Commands

(* RunUsesForm is not inductive: the form of a start that is still to be   *)
(* sent or served must be the one the server has.                          *)
GoodPosts(form) ==
  {q \in FormPosts : q.op = "start" \/ (q.op = "put" /\ q.at = "ok") => q.arg = form}

GoodRegisterRequests(form) ==
  GoodPosts(form) \cup Commands \cup ConfigReads \cup Events \cup DomainPosts \cup DomainReads

RegisterInv ==
  /\ page = "register"
  /\ mem \in RegisterStores /\ ui \in RegisterPages
  /\ server \in [cfg : Configs, blocked : Texts]
  /\ past \in RegisterPasts /\ past.ran.runs = past.ran.asked
  /\ calls \in Seq(GoodRegisterRequests(FormOf(server.cfg)))
  /\ AtMostOne(calls, Locked)
  /\ mem.saving \/ NoneOf(calls, Locked)

LEMMA ConfigValues ==
  /\ \A c \in Configs : FormOf(c) \in FormArgs /\ normalizeRegister(c) \in Configs
  /\ \A c \in Configs : Payload(c) \in FormArgs
<1>1. \A c \in Configs : FormOf(c) \in FormArgs
  BY DEF Configs, FormArgs, FormOf
<1>2. ASSUME NEW c \in Configs PROVE normalizeRegister(c) \in Configs
  <2> DEFINE n == IF c.total = 0 THEN 1 ELSE c.total
  <2>1. c.total \in Int
    BY DEF Configs
  <2>2. n \in Int
    BY <2>1, 1 \in Int
  <2>3. normalizeRegister(c) = [c EXCEPT !.total = n]
    BY DEF normalizeRegister
  <2> HIDE DEF n
  <2>4. QED
    BY <2>2, <2>3 DEF Configs
<1>3. QED
  BY <1>1, <1>2 DEF Payload

LEMMA RegisterOps ==
  ASSUME NEW form, NEW q \in GoodRegisterRequests(form)
  PROVE  /\ q.op \in {"save", "put", "start"} => q \in GoodPosts(form) /\ q \in Locked
         /\ q.op \in {"stop", "reset", "repair", "test"} => q \in Commands /\ q \in Locked
         /\ q.op = "load" => q \in ConfigReads
         /\ q.op = "event" => q \in Events
         /\ q.op \in {"block", "lost"} => q \in DomainPosts
         /\ q.op = "blocked" => q \in DomainReads
         /\ q \in Locked <=> q.op \in {"save", "put", "start", "stop", "reset", "repair", "test"}
         /\ q.op \in {"save", "put", "start", "stop", "reset", "repair", "test", "load", "event",
                      "block", "lost", "blocked"}
BY DEF GoodRegisterRequests, GoodPosts, Locked, FormPosts, Commands, ConfigReads, Events,
       DomainPosts, DomainReads, RegisterAsks

(* What is on the way when one request is done with, or one is sent that   *)
(* is none of those that are locked.                                       *)
LEMMA RegisterDropped ==
  ASSUME NEW form, NEW cs \in Seq(GoodRegisterRequests(form)), AtMostOne(cs, Locked),
         NEW i \in DOMAIN cs
  PROVE  /\ RemoveAt(cs, i) \in Seq(GoodRegisterRequests(form))
         /\ AtMostOne(RemoveAt(cs, i), Locked)
         /\ cs[i] \in Locked => NoneOf(RemoveAt(cs, i), Locked)
         /\ NoneOf(cs, Locked) => NoneOf(RemoveAt(cs, i), Locked)
BY RemovedSeq, OneRemoved

LEMMA RegisterCancelled ==
  ASSUME NEW form, NEW cs \in Seq(GoodRegisterRequests(form)), AtMostOne(cs, Locked), NEW op
  PROVE  /\ Cancelled(cs, op) \in Seq(GoodRegisterRequests(form))
         /\ AtMostOne(Cancelled(cs, op), Locked)
         /\ NoneOf(cs, Locked) => NoneOf(Cancelled(cs, op), Locked)
BY CancelledSeq, RegisterDropped

LEMMA RegisterSent ==
  ASSUME NEW form, NEW cs \in Seq(GoodRegisterRequests(form)), AtMostOne(cs, Locked),
         NEW q \in GoodRegisterRequests(form), q \notin Locked
  PROVE  /\ Append(cs, q) \in Seq(GoodRegisterRequests(form))
         /\ AtMostOne(Append(cs, q), Locked)
         /\ NoneOf(cs, Locked) => NoneOf(Append(cs, q), Locked)
BY AppendedSeq, OneAppended

LEMMA RegisterStays ==
  ASSUME RegisterInv, page' = page, server' = server, mem' \in RegisterStores,
         mem'.saving = mem.saving, ui' \in RegisterPages,
         past' \in RegisterPasts, past'.ran = past.ran,
         calls' \in Seq(GoodRegisterRequests(FormOf(server.cfg))), AtMostOne(calls', Locked),
         NoneOf(calls, Locked) => NoneOf(calls', Locked)
  PROVE  RegisterInv'
BY DEF RegisterInv

LEMMA MountFits == Mount \in RegisterPages
BY DEF Mount, RegisterPages, Texts

LEMMA RegisterInitInv == RegisterInit => RegisterInv
<1> SUFFICES ASSUME RegisterInit PROVE RegisterInv
  OBVIOUS
<1> DEFINE c == [total |-> 2, mail |-> <<"lol">>, on |-> FALSE, busy |-> FALSE, job |-> "none"]
           q == Request("load", FALSE)
<1>1. /\ page = "register" /\ mem = [cfg |-> NoConfig, loading |-> TRUE, saving |-> FALSE]
      /\ ui = Mount /\ calls = <<q>> /\ server = [cfg |-> c, blocked |-> "a"]
      /\ past = [steps |-> 0, ran |-> NoAsk]
  BY DEF RegisterInit
<1>2. c \in Configs
  <2>1. <<"lol">> \in Seq(MailTypes)
    BY OneSeq DEF MailTypes
  <2>2. QED
    BY <2>1 DEF Configs
<1>3. q \in ConfigReads /\ q \notin Locked
  BY DEF Request, ConfigReads, RegisterAsks, Locked, FormPosts, Commands
<1> HIDE DEF c, q
<1>4. server \in [cfg : Configs, blocked : Texts]
  BY <1>1, <1>2 DEF Texts
<1>5. mem \in RegisterStores
  BY <1>1 DEF RegisterStores
<1>6. past \in RegisterPasts /\ past.ran.runs = past.ran.asked
  <2>1. NoConfig \in Runs
    BY DEF Runs
  <2>2. QED
    BY <1>1, <2>1 DEF RegisterPasts, NoAsk
<1>7. q \in GoodRegisterRequests(FormOf(server.cfg))
  BY <1>3 DEF GoodRegisterRequests
<1>8. calls \in Seq(GoodRegisterRequests(FormOf(server.cfg)))
  BY <1>1, <1>7, OneSeq
<1>9. DOMAIN calls = {1} /\ calls[1] = q
  BY <1>1
<1>10. AtMostOne(calls, Locked) /\ NoneOf(calls, Locked)
  BY <1>3, <1>9 DEF AtMostOne, NoneOf
<1>11. QED
  BY <1>1, <1>4, <1>5, <1>6, <1>8, <1>10, MountFits DEF RegisterInv

(* A server that goes on with the same form.                               *)
LEMMA SameForm ==
  ASSUME NEW c \in Configs
  PROVE  /\ \A job \in {"register", "repair"} :
              Start(c, job) \in Configs /\ FormOf(Start(c, job)) = FormOf(c)
         /\ Stop(c) \in Configs /\ FormOf(Stop(c)) = FormOf(c)
<1>1. ASSUME NEW job \in {"register", "repair"}
      PROVE  Start(c, job) \in Configs /\ FormOf(Start(c, job)) = FormOf(c)
  <2> DEFINE d == [c EXCEPT !.on = TRUE, !.busy = TRUE, !.job = job]
  <2>1. d \in Configs /\ d.total = c.total /\ d.mail = c.mail
    BY DEF Configs
  <2>2. Start(c, job) = c \/ Start(c, job) = d
    BY DEF Start
  <2> HIDE DEF d
  <2>3. QED
    BY <2>1, <2>2 DEF FormOf
<1>2. Stop(c) \in Configs /\ FormOf(Stop(c)) = FormOf(c)
  BY DEF Stop, Configs, FormOf
<1>3. QED
  BY <1>1, <1>2

LEMMA ServedFits ==
  ASSUME RegisterInv, NEW i \in DOMAIN calls
  PROVE  /\ Served(i) \in [cfg : Configs, blocked : Texts]
         /\ FormOf(Served(i).cfg) = IF calls[i].op \in {"save", "put"} THEN calls[i].arg
                                    ELSE FormOf(server.cfg)
<1> DEFINE c == server.cfg
           q == calls[i]
<1>0. /\ server \in [cfg : Configs, blocked : Texts] /\ c \in Configs
      /\ q \in GoodRegisterRequests(FormOf(c))
  BY CallOfSeq DEF RegisterInv
<1>d. ASSUME NEW d \in Configs, Served(i) = [server EXCEPT !.cfg = d]
      PROVE  Served(i) \in [cfg : Configs, blocked : Texts] /\ Served(i).cfg = d
  BY <1>0, <1>d
<1>1. CASE q.op \in {"save", "put"}
  <2> DEFINE d == [c EXCEPT !.total = q.arg.total, !.mail = q.arg.mail]
  <2>1. q.arg \in FormArgs
    BY <1>0, <1>1, RegisterOps DEF GoodPosts, FormPosts, RegisterAsks
  <2>2. d \in Configs /\ d.total = q.arg.total /\ d.mail = q.arg.mail
    BY <1>0, <2>1 DEF Configs, FormArgs
  <2>3. Served(i) = [server EXCEPT !.cfg = d]
    BY <1>1 DEF Served
  <2> HIDE DEF d
  <2>4. FormOf(d) = q.arg
    BY <2>1, <2>2 DEF FormOf, FormArgs
  <2>5. QED
    BY <1>1, <1>d, <2>2, <2>3, <2>4
<1>2. CASE q.op = "start"
  BY <1>0, <1>2, <1>d, SameForm DEF Served
<1>3. CASE q.op = "stop"
  BY <1>0, <1>3, <1>d, SameForm DEF Served
<1>4. CASE q.op = "repair"
  BY <1>0, <1>4, <1>d, SameForm DEF Served
<1>5. CASE q.op \in {"block", "lost"}
  <2>1. q.arg \in Texts
    BY <1>0, <1>5, RegisterOps DEF DomainPosts, RegisterAsks
  <2>2. Served(i) = [server EXCEPT !.blocked = q.arg]
    BY <1>5 DEF Served
  <2>3. Served(i) \in [cfg : Configs, blocked : Texts] /\ Served(i).cfg = c
    BY <1>0, <2>1, <2>2
  <2>4. QED
    BY <1>5, <2>3
<1>6. CASE q.op \notin {"save", "put", "start", "stop", "repair", "block", "lost"}
  <2>1. Served(i) = server
    BY <1>6 DEF Served
  <2>2. QED
    BY <1>0, <1>6, <2>1
<1>7. QED
  BY <1>1, <1>2, <1>3, <1>4, <1>5, <1>6

(* The form a request that is locked is about to change is that of none    *)
(* other on the way.                                                       *)
LEMMA RegisterAnswers ==
  ASSUME RegisterInv, RegisterServed
  PROVE  RegisterInv'
<1> DEFINE form == FormOf(server.cfg)
<1>0. /\ server \in [cfg : Configs, blocked : Texts]
      /\ calls \in Seq(GoodRegisterRequests(form)) /\ AtMostOne(calls, Locked)
      /\ past \in RegisterPasts
  BY DEF RegisterInv
<1>1. PICK i \in DOMAIN calls :
       /\ calls[i].at = "sent"
       /\ server' = Served(i)
       /\ calls' = Answered(i, IF calls[i].op \in {"block", "blocked", "lost"} THEN server'.blocked
                                                                       ELSE server'.cfg)
       /\ past' = IF calls[i].op = "start" /\ ~isActive(server.cfg)
                    THEN [past EXCEPT !.ran = [asked |-> calls[i].arg,
                                               runs |-> FormOf(server.cfg)]]
                  ELSE past
  BY DEF RegisterServed
<1> DEFINE q == calls[i]
           d == IF q.op \in {"block", "blocked", "lost"} THEN server'.blocked ELSE server'.cfg
           r == [q EXCEPT !.at = "ok", !.data = d]
           new == FormOf(server'.cfg)
<1>2. /\ server' \in [cfg : Configs, blocked : Texts]
      /\ new = IF q.op \in {"save", "put"} THEN q.arg ELSE form
  BY <1>1, ServedFits
<1>3. q \in GoodRegisterRequests(form)
  BY <1>0, CallOfSeq
<1>4. IF q.op \in {"block", "blocked", "lost"} THEN d \in Texts ELSE d \in Configs
  BY <1>2
<1>5. calls' = [calls EXCEPT ![i] = r]
  BY <1>1 DEF Answered
<1> HIDE DEF d, new
<1>6. r \in GoodRegisterRequests(new) /\ (r \in Locked => q \in Locked)
  <2>1. CASE q.op \in {"save", "put", "start"}
    <3>1. q \in GoodPosts(form)
      BY <1>3, <2>1, RegisterOps
    <3>2. q.op = "start" => q.arg = form
      BY <3>1 DEF GoodPosts
    <3>3. r \in FormPosts /\ r.op = q.op /\ r.arg = q.arg
      BY <1>4, <2>1, <3>1 DEF GoodPosts, FormPosts, RegisterAsks
    <3>4. r.op = "start" \/ r.op = "put" => r.arg = new
      BY <1>2, <3>2, <3>3
    <3>5. r \in GoodPosts(new)
      BY <3>3, <3>4 DEF GoodPosts
    <3>6. QED
      BY <1>3, <2>1, <3>5, RegisterOps DEF GoodRegisterRequests
  <2>2. CASE q.op \in {"stop", "reset", "repair", "test"}
    <3>1. q \in Commands /\ q \in Locked
      BY <1>3, <2>2, RegisterOps
    <3>2. r \in Commands
      BY <1>4, <2>2, <3>1 DEF Commands, RegisterAsks
    <3>3. QED
      BY <3>1, <3>2 DEF GoodRegisterRequests
  <2>3. CASE q.op = "load"
    <3>1. r \in ConfigReads
      BY <1>3, <1>4, <2>3, RegisterOps DEF ConfigReads, RegisterAsks
    <3>2. QED
      BY <3>1 DEF GoodRegisterRequests, ConfigReads, Locked, FormPosts, Commands, RegisterAsks
  <2>4. CASE q.op = "event"
    <3>1. r \in Events
      BY <1>3, <1>4, <2>4, RegisterOps DEF Events, RegisterAsks
    <3>2. QED
      BY <3>1 DEF GoodRegisterRequests, Events, Locked, FormPosts, Commands, RegisterAsks
  <2>5. CASE q.op \in {"block", "lost"}
    <3>1. r \in DomainPosts
      BY <1>3, <1>4, <2>5, RegisterOps DEF DomainPosts, RegisterAsks
    <3>2. QED
      BY <3>1 DEF GoodRegisterRequests, DomainPosts, Locked, FormPosts, Commands, RegisterAsks
  <2>6. CASE q.op = "blocked"
    <3>1. r \in DomainReads
      BY <1>3, <1>4, <2>6, RegisterOps DEF DomainReads, RegisterAsks
    <3>2. QED
      BY <3>1 DEF GoodRegisterRequests, DomainReads, Locked, FormPosts, Commands, RegisterAsks
  <2>7. QED
    BY <1>3, <2>1, <2>2, <2>3, <2>4, <2>5, <2>6, RegisterOps
<1>7. \A j \in DOMAIN calls : j # i => calls[j] \in GoodRegisterRequests(new)
  <2>1. SUFFICES ASSUME NEW j \in DOMAIN calls, j # i
                 PROVE  calls[j] \in GoodRegisterRequests(new)
    OBVIOUS
  <2>2. calls[j] \in GoodRegisterRequests(form)
    BY <1>0, CallOfSeq
  <2>3. CASE q.op \in {"save", "put"}
    <3>1. q \in Locked
      BY <1>3, <2>3, RegisterOps
    <3>2. calls[j] \notin Locked
      BY <1>0, <2>1, <3>1 DEF AtMostOne
    <3>3. QED
      BY <2>2, <3>2 DEF GoodRegisterRequests, GoodPosts, Locked
  <2>4. CASE q.op \notin {"save", "put"}
    BY <1>2, <2>2, <2>4
  <2>5. QED
    BY <2>3, <2>4
<1> HIDE DEF r
<1>8. DOMAIN calls' = DOMAIN calls /\ \A j \in DOMAIN calls : calls'[j] = IF j = i THEN r ELSE calls[j]
  BY <1>5
<1>9. calls' \in Seq(GoodRegisterRequests(new))
  <2>1. \A j \in DOMAIN calls : calls'[j] \in GoodRegisterRequests(new)
    BY <1>6, <1>7, <1>8
  <2>2. calls' = [j \in DOMAIN calls |-> calls'[j]]
    BY <1>5
  <2>3. QED
    BY <1>0, <2>1, <2>2, ReshapedSeq
<1>10. AtMostOne(calls', Locked) /\ (NoneOf(calls, Locked) => NoneOf(calls', Locked))
  <2>1. \A j \in DOMAIN calls : calls'[j] \in Locked => calls[j] \in Locked
    BY <1>6, <1>8
  <2>2. QED
    BY <1>0, <1>8, <2>1, OneReshaped
<1>11. past' \in RegisterPasts /\ past'.ran.runs = past'.ran.asked
  <2>1. CASE q.op = "start"
    <3> DEFINE ran == [asked |-> q.arg, runs |-> form]
    <3>1. q.arg = form /\ form \in Runs
      BY <1>0, <1>3, <2>1, RegisterOps, ConfigValues DEF GoodPosts, Runs
    <3>2. ran \in [asked : Runs, runs : Runs] /\ ran.runs = ran.asked
      BY <3>1
    <3>3. past' = [past EXCEPT !.ran = ran] \/ past' = past
      BY <1>1
    <3> HIDE DEF ran
    <3>4. QED
      BY <1>0, <3>2, <3>3 DEF RegisterPasts, RegisterInv
  <2>2. CASE q.op # "start"
    <3>1. past' = past
      BY <1>1, <2>2
    <3>2. QED
      BY <3>1 DEF RegisterInv
  <2>3. QED
    BY <2>1, <2>2
<1>12. UNCHANGED <<page, ui, mem>>
  BY DEF RegisterServed
<1>13. QED
  BY <1>2, <1>9, <1>10, <1>11, <1>12 DEF RegisterInv, new

(* A click on one of the card's buttons: they are locked together.         *)
LEMMA CardClicked ==
  ASSUME RegisterInv, RegisterClicked
  PROVE  RegisterInv'
<1> DEFINE form == FormOf(server.cfg)
<1>0. /\ mem \in RegisterStores /\ past \in RegisterPasts
      /\ calls \in Seq(GoodRegisterRequests(form))
  BY DEF RegisterInv
<1>1. /\ past' = Stepped /\ UNCHANGED <<page, ui, server>> /\ mem.cfg # NoConfig
      /\ saveRegister \/ toggleRegister \/ resetRegister \/ repairAbnormalRegisterAccounts
           \/ testOutlookPool
  BY DEF RegisterClicked
<1>2. mem.cfg \in Configs
  BY <1>0, <1>1 DEF RegisterStores
<1>3. ~mem.saving
  BY <1>1 DEF saveRegister, toggleRegister, resetRegister, repairAbnormalRegisterAccounts,
       testOutlookPool, SaveEnabled, ToggleEnabled, RepairEnabled
<1>4. PICK q \in Locked : /\ q \in GoodRegisterRequests(form)
                          /\ mem' = [mem EXCEPT !.saving = TRUE] /\ calls' = Append(calls, q)
  <2>1. ASSUME NEW op \in {"save", "put"}
        PROVE  Request(op, Payload(mem.cfg)) \in GoodPosts(form)
    <3>1. Payload(mem.cfg) \in FormArgs
      BY <1>2, ConfigValues
    <3>2. QED
      BY <3>1 DEF Request, GoodPosts, FormPosts, RegisterAsks
  <2>2. ASSUME NEW op \in {"stop", "reset", "repair", "test"}
        PROVE  Request(op, 0) \in Commands
    BY DEF Request, Commands, RegisterAsks
  <2>3. \/ \E op \in {"save", "put"} : Asked(op, Payload(mem.cfg))
        \/ \E op \in {"stop", "reset", "repair", "test"} : Asked(op, 0)
    BY <1>1 DEF saveRegister, toggleRegister, resetRegister, repairAbnormalRegisterAccounts,
         testOutlookPool
  <2>4. CASE \E op \in {"save", "put"} : Asked(op, Payload(mem.cfg))
    <3>1. PICK op \in {"save", "put"} : Asked(op, Payload(mem.cfg))
      BY <2>4
    <3> DEFINE q == Request(op, Payload(mem.cfg))
    <3>2. q \in GoodPosts(form) /\ mem' = [mem EXCEPT !.saving = TRUE] /\ calls' = Append(calls, q)
      BY <2>1, <3>1 DEF Asked, Sent
    <3> HIDE DEF q
    <3>3. QED
      BY <3>2 DEF GoodRegisterRequests, GoodPosts, Locked
  <2>5. CASE \E op \in {"stop", "reset", "repair", "test"} : Asked(op, 0)
    <3>1. PICK op \in {"stop", "reset", "repair", "test"} : Asked(op, 0)
      BY <2>5
    <3> DEFINE q == Request(op, 0)
    <3>2. q \in Commands /\ mem' = [mem EXCEPT !.saving = TRUE] /\ calls' = Append(calls, q)
      BY <2>2, <3>1 DEF Asked, Sent
    <3> HIDE DEF q
    <3>3. QED
      BY <3>2 DEF GoodRegisterRequests, Locked
  <2>6. QED
    BY <2>3, <2>4, <2>5
<1>5. NoneOf(calls, Locked)
  BY <1>3 DEF RegisterInv
<1>6. calls' \in Seq(GoodRegisterRequests(form)) /\ AtMostOne(calls', Locked)
  BY <1>0, <1>4, <1>5, AppendedSeq, OneAppended
<1>7. mem' \in RegisterStores /\ mem'.saving
  BY <1>0, <1>4 DEF RegisterStores
<1>8. past' \in RegisterPasts /\ past'.ran = past.ran
  BY <1>0, <1>1 DEF Stepped, RegisterPasts
<1>9. QED
  BY <1>1, <1>6, <1>7, <1>8 DEF RegisterInv

(* A request that was locked is answered: the lock is free, or the start   *)
(* follows the post of the form.                                           *)
LEMMA CardAnswered ==
  ASSUME RegisterInv, PutAnswered \/ RegisterAnswered
  PROVE  RegisterInv'
<1> DEFINE form == FormOf(server.cfg)
<1>0. /\ mem \in RegisterStores /\ past \in RegisterPasts
      /\ calls \in Seq(GoodRegisterRequests(form)) /\ AtMostOne(calls, Locked)
  BY DEF RegisterInv
<1>q. ASSUME NEW i \in DOMAIN calls
      PROVE  calls[i] \in GoodRegisterRequests(form)
  BY <1>0, CallOfSeq
<1>1. UNCHANGED <<page, ui, server, past>>
  BY DEF PutAnswered, RegisterAnswered
<1>f. ASSUME NEW i \in DOMAIN calls, calls[i] \in Locked, calls' = Dropped(i),
             mem' \in RegisterStores
      PROVE  RegisterInv'
  <2>1. calls' \in Seq(GoodRegisterRequests(form)) /\ AtMostOne(calls', Locked) /\ NoneOf(calls', Locked)
    BY <1>0, <1>f, RegisterDropped DEF Dropped
  <2>2. QED
    BY <1>1, <1>f, <2>1 DEF RegisterInv
<1>2. CASE PutAnswered
  <2>1. PICK i \in Arrived("put") :
          IF calls[i].at = "ok"
            THEN /\ calls' = Append(Dropped(i), Request("start", calls[i].arg))
                 /\ UNCHANGED mem
            ELSE /\ calls' = Dropped(i)
                 /\ mem' = [mem EXCEPT !.saving = FALSE]
    BY <1>2 DEF PutAnswered
  <2>2. i \in DOMAIN calls /\ calls[i].op = "put"
    BY <2>1 DEF Arrived, Pending
  <2>3. calls[i] \in GoodPosts(form) /\ calls[i] \in Locked
    BY <1>q, <2>2, RegisterOps
  <2>4. CASE calls[i].at = "ok"
    <3> DEFINE q == Request("start", calls[i].arg)
    <3>1. calls' = Append(Dropped(i), q) /\ mem' = mem
      BY <2>1, <2>4
    <3>2. q \in GoodPosts(form)
      <4>1. calls[i].arg = form /\ calls[i].arg \in FormArgs
        BY <2>2, <2>3, <2>4 DEF GoodPosts, FormPosts, RegisterAsks
      <4>2. QED
        BY <4>1 DEF Request, GoodPosts, FormPosts, RegisterAsks
    <3> HIDE DEF q
    <3>3. q \in GoodRegisterRequests(form)
      BY <3>2 DEF GoodRegisterRequests
    <3>4. Dropped(i) \in Seq(GoodRegisterRequests(form)) /\ NoneOf(Dropped(i), Locked)
      BY <1>0, <2>2, <2>3, RegisterDropped DEF Dropped
    <3>5. calls' \in Seq(GoodRegisterRequests(form)) /\ AtMostOne(calls', Locked)
      BY <3>1, <3>3, <3>4, AppendedSeq, OneAppended
    <3>6. mem.saving
      BY <2>2, <2>3 DEF RegisterInv, NoneOf
    <3>7. QED
      BY <1>1, <3>1, <3>5, <3>6 DEF RegisterInv
  <2>5. CASE calls[i].at # "ok"
    <3>1. mem' \in RegisterStores
      BY <1>0, <2>1, <2>5 DEF RegisterStores
    <3>2. QED
      BY <1>f, <2>1, <2>2, <2>3, <2>5, <3>1
  <2>6. QED
    BY <2>4, <2>5
<1>3. CASE RegisterAnswered
  <2>1. PICK op \in {"save", "start", "stop", "reset", "repair", "test"} :
          \E i \in Arrived(op) :
            /\ calls' = Dropped(i)
            /\ mem' = IF calls[i].at = "ok" /\ op # "test"
                        THEN [mem EXCEPT !.cfg = normalizeRegister(calls[i].data), !.saving = FALSE]
                      ELSE [mem EXCEPT !.saving = FALSE]
    BY <1>3 DEF RegisterAnswered
  <2>2. PICK i \in Arrived(op) :
          /\ calls' = Dropped(i)
          /\ mem' = IF calls[i].at = "ok" /\ op # "test"
                      THEN [mem EXCEPT !.cfg = normalizeRegister(calls[i].data), !.saving = FALSE]
                    ELSE [mem EXCEPT !.saving = FALSE]
    BY <2>1
  <2>3. i \in DOMAIN calls /\ calls[i].op = op
    BY DEF Arrived, Pending
  <2>4. calls[i] \in FormPosts \cup Commands /\ calls[i] \in Locked
    BY <1>q, <2>3, RegisterOps DEF GoodPosts
  <2>5. calls[i].at = "ok" => calls[i].data \in Configs
    BY <2>4 DEF FormPosts, Commands, RegisterAsks
  <2>6. mem' \in RegisterStores
    <3>1. CASE calls[i].at = "ok" /\ op # "test"
      <4>1. normalizeRegister(calls[i].data) \in Configs
        BY <2>5, <3>1, ConfigValues
      <4>2. QED
        BY <1>0, <2>2, <3>1, <4>1 DEF RegisterStores
    <3>2. CASE ~(calls[i].at = "ok" /\ op # "test")
      BY <1>0, <2>2, <3>2 DEF RegisterStores
    <3>3. QED
      BY <3>1, <3>2
  <2>7. QED
    BY <1>f, <2>2, <2>3, <2>4, <2>6
<1>4. QED
  BY <1>2, <1>3

(* The form while it may be edited.                                        *)
LEMMA FormRetyped ==
  ASSUME RegisterInv, RegisterEdited
  PROVE  RegisterInv'
<1>0. /\ mem \in RegisterStores /\ past \in RegisterPasts
      /\ calls \in Seq(GoodRegisterRequests(FormOf(server.cfg))) /\ AtMostOne(calls, Locked)
  BY DEF RegisterInv
<1> DEFINE c == mem.cfg
<1>1. c \in Configs /\ c.mail \in Seq(MailTypes)
  BY <1>0 DEF RegisterEdited, RegisterStores, Configs
<1>m. ASSUME NEW m \in Seq(MailTypes) PROVE [c EXCEPT !.mail = m] \in Configs
  BY <1>1 DEF Configs
<1>2. ASSUME NEW d \in ConfigFields(c) PROVE d \in Configs
  BY <1>1, <1>2, 0 \in Int, 2 \in Int DEF ConfigFields, Configs
<1>3. ASSUME NEW d \in addRegisterProvider(c) PROVE d \in Configs
  <2>1. d = [c EXCEPT !.mail = Append(@, "lol")]
    BY <1>3 DEF addRegisterProvider
  <2>2. Append(c.mail, "lol") \in Seq(MailTypes)
    BY <1>1, AppendedSeq DEF MailTypes
  <2>3. QED
    BY <1>m, <2>1, <2>2
<1>4. ASSUME NEW d \in deleteRegisterProvider(c) PROVE d \in Configs
  <2>1. PICK i \in DOMAIN c.mail : d = [c EXCEPT !.mail = RemoveAt(@, i)]
    BY <1>4 DEF deleteRegisterProvider
  <2>2. RemoveAt(c.mail, i) \in Seq(MailTypes)
    BY <1>1, RemovedSeq
  <2>3. QED
    BY <1>m, <2>1, <2>2
<1>5. ASSUME NEW d \in updateProviderType(c) PROVE d \in Configs
  <2>1. PICK i \in DOMAIN c.mail, t \in MailTypes : d = [c EXCEPT !.mail = [@ EXCEPT ![i] = t]]
    BY <1>5 DEF updateProviderType, MailTypes
  <2>2. [c.mail EXCEPT ![i] = t] \in Seq(MailTypes)
    BY <1>1, ChangedSeq
  <2>3. QED
    BY <1>m, <2>1, <2>2
<1>6. PICK d \in Configs : mem' = [mem EXCEPT !.cfg = d]
  <2>1. PICK d \in ConfigFields(c) \cup addRegisterProvider(c)
                   \cup deleteRegisterProvider(c) \cup updateProviderType(c) :
          mem' = [mem EXCEPT !.cfg = d]
    BY DEF RegisterEdited
  <2>2. d \in Configs
    BY <1>2, <1>3, <1>4, <1>5
  <2>3. QED
    BY <2>1, <2>2
<1>7. mem' \in RegisterStores /\ mem'.saving = mem.saving
  BY <1>0, <1>6 DEF RegisterStores
<1>8. past' \in RegisterPasts /\ past'.ran = past.ran
  BY <1>0 DEF RegisterEdited, Stepped, RegisterPasts
<1>9. QED
  BY <1>0, <1>7, <1>8, RegisterStays DEF RegisterEdited, RegisterInv

LEMMA RegisterStep == RegisterInv /\ RegisterNext => RegisterInv'
<1> SUFFICES ASSUME RegisterInv, RegisterNext PROVE RegisterInv'
  OBVIOUS
<1> DEFINE form == FormOf(server.cfg)
           good == GoodRegisterRequests(form)
<1>0. /\ page = "register" /\ mem \in RegisterStores /\ ui \in RegisterPages
      /\ server \in [cfg : Configs, blocked : Texts]
      /\ past \in RegisterPasts /\ past.ran.runs = past.ran.asked
      /\ calls \in Seq(good) /\ AtMostOne(calls, Locked)
  BY DEF RegisterInv
<1>s. Stepped \in RegisterPasts /\ Stepped.ran = past.ran
  BY <1>0 DEF Stepped, RegisterPasts
<1>q. ASSUME NEW i \in DOMAIN calls
      PROVE  /\ calls[i] \in good
             /\ Dropped(i) \in Seq(good) /\ AtMostOne(Dropped(i), Locked)
             /\ NoneOf(calls, Locked) => NoneOf(Dropped(i), Locked)
  BY <1>0, CallOfSeq, RegisterDropped DEF Dropped
<1>r. ASSUME NEW q \in ConfigReads \cup Events \cup DomainPosts \cup DomainReads
      PROVE  q \in good /\ q \notin Locked
  BY DEF GoodRegisterRequests, ConfigReads, Events, DomainPosts, DomainReads, Locked, FormPosts,
         Commands, RegisterAsks
<1>l. \A b \in BOOLEAN : Request("load", b) \in ConfigReads
  BY DEF Request, ConfigReads, RegisterAsks
<1>d. /\ \A t \in Texts : Request("block", t) \in DomainPosts
      /\ Request("blocked", 0) \in DomainReads
  BY DEF Request, DomainPosts, DomainReads, RegisterAsks
<1>1. CASE RegisterOpened
  <2>1. /\ calls' \in Seq(good) /\ AtMostOne(calls', Locked)
        /\ NoneOf(calls, Locked) => NoneOf(calls', Locked)
    BY <1>0, <1>r, <1>l, <1>1, RegisterSent DEF RegisterOpened, Sent
  <2>2. mem' \in RegisterStores /\ mem'.saving = mem.saving
    BY <1>0, <1>1 DEF RegisterOpened, RegisterStores
  <2>3. QED
    BY <1>0, <1>s, <1>1, <2>1, <2>2, MountFits, RegisterStays DEF RegisterOpened
<1>2. CASE RegisterLeft
  <2> DEFINE heard == Cancelled(Cancelled(calls, "event"), "blocked")
  <2>1. /\ heard \in Seq(good) /\ AtMostOne(heard, Locked)
        /\ NoneOf(calls, Locked) => NoneOf(heard, Locked)
    BY <1>0, RegisterCancelled
  <2>2. calls' = [i \in DOMAIN heard |->
                    [heard[i] EXCEPT !.op = IF @ = "block" THEN "lost" ELSE @]]
    BY <1>2 DEF RegisterLeft
  <2> HIDE DEF heard
  <2>3. ASSUME NEW i \in DOMAIN heard
        PROVE  calls'[i] \in good /\ (calls'[i] \in Locked => heard[i] \in Locked)
    <3>1. heard[i] \in good
      BY <2>1, CallOfSeq
    <3>2. CASE heard[i].op = "block"
      <4>1. calls'[i] = [heard[i] EXCEPT !.op = "lost"]
        BY <2>2, <3>2
      <4>2. heard[i] \in DomainPosts
        BY <3>1, <3>2, RegisterOps
      <4>3. calls'[i] \in DomainPosts
        BY <4>1, <4>2 DEF DomainPosts, RegisterAsks
      <4>4. QED
        BY <1>r, <4>3
    <3>3. CASE heard[i].op # "block"
      <4>1. calls'[i] = [heard[i] EXCEPT !.op = heard[i].op]
        BY <2>2, <3>3
      <4>2. calls'[i] = heard[i]
        BY <3>1, <4>1 DEF GoodRegisterRequests, GoodPosts, FormPosts, Commands, ConfigReads,
             Events, DomainPosts, DomainReads, RegisterAsks
      <4>3. QED
        BY <3>1, <4>2
    <3>4. QED
      BY <3>2, <3>3
  <2>4. calls' \in Seq(good)
    BY <2>1, <2>2, <2>3, ReshapedSeq
  <2>5. /\ AtMostOne(calls', Locked)
        /\ NoneOf(heard, Locked) => NoneOf(calls', Locked)
    <3>1. DOMAIN calls' = DOMAIN heard
      BY <2>2
    <3>2. QED
      BY <2>1, <2>3, <3>1, OneReshaped
  <2>6. ui' \in RegisterPages
    BY <1>0, <1>2 DEF RegisterLeft, RegisterPages
  <2>7. QED
    BY <1>0, <1>s, <1>2, <2>1, <2>4, <2>5, <2>6, RegisterStays DEF RegisterLeft
<1>3. CASE StreamOpens
  <2>1. ui' \in RegisterPages
    BY <1>0, <1>3 DEF StreamOpens, RegisterPages
  <2>2. QED
    BY <1>0, <1>3, <2>1, RegisterStays DEF StreamOpens
<1>4. CASE EventSent
  <2> DEFINE q == [Request("event", 0) EXCEPT !.at = "ok", !.data = server.cfg]
  <2>1. q \in Events
    BY <1>0 DEF Request, Events, RegisterAsks
  <2>2. calls' = Append(calls, q)
    BY <1>4 DEF EventSent
  <2> HIDE DEF q
  <2>3. /\ calls' \in Seq(good) /\ AtMostOne(calls', Locked)
        /\ NoneOf(calls, Locked) => NoneOf(calls', Locked)
    BY <1>0, <1>r, <2>1, <2>2, RegisterSent
  <2>4. ui' \in RegisterPages
    BY <1>0, <1>4 DEF EventSent, RegisterPages
  <2>5. QED
    BY <1>0, <1>4, <2>3, <2>4, RegisterStays DEF EventSent
<1>5. CASE setRegisterConfig
  <2>1. PICK i \in Pending("event") :
          /\ calls' = Dropped(i)
          /\ mem' = [mem EXCEPT !.cfg = normalizeRegister(calls[i].data), !.loading = FALSE]
    BY <1>5 DEF setRegisterConfig
  <2>2. i \in DOMAIN calls /\ calls[i].op = "event"
    BY DEF Pending
  <2>3. QED
    <3>1. calls[i] \in Events
      BY <1>q, <2>2, RegisterOps
    <3>2. calls[i].data \in Configs
      BY <3>1 DEF Events, RegisterAsks
    <3>3. mem' \in RegisterStores /\ mem'.saving = mem.saving
      BY <1>0, <2>1, <3>2, ConfigValues DEF RegisterStores
    <3>4. QED
      BY <1>0, <1>q, <1>5, <2>1, <2>2, <3>3, RegisterStays DEF setRegisterConfig
<1>6. CASE StreamBreaks
  <2>1. /\ calls' \in Seq(good) /\ AtMostOne(calls', Locked)
        /\ NoneOf(calls, Locked) => NoneOf(calls', Locked)
    BY <1>0, <1>6, RegisterCancelled DEF StreamBreaks
  <2>2. ui' \in RegisterPages
    BY <1>0, <1>6 DEF StreamBreaks, RegisterPages
  <2>3. QED
    BY <1>0, <1>s, <1>6, <2>1, <2>2, RegisterStays DEF StreamBreaks
<1>7. CASE FallbackTimer
  <2>1. /\ calls' \in Seq(good) /\ AtMostOne(calls', Locked)
        /\ NoneOf(calls, Locked) => NoneOf(calls', Locked)
    BY <1>0, <1>r, <1>l, <1>7, RegisterSent DEF FallbackTimer, Sent
  <2>2. ui' \in RegisterPages
    BY <1>0, <1>7 DEF FallbackTimer, RegisterPages
  <2>3. QED
    BY <1>0, <1>7, <2>1, <2>2, RegisterStays DEF FallbackTimer
<1>8. CASE RegisterServed
  BY <1>8, RegisterAnswers
<1>9. CASE RegisterFails
  <2>1. PICK i \in DOMAIN calls : calls[i].at = "sent" /\ calls' = Failed(i)
    BY <1>9 DEF RegisterFails
  <2> DEFINE q == [calls[i] EXCEPT !.at = "failed"]
  <2>2. calls' = [calls EXCEPT ![i] = q]
    BY <2>1 DEF Failed
  <2>3. q \in good /\ (q \in Locked => calls[i] \in Locked)
    <3> DEFINE p == calls[i]
    <3>1. p \in good /\ p.at = "sent"
      BY <1>q, <2>1
    <3> HIDE DEF p
    <3>2. q = [p EXCEPT !.at = "failed"]
      BY DEF p
    <3> HIDE DEF q
    <3>3. CASE p.op \in {"save", "put", "start"}
      <4>1. p \in GoodPosts(form) /\ p \in Locked
        BY <3>1, <3>3, RegisterOps
      <4>2. q \in GoodPosts(form)
        BY <3>2, <4>1 DEF GoodPosts, FormPosts, RegisterAsks
      <4>3. QED
        BY <4>1, <4>2 DEF GoodRegisterRequests, p
    <3>4. CASE p.op \in {"stop", "reset", "repair", "test"}
      <4>1. p \in Commands /\ p \in Locked
        BY <3>1, <3>4, RegisterOps
      <4>2. q \in Commands
        BY <3>2, <4>1 DEF Commands, RegisterAsks
      <4>3. QED
        BY <4>1, <4>2 DEF GoodRegisterRequests, p
    <3>5. CASE p.op \in {"load", "block", "lost", "blocked"}
      <4>1. p \in ConfigReads \cup DomainPosts \cup DomainReads
        BY <3>1, <3>5, RegisterOps
      <4>2. q \in ConfigReads \cup DomainPosts \cup DomainReads
        BY <3>2, <4>1 DEF ConfigReads, DomainPosts, DomainReads, RegisterAsks
      <4>3. QED
        BY <1>r, <4>2
    <3>6. p.op # "event"
      BY <3>1, RegisterOps DEF Events, RegisterAsks
    <3>7. QED
      BY <3>1, <3>3, <3>4, <3>5, <3>6, RegisterOps
  <2> HIDE DEF q
  <2>4. /\ DOMAIN calls' = DOMAIN calls
        /\ \A j \in DOMAIN calls : calls'[j] = IF j = i THEN q ELSE calls[j]
    BY <2>2
  <2>5. calls' \in Seq(good)
    BY <1>0, <2>2, <2>3, ChangedSeq
  <2>6. AtMostOne(calls', Locked) /\ (NoneOf(calls, Locked) => NoneOf(calls', Locked))
    BY <1>0, <2>3, <2>4, OneReshaped
  <2>7. QED
    BY <1>0, <1>s, <1>9, <2>5, <2>6, RegisterStays DEF RegisterFails
<1>10. CASE RunStartsItself \/ RunWindsDown
  <2>1. PICK d \in Configs : server' = [server EXCEPT !.cfg = d] /\ FormOf(d) = form
    <3>1. CASE RunStartsItself
      BY <1>0, <3>1, SameForm DEF RunStartsItself
    <3>2. CASE RunWindsDown
      <4> DEFINE d == [server.cfg EXCEPT !.busy = FALSE, !.on = FALSE, !.job = "none"]
      <4>1. d \in Configs /\ FormOf(d) = form
        BY <1>0 DEF Configs, FormOf
      <4>2. server' = [server EXCEPT !.cfg = d]
        BY <3>2 DEF RunWindsDown
      <4> HIDE DEF d
      <4>3. QED
        BY <4>1, <4>2
    <3>3. QED
      BY <1>10, <3>1, <3>2
  <2>2. server' \in [cfg : Configs, blocked : Texts] /\ FormOf(server'.cfg) = form
    BY <1>0, <2>1
  <2>3. past' \in RegisterPasts /\ past'.ran = past.ran /\ UNCHANGED <<page, ui, mem, calls>>
    BY <1>0, <1>s, <1>10 DEF RunStartsItself, RunWindsDown
  <2>4. QED
    BY <2>2, <2>3 DEF RegisterInv
<1>11. CASE RegisterClicked
  BY <1>11, CardClicked
<1>12. CASE PutAnswered \/ RegisterAnswered
  BY <1>12, CardAnswered
<1>13. CASE loadRegister
  <2>1. PICK i \in Arrived("load") :
         /\ calls' = Dropped(i)
         /\ mem' = [mem EXCEPT !.cfg = IF calls[i].at = "ok" THEN normalizeRegister(calls[i].data)
                                                             ELSE @,
                               !.loading = @ /\ calls[i].arg]
    BY <1>13 DEF loadRegister
  <2>2. i \in DOMAIN calls /\ calls[i].op = "load"
    BY DEF Arrived, Pending
  <2>3. calls[i] \in ConfigReads
    BY <1>q, <2>2, RegisterOps
  <2> DEFINE d == IF calls[i].at = "ok" THEN normalizeRegister(calls[i].data) ELSE mem.cfg
             l == mem.loading /\ calls[i].arg
  <2>4. d \in Configs \cup {NoConfig}
    <3>1. calls[i].at = "ok" => calls[i].data \in Configs
      BY <2>3 DEF ConfigReads, RegisterAsks
    <3>2. QED
      BY <1>0, <3>1, ConfigValues DEF RegisterStores
  <2>5. l \in BOOLEAN
    OBVIOUS
  <2>6. mem' = [mem EXCEPT !.cfg = d, !.loading = l]
    BY <2>1
  <2> HIDE DEF d, l
  <2>7. mem' \in RegisterStores /\ mem'.saving = mem.saving
    BY <1>0, <2>4, <2>5, <2>6 DEF RegisterStores
  <2>8. QED
    BY <1>0, <1>q, <1>13, <2>1, <2>2, <2>7, RegisterStays DEF loadRegister
<1>14. CASE RegisterEdited
  BY <1>14, FormRetyped
<1>15. CASE BlacklistEffect
  <2> DEFINE has == hasYYDSProvider(mem.cfg)
             kept == Cancelled(calls, "blocked")
             text == IF has THEN ui.text ELSE ""
  <2>1. /\ ui' = [ui EXCEPT !.yyds = has, !.busy = has, !.text = text]
        /\ calls' = kept \/ calls' = Append(kept, Request("blocked", 0))
    BY <1>15 DEF BlacklistEffect
  <2>2. has \in BOOLEAN
    BY DEF hasYYDSProvider
  <2>3. text \in Texts
    BY <1>0 DEF RegisterPages, Texts
  <2>4. /\ kept \in Seq(good) /\ AtMostOne(kept, Locked)
        /\ NoneOf(calls, Locked) => NoneOf(kept, Locked)
    BY <1>0, RegisterCancelled
  <2> HIDE DEF has, kept, text
  <2>5. ui' \in RegisterPages
    BY <1>0, <2>1, <2>2, <2>3 DEF RegisterPages
  <2>6. /\ calls' \in Seq(good) /\ AtMostOne(calls', Locked)
        /\ NoneOf(kept, Locked) => NoneOf(calls', Locked)
    BY <1>r, <1>d, <2>1, <2>4, RegisterSent
  <2>7. QED
    BY <1>0, <1>15, <2>4, <2>5, <2>6, RegisterStays DEF BlacklistEffect
<1>16. CASE BlacklistEdited
  <2>1. PICK t \in {"", "b"} : ui' = [ui EXCEPT !.text = t]
    BY <1>16 DEF BlacklistEdited
  <2>2. ui' \in RegisterPages
    BY <1>0, <2>1 DEF RegisterPages, Texts
  <2>3. QED
    BY <1>0, <1>s, <1>16, <2>2, RegisterStays DEF BlacklistEdited
<1>17. CASE BlacklistPosted
  <2>1. PICK t \in {ui.text, ""} : calls' = Sent("block", t)
    BY <1>17 DEF BlacklistPosted
  <2>2. t \in Texts
    BY <1>0 DEF RegisterPages, Texts
  <2>3. /\ calls' \in Seq(good) /\ AtMostOne(calls', Locked)
        /\ NoneOf(calls, Locked) => NoneOf(calls', Locked)
    BY <1>0, <1>r, <1>d, <2>1, <2>2, RegisterSent DEF Sent
  <2>4. ui' \in RegisterPages
    BY <1>0, <1>17 DEF BlacklistPosted, RegisterPages
  <2>5. QED
    BY <1>0, <1>s, <1>17, <2>3, <2>4, RegisterStays DEF BlacklistPosted
<1>18. CASE BlacklistAnswered
  <2>1. PICK op \in {"block", "blocked", "lost"} : \E i \in Arrived(op) :
          /\ calls' = Dropped(i)
          /\ ui' = IF op = "lost" THEN ui
                   ELSE [ui EXCEPT !.busy = FALSE,
                                   !.text = IF calls[i].at = "ok" THEN calls[i].data
                                            ELSE IF op = "blocked" THEN "" ELSE @]
    BY <1>18 DEF BlacklistAnswered
  <2>e. PICK i \in Arrived(op) :
          /\ calls' = Dropped(i)
          /\ ui' = IF op = "lost" THEN ui
                   ELSE [ui EXCEPT !.busy = FALSE,
                                   !.text = IF calls[i].at = "ok" THEN calls[i].data
                                            ELSE IF op = "blocked" THEN "" ELSE @]
    BY <2>1
  <2>2. i \in DOMAIN calls /\ calls[i].op \in {"block", "lost", "blocked"}
    BY <2>e DEF Arrived, Pending
  <2>3. calls[i].at = "ok" => calls[i].data \in Texts
    <3>1. calls[i] \in DomainPosts \cup DomainReads
      BY <1>q, <2>2, RegisterOps
    <3>2. QED
      BY <3>1 DEF DomainPosts, DomainReads, RegisterAsks
  <2>4. ui' \in RegisterPages
    <3>2. ASSUME NEW t \in Texts PROVE [ui EXCEPT !.busy = FALSE, !.text = t] \in RegisterPages
      BY <1>0 DEF RegisterPages
    <3> DEFINE t == IF calls[i].at = "ok" THEN calls[i].data
                    ELSE IF op = "blocked" THEN "" ELSE ui.text
    <3>3. ui' = ui \/ ui' = [ui EXCEPT !.busy = FALSE, !.text = t]
      BY <2>e
    <3>4. t \in Texts
      BY <1>0, <2>3 DEF RegisterPages, Texts
    <3> HIDE DEF t
    <3>5. QED
      BY <1>0, <3>2, <3>3, <3>4
  <2>5. QED
    BY <1>0, <1>q, <1>18, <2>e, <2>2, <2>4, RegisterStays DEF BlacklistAnswered
<1>19. QED
  BY <1>1, <1>2, <1>3, <1>4, <1>5, <1>6, <1>7, <1>8, <1>9, <1>10, <1>11, <1>12, <1>13, <1>14,
     <1>15, <1>16, <1>17, <1>18 DEF RegisterNext
-----------------------------------------------------------------------------
(* The composer.                                                           *)

RefSources == {"turn", "file", "gallery", "result"}

Identities == [high : BOOLEAN, left : Int]

ComposerStates ==
  [prompt : BOOLEAN, refs : Seq(RefSources), files : Seq(RefSources), res : Resolutions,
   count : Int, high : BOOLEAN, quota : Int, sel : Int, chats : SUBSET Chats, reply : Int,
   menu : {"none", "count", "resolution"}]

ComposerRequests ==
  {q \in [op : {"identity", "handoff", "read", "edit"}, arg : Int, at : {"sent", "ok"},
          data : Identities \cup {"none"}] :
     q.at = "ok" => q.data \in Identities}

SentTurns ==
  [mode : {"edit", "generate"}, files : Seq(RefSources), refs : Seq(RefSources),
   res : Resolutions, count : Int, chat : Int, reply : Int]

Whole(t, entitled) ==
  /\ (t.mode = "edit") = (t.refs # <<>>)
  /\ t.refs = t.files
  /\ t.reply \in {0, t.chat}
  /\ isHighResolution(t.res) => entitled

ComposerPasts ==
  {p \in [moves : Int, sent : SentTurns \cup {NoSend}, seen : BOOLEAN, entitled : BOOLEAN] :
     p.sent # NoSend => Whole(p.sent, p.entitled)}

(* A turn is whole because the two lists of references are one at every    *)
(* step and the page's entitlement is the last it was told.                *)
ComposerInv ==
  /\ page = "composer"
  /\ ui \in ComposerStates /\ ui.refs = ui.files /\ ui.high = past.seen
  /\ calls \in Seq(ComposerRequests)
  /\ server \in Identities
  /\ past \in ComposerPasts

LEMMA ComposerInitInv == ComposerInit => ComposerInv
<1> SUFFICES ASSUME ComposerInit PROVE ComposerInv
  OBVIOUS
<1>i. 0 \in Int /\ 1 \in Int /\ 2 \in Int /\ Unread \in Int /\ Unlimited \in Int
  BY DEF Unread, Unlimited
<1>c. Request("identity", 0) \in ComposerRequests /\ Request("handoff", 0) \in ComposerRequests
  BY <1>i DEF Request, ComposerRequests
<1>p. past \in ComposerPasts /\ ~past.seen
  <2>1. past = [moves |-> 0, sent |-> NoSend, seen |-> FALSE, entitled |-> FALSE]
    BY DEF ComposerInit
  <2>2. past \in [moves : Int, sent : SentTurns \cup {NoSend}, seen : BOOLEAN, entitled : BOOLEAN]
    BY <1>i, <2>1
  <2>3. past.sent = NoSend /\ ~past.seen
    BY <2>1
  <2>4. QED
    BY <2>2, <2>3 DEF ComposerPasts
<1>s. server \in Identities
  BY <1>i DEF ComposerInit, Identities
<1>1. PICK r \in {"", "4k"}, handoff \in BOOLEAN :
        /\ ui = [prompt |-> FALSE, refs |-> <<>>, files |-> <<>>, res |-> r, count |-> 2,
                 high |-> FALSE, quota |-> Unread, sel |-> 1, chats |-> Chats,
                 reply |-> 0, menu |-> "none"]
        /\ calls = <<Request("identity", 0)>> \o
                   (IF handoff THEN <<Request("handoff", 0)>> ELSE <<>>)
  BY DEF ComposerInit
<1>2. <<>> \in Seq(RefSources)
  BY EmptySeq
<1>3. ui \in ComposerStates /\ ui.refs = ui.files /\ ~ui.high
  <2>1. r \in Resolutions
    BY DEF Resolutions
  <2>2. QED
    BY <1>i, <1>1, <1>2, <2>1 DEF ComposerStates
<1>4. calls \in Seq(ComposerRequests)
  <2>1. /\ <<Request("identity", 0)>> \in Seq(ComposerRequests)
        /\ <<Request("handoff", 0)>> \in Seq(ComposerRequests)
        /\ <<>> \in Seq(ComposerRequests)
    BY <1>c, OneSeq, EmptySeq
  <2>2. QED
    BY <1>1, <2>1, ConcatProperties
<1>5. ui.high = past.seen
  <2>1. ui.high = FALSE
    BY <1>1
  <2>2. past.seen = FALSE
    BY DEF ComposerInit
  <2>3. QED
    BY <2>1, <2>2
<1>6. QED
  BY <1>p, <1>s, <1>3, <1>4, <1>5 DEF ComposerInit, ComposerInv

(* What a step leaves behind that neither sends a turn nor hears of the    *)
(* entitlement.                                                            *)
LEMMA ComposerStays ==
  ASSUME ComposerInv, page' = page, server' \in Identities, calls' \in Seq(ComposerRequests),
         ui' \in ComposerStates, ui'.refs = ui'.files, ui'.high = ui.high,
         past' = past \/ past' = Acted
  PROVE  ComposerInv'
<1>1. past' \in ComposerPasts /\ past'.seen = past.seen
  BY DEF ComposerInv, ComposerPasts, Acted
<1>2. QED
  BY <1>1 DEF ComposerInv

LEMMA TurnFits ==
  ASSUME NEW u \in ComposerStates, u.refs = u.files
  PROVE  Turn(u) \in SentTurns /\ Whole(Turn(u), u.high) /\ Turn(u) # NoSend
<1> DEFINE target == IF u.sel \in u.chats THEN u.sel ELSE 0
           refs == IF u.files # <<>> THEN u.refs ELSE <<>>
           mode == IF u.files # <<>> THEN "edit" ELSE "generate"
           res == IF u.high \/ ~isHighResolution(u.res) THEN u.res ELSE ""
           reply == IF u.reply # 0 /\ u.reply = target THEN u.reply ELSE 0
<1>1. Turn(u) = [mode |-> mode, files |-> u.files, refs |-> refs, res |-> res, count |-> u.count,
                 chat |-> target, reply |-> reply]
  BY DEF Turn
<1>2. /\ u.sel \in Int /\ u.reply \in Int /\ u.res \in Resolutions /\ u.count \in Int
      /\ u.files \in Seq(RefSources)
  BY DEF ComposerStates
<1>3. target \in Int /\ reply \in Int /\ reply \in {0, target}
  BY <1>2
<1>4. res \in Resolutions /\ (isHighResolution(res) => u.high)
  BY <1>2 DEF Resolutions, isHighResolution
<1>5. refs = u.files /\ mode \in {"edit", "generate"} /\ ((mode = "edit") = (refs # <<>>))
  OBVIOUS
<1> HIDE DEF target, refs, mode, res, reply
<1>6. Turn(u) \in SentTurns
  BY <1>1, <1>2, <1>3, <1>4, <1>5 DEF SentTurns
<1>7. Whole(Turn(u), u.high)
  BY <1>1, <1>3, <1>4, <1>5 DEF Whole
<1>8. Turn(u).mode # NoSend.mode
  BY <1>1, <1>5 DEF NoSend
<1>9. QED
  BY <1>6, <1>7, <1>8

LEMMA ClearedFits ==
  ASSUME NEW u \in ComposerStates
  PROVE  Cleared(u) \in ComposerStates /\ Cleared(u).refs = Cleared(u).files
         /\ Cleared(u).high = u.high
<1> DEFINE res == IF ~u.high /\ isHighResolution(u.res) THEN "" ELSE u.res
           empty == <<>>
<1>1. res \in Resolutions /\ empty \in Seq(RefSources)
  BY EmptySeq DEF ComposerStates, Resolutions
<1>2. Cleared(u) = [u EXCEPT !.prompt = FALSE, !.refs = empty, !.files = empty, !.reply = 0,
                             !.res = res]
  BY DEF Cleared
<1> HIDE DEF res, empty
<1>3. \A c \in BOOLEAN : /\ [u EXCEPT !.prompt = c, !.refs = empty, !.files = empty, !.reply = 0,
                                     !.res = res] \in ComposerStates
  BY <1>1, 0 \in Int DEF ComposerStates
<1>4. Cleared(u) \in ComposerStates
  BY <1>2, <1>3, FALSE \in BOOLEAN
<1>5. Cleared(u).refs = empty /\ Cleared(u).files = empty
  BY <1>2 DEF ComposerStates
<1>6. Cleared(u).high = u.high
  BY <1>2 DEF ComposerStates
<1>7. QED
  BY <1>4, <1>5, <1>6

(* A picture added to both lists, and the turns that fill them.            *)
LEMMA AddedFits ==
  ASSUME NEW u \in ComposerStates, u.refs = u.files, NEW r \in RefSources
  PROVE  WithRef(u, r) \in ComposerStates /\ WithRef(u, r).refs = WithRef(u, r).files
         /\ WithRef(u, r).high = u.high
<1>1. Append(u.refs, r) \in Seq(RefSources)
  BY AppendedSeq DEF ComposerStates
<1>2. QED
  BY <1>1 DEF WithRef, ComposerStates

LEMMA FilledFits ==
  ASSUME NEW c \in Chats
  PROVE  TurnRefs(c) \in Seq(RefSources) /\ TurnRes(c) \in Resolutions /\ TurnCount(c) \in Int
<1>1. <<>> \in Seq(RefSources) /\ <<"turn">> \in Seq(RefSources)
  BY OneSeq, EmptySeq DEF RefSources
<1>2. QED
  BY <1>1 DEF TurnRefs, TurnRes, TurnCount, Resolutions

LEMMA FallbackFits ==
  ASSUME NEW chats \in SUBSET Chats
  PROVE  Fallback(chats) \in Int
<1>1. CASE chats = {}
  BY <1>1 DEF Fallback
<1>2. CASE chats # {}
  <2>1. \A c \in chats : c = 1 \/ c = 2
    BY DEF Chats
  <2>2. \E c \in chats : \A d \in chats : c <= d
    <3>1. CASE 1 \in chats
      BY <2>1, <3>1
    <3>2. CASE 1 \notin chats
      BY <1>2, <2>1, <3>2
    <3>3. QED
      BY <3>1, <3>2
  <2>3. Fallback(chats) \in chats
    BY <1>2, <2>2 DEF Fallback
  <2>4. QED
    BY <2>1, <2>3
<1>3. QED
  BY <1>1, <1>2

LEMMA ComposerStep == ComposerInv /\ ComposerNext => ComposerInv'
<1> SUFFICES ASSUME ComposerInv, ComposerNext PROVE ComposerInv'
  OBVIOUS
<1>0. /\ page = "composer" /\ ui \in ComposerStates /\ ui.refs = ui.files /\ ui.high = past.seen
      /\ calls \in Seq(ComposerRequests) /\ server \in Identities /\ past \in ComposerPasts
  BY DEF ComposerInv
<1>q. ASSUME NEW i \in DOMAIN calls
      PROVE  calls[i] \in ComposerRequests /\ Dropped(i) \in Seq(ComposerRequests)
  BY <1>0, CallOfSeq, RemovedSeq DEF Dropped
<1>s. ASSUME NEW op \in {"identity", "read", "edit"}, NEW arg \in Int
      PROVE  Sent(op, arg) \in Seq(ComposerRequests)
  <2>1. Request(op, arg) \in ComposerRequests
    BY DEF Request, ComposerRequests
  <2>2. QED
    BY <1>0, <2>1, AppendedSeq DEF Sent
<1>1. CASE IdentityChanges
  <2>1. server' \in Identities
    BY <1>1 DEF IdentityChanges, Identities, Unlimited
  <2>2. QED
    BY <1>0, <1>1, <2>1, ComposerStays DEF IdentityChanges
<1>2. CASE IdentityServed
  <2>1. PICK q \in Waiting("identity") : calls' = Answered(q, server)
    BY <1>2 DEF IdentityServed
  <2> DEFINE r == [calls[q] EXCEPT !.at = "ok", !.data = server]
  <2>2. q \in DOMAIN calls
    BY DEF Waiting, Pending
  <2>3. r \in ComposerRequests /\ calls' = [calls EXCEPT ![q] = r]
    BY <1>0, <1>q, <2>1, <2>2 DEF ComposerRequests, Answered
  <2> HIDE DEF r
  <2>4. calls' \in Seq(ComposerRequests)
    BY <1>0, <2>2, <2>3, ChangedSeq
  <2>5. QED
    BY <1>0, <1>2, <2>4, ComposerStays DEF IdentityServed
<1>3. CASE IdentityArrives
  <2>1. PICK q \in Arrived("identity") :
       /\ calls' = Dropped(q)
       /\ ui' = [ui EXCEPT !.high = calls[q].data.high, !.quota = calls[q].data.left,
                           !.res = IF ~calls[q].data.high /\ isHighResolution(@) THEN "" ELSE @]
       /\ past' = [past EXCEPT !.seen = calls[q].data.high]
    BY <1>3 DEF IdentityArrives
  <2> DEFINE d == calls[q].data
             res == IF ~d.high /\ isHighResolution(ui.res) THEN "" ELSE ui.res
  <2>2. q \in DOMAIN calls /\ calls[q].at # "sent"
    BY DEF Arrived, Pending
  <2>3. d \in Identities
    BY <1>q, <2>2 DEF ComposerRequests
  <2>4. res \in Resolutions
    BY <1>0 DEF ComposerStates, Resolutions
  <2>5. /\ ui' = [ui EXCEPT !.high = d.high, !.quota = d.left, !.res = res]
        /\ past' = [past EXCEPT !.seen = d.high]
    BY <2>1
  <2> HIDE DEF d, res
  <2>6. ui' \in ComposerStates /\ ui'.refs = ui'.files /\ ui'.high = d.high
    BY <1>0, <2>3, <2>4, <2>5 DEF ComposerStates, Identities
  <2>7. past' \in ComposerPasts /\ past'.seen = d.high
    BY <1>0, <2>3, <2>5 DEF ComposerPasts, Identities
  <2>8. QED
    BY <1>0, <1>q, <1>3, <2>1, <2>2, <2>6, <2>7 DEF IdentityArrives, ComposerInv
<1>4. CASE IdentityFails
  <2> DEFINE quota == IF ui.quota = Unread THEN Unknown ELSE ui.quota
  <2>1. quota \in Int /\ ui' = [ui EXCEPT !.quota = quota]
    BY <1>0, <1>4 DEF IdentityFails, ComposerStates, Unknown
  <2> HIDE DEF quota
  <2>2. ui' \in ComposerStates /\ ui'.refs = ui'.files /\ ui'.high = ui.high
    BY <1>0, <2>1 DEF ComposerStates
  <2>3. calls' \in Seq(ComposerRequests)
    BY <1>q, <1>4 DEF IdentityFails, Waiting, Pending
  <2>4. QED
    BY <1>0, <1>4, <2>2, <2>3, ComposerStays DEF IdentityFails
<1>5. CASE FocusReturns
  BY <1>0, <1>s, <1>5, ComposerStays DEF FocusReturns
<1>6. CASE ResolutionEffects
  <2> DEFINE res == IF ~ui.high /\ isHighResolution(ui.res) THEN "" ELSE ui.res
  <2>1. res \in Resolutions /\ ui' = [ui EXCEPT !.res = res]
    BY <1>0, <1>6 DEF ResolutionEffects, ComposerStates, Resolutions
  <2> HIDE DEF res
  <2>2. ui' \in ComposerStates /\ ui'.refs = ui'.files /\ ui'.high = ui.high
    BY <1>0, <2>1 DEF ComposerStates
  <2>3. QED
    BY <1>0, <1>6, <2>2, ComposerStays DEF ResolutionEffects
<1>7. CASE CountEffect
  BY <1>0, <1>7, ComposerStays DEF CountEffect
<1>8. CASE MenuToggled \/ CountChosen \/ ResolutionChosen \/ PressedOutside \/ PromptTyped
  <2>1. ui' \in ComposerStates /\ ui'.refs = ui'.files /\ ui'.high = ui.high
    <3>1. CASE MenuToggled
      <4>1. PICK m \in {"count", "resolution"} :
              ui' = [ui EXCEPT !.menu = IF ui.menu = m THEN "none" ELSE m]
        BY <3>1 DEF MenuToggled
      <4> DEFINE n == IF ui.menu = m THEN "none" ELSE m
      <4>2. n \in {"none", "count", "resolution"} /\ ui' = [ui EXCEPT !.menu = n]
        BY <4>1
      <4> HIDE DEF n
      <4>3. QED
        BY <1>0, <4>2 DEF ComposerStates
    <3>2. CASE CountChosen
      BY <1>0, <3>2, \A n \in 1 .. 2 : n \in Int DEF CountChosen, ComposerStates
    <3>3. CASE ResolutionChosen
      BY <1>0, <3>3 DEF ResolutionChosen, ComposerStates
    <3>4. CASE PressedOutside
      BY <1>0, <3>4 DEF PressedOutside, ComposerStates
    <3>5. CASE PromptTyped
      BY <1>0, <3>5 DEF PromptTyped, ComposerStates
    <3>6. QED
      BY <1>8, <3>1, <3>2, <3>3, <3>4, <3>5
  <2>2. UNCHANGED <<page, calls, server>> /\ (past' = past \/ past' = Acted)
    BY <1>8 DEF MenuToggled, CountChosen, ResolutionChosen, PressedOutside, PromptTyped
  <2>3. QED
    BY <1>0, <2>1, <2>2, ComposerStays
<1>9. CASE FilesPicked
  BY <1>0, <1>s, <1>9, ComposerStays DEF FilesPicked
<1>10. CASE FilesRead \/ HandoffFetched \/ EditFetched
  <2>1. calls' \in Seq(ComposerRequests) /\ UNCHANGED <<page, server, past>>
    BY <1>q, <1>10 DEF FilesRead, HandoffFetched, EditFetched, Waiting, Pending
  <2>2. ui' \in ComposerStates /\ ui'.refs = ui'.files /\ ui'.high = ui.high
    <3>1. CASE FilesRead
      BY <1>0, <3>1, AddedFits DEF FilesRead, RefSources
    <3>2. CASE HandoffFetched
      <4> DEFINE u == WithRef(ui, "gallery")
      <4>1. u \in ComposerStates /\ u.refs = u.files /\ u.high = ui.high
        BY <1>0, AddedFits DEF RefSources
      <4>2. ui' = [u EXCEPT !.prompt = TRUE]
        BY <3>2 DEF HandoffFetched
      <4> HIDE DEF u
      <4>3. QED
        BY <4>1, <4>2 DEF ComposerStates
    <3>3. CASE EditFetched
      <4>1. PICK q \in Waiting("edit") :
              ui' = [WithRef(ui, "result") EXCEPT !.sel = calls[q].arg, !.prompt = FALSE]
        BY <3>3 DEF EditFetched
      <4> DEFINE u == WithRef(ui, "result")
                 sel == calls[q].arg
      <4>2. u \in ComposerStates /\ u.refs = u.files /\ u.high = ui.high
        BY <1>0, AddedFits DEF RefSources
      <4>3. sel \in Int
        BY <1>q DEF Waiting, Pending, ComposerRequests
      <4>4. ui' = [u EXCEPT !.sel = sel, !.prompt = FALSE]
        BY <4>1
      <4> HIDE DEF u, sel
      <4>5. QED
        BY <4>2, <4>3, <4>4 DEF ComposerStates
    <3>4. QED
      BY <1>10, <3>1, <3>2, <3>3
  <2>3. QED
    BY <1>0, <2>1, <2>2, ComposerStays
<1>11. CASE FetchFails
  <2>1. calls' \in Seq(ComposerRequests)
    BY <1>q, <1>11 DEF FetchFails, Waiting, Pending
  <2>2. QED
    BY <1>0, <1>11, <2>1, ComposerStays DEF FetchFails
<1>12. CASE ReferenceRemoved
  <2>1. PICK i \in DOMAIN ui.refs :
          ui' = [ui EXCEPT !.refs = RemoveAt(@, i), !.files = RemoveAt(@, i)]
    BY <1>12 DEF ReferenceRemoved
  <2>2. RemoveAt(ui.refs, i) \in Seq(RefSources)
    BY <1>0, RemovedSeq DEF ComposerStates
  <2>3. ui' \in ComposerStates /\ ui'.refs = ui'.files /\ ui'.high = ui.high
    BY <1>0, <2>1, <2>2 DEF ComposerStates
  <2>4. QED
    BY <1>0, <1>12, <2>3, ComposerStays DEF ReferenceRemoved
<1>13. CASE ContinueEdit
  <2>1. ui.sel \in Int
    BY <1>0 DEF ComposerStates
  <2>2. QED
    BY <1>0, <1>s, <1>13, <2>1, ComposerStays DEF ContinueEdit
<1>14. CASE ReplyToTurn \/ ReuseTurnConfig
  <2>1. ui.sel \in Chats /\ ui.sel \in Int
    BY <1>0, <1>14 DEF ReplyToTurn, ReuseTurnConfig, ComposerStates
  <2>2. ui' \in ComposerStates /\ ui'.refs = ui'.files /\ ui'.high = ui.high
    <3> DEFINE refs == TurnRefs(ui.sel)
               kept == IF refs # <<>> THEN refs ELSE ui.refs
               res == IF ~ui.high /\ isHighResolution(TurnRes(ui.sel)) THEN "" ELSE TurnRes(ui.sel)
               count == TurnCount(ui.sel)
    <3>1. refs \in Seq(RefSources) /\ count \in Int
      BY <2>1, FilledFits
    <3>2. res \in Resolutions
      BY <2>1, FilledFits DEF Resolutions
    <3>3. kept \in Seq(RefSources)
      BY <1>0, <3>1 DEF ComposerStates
    <3>4. \/ ui' = [ui EXCEPT !.reply = ui.sel, !.refs = kept, !.files = kept]
          \/ ui' = [ui EXCEPT !.prompt = TRUE, !.count = count, !.res = res, !.refs = refs,
                              !.files = refs]
      BY <1>0, <1>14 DEF ReplyToTurn, ReuseTurnConfig
    <3> HIDE DEF refs, kept, res, count
    <3>5. \A c \in BOOLEAN :
            [ui EXCEPT !.prompt = c, !.count = count, !.res = res, !.refs = refs, !.files = refs]
              \in ComposerStates
      BY <1>0, <3>1, <3>2 DEF ComposerStates
    <3>6. [ui EXCEPT !.reply = ui.sel, !.refs = kept, !.files = kept] \in ComposerStates
      BY <1>0, <2>1, <3>3 DEF ComposerStates
    <3>7. ui' \in ComposerStates
      BY <3>4, <3>5, <3>6, TRUE \in BOOLEAN
    <3>8. ASSUME NEW c
          PROVE  LET v == [ui EXCEPT !.prompt = c, !.count = count, !.res = res, !.refs = refs,
                                     !.files = refs]
                 IN  v.refs = v.files /\ v.high = ui.high
      BY <1>0 DEF ComposerStates
    <3>9. LET v == [ui EXCEPT !.reply = ui.sel, !.refs = kept, !.files = kept]
          IN  v.refs = v.files /\ v.high = ui.high
      BY <1>0 DEF ComposerStates
    <3>10. QED
      BY <3>4, <3>7, <3>8, <3>9
  <2>3. UNCHANGED <<page, calls, server>> /\ past' = Acted
    BY <1>14 DEF ReplyToTurn, ReuseTurnConfig
  <2>4. QED
    BY <1>0, <2>2, <2>3, ComposerStays
<1>15. CASE ReplyCancelled
  <2>1. <<>> \in Seq(RefSources)
    BY EmptySeq
  <2>2. ui' \in ComposerStates /\ ui'.refs = ui'.files /\ ui'.high = ui.high
    BY <1>0, <1>15, <2>1, 0 \in Int DEF ReplyCancelled, ComposerStates
  <2>3. QED
    BY <1>0, <1>15, <2>2, ComposerStays DEF ReplyCancelled
<1>16. CASE ConversationSelected \/ DraftCreated \/ SelectionEffect
  <2>2. ui' \in ComposerStates /\ ui'.refs = ui'.files /\ ui'.high = ui.high
    <3>1. CASE ConversationSelected
      BY <1>0, <3>1 DEF ConversationSelected, ComposerStates, Chats
    <3>2. CASE DraftCreated
      <4> DEFINE u == Cleared(ui)
      <4>1. u \in ComposerStates /\ u.refs = u.files /\ u.high = ui.high
        BY <1>0, ClearedFits
      <4>2. ui' = [u EXCEPT !.sel = 0]
        BY <3>2 DEF DraftCreated
      <4> HIDE DEF u
      <4>3. QED
        BY <4>1, <4>2 DEF ComposerStates
    <3>3. CASE SelectionEffect
      <4> DEFINE sel == Fallback(ui.chats)
      <4>1. sel \in Int
        BY <1>0, FallbackFits DEF ComposerStates
      <4>2. ui' = [ui EXCEPT !.sel = sel]
        BY <3>3 DEF SelectionEffect
      <4> HIDE DEF sel
      <4>3. QED
        BY <1>0, <4>1, <4>2 DEF ComposerStates
    <3>4. QED
      BY <1>16, <3>1, <3>2, <3>3
  <2>3. UNCHANGED <<page, calls, server>> /\ (past' = past \/ past' = Acted)
    BY <1>16 DEF ConversationSelected, DraftCreated, SelectionEffect
  <2>4. QED
    BY <1>0, <2>2, <2>3, ComposerStays
<1>17. CASE ConversationDeleted
  <2>1. PICK c \in ui.chats :
          ui' = [(IF ui.sel = c THEN [Cleared(ui) EXCEPT !.sel = Fallback(ui.chats \ {c})] ELSE ui)
                   EXCEPT !.chats = ui.chats \ {c}]
    BY <1>17 DEF ConversationDeleted
  <2> DEFINE left == ui.chats \ {c}
             sel == Fallback(left)
             u == IF ui.sel = c THEN [Cleared(ui) EXCEPT !.sel = sel] ELSE ui
  <2>2. left \in SUBSET Chats
    BY <1>0 DEF ComposerStates
  <2>3. sel \in Int
    BY <2>2, FallbackFits
  <2> HIDE DEF sel
  <2>4. u \in ComposerStates /\ u.refs = u.files /\ u.high = ui.high
    <3> DEFINE v == Cleared(ui)
    <3>1. v \in ComposerStates /\ v.refs = v.files /\ v.high = ui.high
      BY <1>0, ClearedFits
    <3>2. u = [v EXCEPT !.sel = sel] \/ u = ui
      OBVIOUS
    <3> HIDE DEF v, u
    <3>3. QED
      BY <1>0, <2>3, <3>1, <3>2 DEF ComposerStates
  <2>5. ui' = [u EXCEPT !.chats = left]
    BY <2>1 DEF sel
  <2> HIDE DEF u, left
  <2>6. ui' \in ComposerStates /\ ui'.refs = ui'.files /\ ui'.high = ui.high
    BY <2>2, <2>4, <2>5 DEF ComposerStates
  <2>7. QED
    BY <1>0, <1>17, <2>6, ComposerStays DEF ConversationDeleted
<1>18. CASE handleSubmit
  <2> DEFINE t == Turn(ui)
  <2>1. /\ UNCHANGED <<page, calls, server>> /\ ui' = Cleared(ui)
        /\ past' = [past EXCEPT !.moves = @ + 1, !.sent = t, !.entitled = past.seen]
    BY <1>18 DEF handleSubmit, Acted
  <2>2. ui' \in ComposerStates /\ ui'.refs = ui'.files /\ ui'.high = ui.high
    BY <1>0, <2>1, ClearedFits
  <2>3. t \in SentTurns /\ Whole(t, past.seen)
    BY <1>0, TurnFits
  <2> HIDE DEF t
  <2>4. past' \in ComposerPasts /\ past'.seen = past.seen
    <3>1. past.moves + 1 \in Int /\ past.seen \in BOOLEAN
      BY <1>0 DEF ComposerPasts
    <3>2. /\ past' \in [moves : Int, sent : SentTurns \cup {NoSend}, seen : BOOLEAN,
                        entitled : BOOLEAN]
          /\ past'.sent = t /\ past'.seen = past.seen /\ past'.entitled = past.seen
      BY <1>0, <2>1, <2>3, <3>1 DEF ComposerPasts
    <3>3. QED
      BY <2>3, <3>2 DEF ComposerPasts
  <2>5. QED
    BY <1>0, <2>1, <2>2, <2>4 DEF ComposerInv
<1>19. QED
  BY <1>1, <1>2, <1>3, <1>4, <1>5, <1>6, <1>7, <1>8, <1>9, <1>10, <1>11, <1>12, <1>13, <1>14,
     <1>15, <1>16, <1>17, <1>18 DEF ComposerNext

LEMMA ComposerSends == ComposerInv => SentTurnIsWhole
BY DEF ComposerInv, ComposerPasts, Whole, SentTurnIsWhole
-----------------------------------------------------------------------------
(* The session.                                                            *)

MaybeKeys == Keys \cup {None}

SessionCaches == [cached : MaybeKeys, once : BOOLEAN, fresh : BOOLEAN]

SessionCalls ==
  {q \in [op : {"validate", "login", "logout"}, arg : MaybeKeys,
          at : {"sent", "ok", "failed", "stored"}, data : SUBSET {"page", "nav"},
          pending : BOOLEAN] :
     q.pending => q.op = "validate"}

(* What may be on the way without bringing a session back.                 *)
QuietCalls == {q \in SessionCalls : q.op = "logout" \/ (q.op = "login" /\ q.at # "stored")}

Logouts == {q \in SessionCalls : q.op = "logout"}

SessionPasts == [moves : Int, out : BOOLEAN, late : BOOLEAN]

IsApp(a) == a = [ui |-> a.ui, mem |-> a.mem, calls |-> a.calls, disk |-> a.disk]

FineApp(a) ==
  /\ IsApp(a)
  /\ a.mem \in SessionCaches /\ a.calls \in Seq(SessionCalls) /\ a.disk \in MaybeKeys

QuietApp(a) == a.disk = None /\ a.calls \in Seq(QuietCalls)

(* NoGhostLogin is not inductive: from the first step of a logout on       *)
(* nothing is stored and nothing is on the way that would store a session, *)
(* unless it was on the way before (late).                                 *)
SessionInv ==
  /\ page = "session"
  /\ FineApp(App)
  /\ past \in SessionPasts
  /\ (past.out \/ ~NoneOf(calls, Logouts)) /\ ~past.late => QuietApp(App)
  /\ past.out /\ ~past.late => mem.cached = None

(* What a handler turns the page into: no logout of its own, and nothing   *)
(* that brings a session back where there was none.                        *)
Harmless(a, b) ==
  /\ b.disk = a.disk
  /\ NoneOf(a.calls, Logouts) => NoneOf(b.calls, Logouts)
  /\ QuietApp(a) => QuietApp(b) /\ b.mem.cached \in {None, a.mem.cached}

LEMMA HarmlessTwice ==
  ASSUME NEW a, NEW b, NEW c, Harmless(a, b), Harmless(b, c)
  PROVE  Harmless(a, c)
BY DEF Harmless

(* Two or three parts of the page are replaced.                            *)
LEMMA ChangedApp ==
  ASSUME NEW a, IsApp(a), NEW u, NEW cs
  PROVE  [a EXCEPT !.ui = u, !.calls = cs]
           = [ui |-> u, mem |-> a.mem, calls |-> cs, disk |-> a.disk]
<1>1. PICK v, n, ds, d : a = [ui |-> v, mem |-> n, calls |-> ds, disk |-> d]
  BY DEF IsApp
<1>2. a.mem = n /\ a.disk = d
  BY <1>1
<1> DEFINE x == [a EXCEPT !.calls = cs]
<1>3. [a EXCEPT !.ui = u, !.calls = cs] = [x EXCEPT !.ui = u]
  BY <1>1
<1>4. x = [ui |-> v, mem |-> n, calls |-> cs, disk |-> d]
  BY <1>1
<1> HIDE DEF x
<1>5. [x EXCEPT !.ui = u] = [ui |-> u, mem |-> n, calls |-> cs, disk |-> d]
  BY <1>4
<1>6. QED
  BY <1>2, <1>3, <1>5

LEMMA ReplacedApp ==
  ASSUME NEW a, IsApp(a), NEW u, NEW m, NEW cs
  PROVE  [a EXCEPT !.mem = m, !.calls = cs, !.ui = u]
           = [ui |-> u, mem |-> m, calls |-> cs, disk |-> a.disk]
<1>1. PICK v, n, ds, d : a = [ui |-> v, mem |-> n, calls |-> ds, disk |-> d]
  BY DEF IsApp
<1>2. a.disk = d
  BY <1>1
<1> DEFINE x == [a EXCEPT !.calls = cs]
           y == [x EXCEPT !.mem = m]
<1>3. [a EXCEPT !.mem = m, !.calls = cs, !.ui = u] = [y EXCEPT !.ui = u]
  BY <1>1
<1>4. x = [ui |-> v, mem |-> n, calls |-> cs, disk |-> d]
  BY <1>1
<1> HIDE DEF x
<1>5. y = [ui |-> v, mem |-> m, calls |-> cs, disk |-> d]
  BY <1>4
<1> HIDE DEF y
<1>6. [y EXCEPT !.ui = u] = [ui |-> u, mem |-> m, calls |-> cs, disk |-> d]
  BY <1>5
<1>7. QED
  BY <1>2, <1>3, <1>6

LEMMA AppliedApp ==
  ASSUME NEW a, FineApp(a), Applied(a)
  PROVE  App' = a
BY DEF FineApp, IsApp, Applied, App

LEMMA PrimedCache ==
  ASSUME NEW s \in MaybeKeys
  PROVE  /\ [cached |-> s, once |-> TRUE, fresh |-> TRUE] \in SessionCaches
         /\ [cached |-> s, once |-> FALSE, fresh |-> FALSE] \in SessionCaches
<1>1. \A b \in BOOLEAN : [cached |-> s, once |-> b, fresh |-> b] \in SessionCaches
  BY DEF SessionCaches
<1>2. QED
  BY <1>1, TRUE \in BOOLEAN, FALSE \in BOOLEAN

LEMMA PrimedApp ==
  ASSUME NEW a, FineApp(a), NEW s \in MaybeKeys
  PROVE  LET b == primeAuthSessionCache(a, s)
         IN  /\ FineApp(b) /\ b.disk = a.disk /\ b.calls = a.calls /\ b.ui = a.ui
             /\ b.mem.cached = s
<1> DEFINE m == [cached |-> s, once |-> TRUE, fresh |-> TRUE]
           b == [a EXCEPT !.mem = m]
<1>1. m \in SessionCaches /\ m.cached = s
  BY PrimedCache
<1>2. primeAuthSessionCache(a, s) = b
  BY DEF primeAuthSessionCache
<1> HIDE DEF m
<1>3. /\ b = [ui |-> a.ui, mem |-> m, calls |-> a.calls, disk |-> a.disk]
  BY DEF FineApp, IsApp
<1> HIDE DEF b
<1>4. QED
  BY <1>1, <1>2, <1>3 DEF FineApp, IsApp

LEMMA SettledApp ==
  ASSUME NEW a, FineApp(a), NEW who, NEW s
  PROVE  LET b == Settled(a, who, s)
         IN  FineApp(b) /\ b.mem = a.mem /\ b.disk = a.disk /\ b.calls = a.calls
<1>1. PICK u : Settled(a, who, s) = [a EXCEPT !.ui = u]
  BY DEF Settled
<1> DEFINE b == [a EXCEPT !.ui = u]
<1>2. b = [ui |-> u, mem |-> a.mem, calls |-> a.calls, disk |-> a.disk]
  BY DEF FineApp, IsApp
<1> HIDE DEF b
<1>3. QED
  BY <1>1, <1>2 DEF FineApp, IsApp, b

(* The requests of a page are changed without becoming others.             *)
LEMMA ReshapedApp ==
  ASSUME NEW a, FineApp(a), NEW b, IsApp(b), b.mem = a.mem, b.disk = a.disk,
         b.calls = [i \in DOMAIN a.calls |-> b.calls[i]],
         \A i \in DOMAIN a.calls :
           /\ b.calls[i] \in SessionCalls
           /\ b.calls[i].op = a.calls[i].op /\ b.calls[i].at = a.calls[i].at
  PROVE  FineApp(b) /\ Harmless(a, b)
<1>0. a.calls \in Seq(SessionCalls) /\ DOMAIN b.calls = DOMAIN a.calls
  BY DEF FineApp
<1>1. b.calls \in Seq(SessionCalls)
  BY <1>0, ReshapedSeq
<1>2. NoneOf(a.calls, Logouts) => NoneOf(b.calls, Logouts)
  <2>1. \A i \in DOMAIN a.calls : a.calls[i] \in SessionCalls
    BY <1>0, CallOfSeq
  <2>2. \A i \in DOMAIN a.calls : b.calls[i] \in Logouts => a.calls[i] \in Logouts
    BY <2>1 DEF Logouts
  <2>3. QED
    BY <1>0, <2>2, OneReshaped
<1>3. ASSUME QuietApp(a) PROVE QuietApp(b)
  <2>1. \A i \in DOMAIN a.calls : a.calls[i] \in QuietCalls
    BY <1>3, CallOfSeq DEF QuietApp
  <2>2. \A i \in DOMAIN a.calls : b.calls[i] \in QuietCalls
    BY <2>1 DEF QuietCalls
  <2>3. b.calls \in Seq(QuietCalls)
    BY <1>0, <2>2, ReshapedSeq
  <2>4. QED
    BY <1>3, <2>3 DEF QuietApp
<1>4. QED
  BY <1>1, <1>2, <1>3 DEF FineApp, Harmless

LEMMA ValidatedApp ==
  ASSUME NEW a, FineApp(a), NEW who \in {"page", "nav"}
  PROVE  LET b == getValidatedAuthSession(a, who) IN FineApp(b) /\ Harmless(a, b)
<1> DEFINE b == getValidatedAuthSession(a, who)
           running == {i \in DOMAIN a.calls : a.calls[i].pending}
           add(i) == IF i \in running THEN [a.calls[i] EXCEPT !.data = @ \cup {who}]
                                      ELSE a.calls[i]
           q == SessionCall("validate", a.disk, {who})
<1>0. /\ a.mem \in SessionCaches /\ a.calls \in Seq(SessionCalls) /\ a.disk \in MaybeKeys
      /\ \A i \in DOMAIN a.calls : a.calls[i] \in SessionCalls
      /\ a = [ui |-> a.ui, mem |-> a.mem, calls |-> a.calls, disk |-> a.disk]
  BY CallOfSeq DEF FineApp, IsApp
<1>1. \/ b = Settled(a, who, a.mem.cached)
      \/ running # {} /\ b = [a EXCEPT !.calls = [i \in DOMAIN a.calls |-> add(i)]]
      \/ a.disk = None /\ b = Settled(primeAuthSessionCache(a, None), who, None)
      \/ running = {} /\ a.disk # None /\ b = [a EXCEPT !.calls = Append(a.calls, q)]
  BY DEF getValidatedAuthSession
<1>2. CASE b = Settled(a, who, a.mem.cached)
  <2>1. FineApp(b) /\ b.mem = a.mem /\ b.disk = a.disk /\ b.calls = a.calls
    BY <1>2, SettledApp
  <2>2. QED
    BY <2>1 DEF Harmless, QuietApp
<1>3. CASE running # {} /\ b = [a EXCEPT !.calls = [i \in DOMAIN a.calls |-> add(i)]]
  <2> DEFINE cs == [i \in DOMAIN a.calls |-> add(i)]
  <2>1. ASSUME NEW i \in DOMAIN a.calls
        PROVE  /\ cs[i] \in SessionCalls
               /\ cs[i].op = a.calls[i].op /\ cs[i].at = a.calls[i].at
    <3> DEFINE d == a.calls[i].data \cup {who}
    <3>1. a.calls[i] \in SessionCalls /\ d \in SUBSET {"page", "nav"}
      BY <1>0 DEF SessionCalls
    <3>2. cs[i] = [a.calls[i] EXCEPT !.data = d] \/ cs[i] = a.calls[i]
      OBVIOUS
    <3> HIDE DEF d, cs
    <3>3. QED
      BY <3>1, <3>2 DEF SessionCalls
  <2>2. cs = [i \in DOMAIN a.calls |-> cs[i]]
    OBVIOUS
  <2> HIDE DEF cs
  <2>3. b = [ui |-> a.ui, mem |-> a.mem, calls |-> cs, disk |-> a.disk]
    BY <1>0, <1>3 DEF cs
  <2> HIDE DEF b
  <2>4. IsApp(b) /\ b.mem = a.mem /\ b.disk = a.disk /\ b.calls = cs
    BY <2>3 DEF IsApp
  <2>5. FineApp(b) /\ Harmless(a, b)
    BY <2>1, <2>2, <2>4, ReshapedApp
  <2>6. QED
    BY <2>5 DEF b
<1>4. CASE a.disk = None /\ b = Settled(primeAuthSessionCache(a, None), who, None)
  <2> DEFINE p == primeAuthSessionCache(a, None)
  <2>1. FineApp(p) /\ p.disk = a.disk /\ p.calls = a.calls /\ p.mem.cached = None
    BY PrimedApp DEF MaybeKeys
  <2> HIDE DEF p
  <2>2. FineApp(b) /\ b.mem = p.mem /\ b.disk = p.disk /\ b.calls = p.calls
    BY <1>4, <2>1, SettledApp DEF p
  <2>3. QED
    BY <2>1, <2>2 DEF Harmless, QuietApp
<1>5. CASE running = {} /\ a.disk # None /\ b = [a EXCEPT !.calls = Append(a.calls, q)]
  <2>1. q \in SessionCalls /\ q \notin Logouts
    <3>1. q = [op |-> "validate", arg |-> a.disk, at |-> "sent", data |-> {who},
               pending |-> TRUE]
      BY DEF SessionCall
    <3>2. \A c \in BOOLEAN : [op |-> "validate", arg |-> a.disk, at |-> "sent", data |-> {who},
                              pending |-> c] \in SessionCalls
      BY <1>0 DEF SessionCalls
    <3>3. q.op = "validate"
      BY <3>1
    <3>4. QED
      BY <3>1, <3>2, <3>3, TRUE \in BOOLEAN DEF Logouts
  <2> DEFINE cs == Append(a.calls, q)
  <2>2. cs \in Seq(SessionCalls) /\ (NoneOf(a.calls, Logouts) => NoneOf(cs, Logouts))
    BY <1>0, <2>1, AppendedSeq, OneAppended
  <2> HIDE DEF cs
  <2>3. b = [ui |-> a.ui, mem |-> a.mem, calls |-> cs, disk |-> a.disk]
    BY <1>0, <1>5 DEF cs
  <2> HIDE DEF b
  <2>4. FineApp(b)
    BY <1>0, <2>2, <2>3 DEF FineApp, IsApp
  <2>5. Harmless(a, b)
    <3>1. b.disk = a.disk /\ b.calls = cs /\ ~QuietApp(a)
      BY <1>5, <2>3 DEF QuietApp
    <3>2. QED
      BY <2>2, <3>1 DEF Harmless
  <2>6. QED
    BY <2>4, <2>5 DEF b
<1>6. QED
  BY <1>1, <1>2, <1>3, <1>4, <1>5

LEMMA MountedApp ==
  ASSUME NEW a, FineApp(a), NEW path
  PROVE  LET b == SessionMounted(a, path) IN FineApp(b) /\ Harmless(a, b)
<1> DEFINE cs == [i \in DOMAIN a.calls |-> [a.calls[i] EXCEPT !.data = {}]]
<1>1. PICK u : LET shown == [a EXCEPT !.ui = u, !.calls = cs]
                   page1 == getValidatedAuthSession(shown, "page")
               IN  SessionMounted(a, path) = IF path = "login" THEN [page1 EXCEPT !.ui.nav = None]
                                             ELSE getValidatedAuthSession(page1, "nav")
  BY DEF SessionMounted
<1> DEFINE shown == [a EXCEPT !.ui = u, !.calls = cs]
           page1 == getValidatedAuthSession(shown, "page")
<1>2. FineApp(shown) /\ Harmless(a, shown)
  <2>2. ASSUME NEW i \in DOMAIN a.calls
        PROVE  /\ cs[i] \in SessionCalls
               /\ cs[i].op = a.calls[i].op /\ cs[i].at = a.calls[i].at
    <3>1. a.calls[i] \in SessionCalls /\ cs[i] = [a.calls[i] EXCEPT !.data = {}]
      BY CallOfSeq DEF FineApp
    <3> HIDE DEF cs
    <3>2. QED
      BY <3>1 DEF SessionCalls
  <2>3. cs = [i \in DOMAIN a.calls |-> cs[i]]
    OBVIOUS
  <2> HIDE DEF cs
  <2>1. shown = [ui |-> u, mem |-> a.mem, calls |-> cs, disk |-> a.disk]
    BY ChangedApp DEF FineApp
  <2> HIDE DEF shown
  <2>4. IsApp(shown) /\ shown.mem = a.mem /\ shown.disk = a.disk /\ shown.calls = cs
    BY <2>1 DEF IsApp
  <2>5. QED
    BY <2>2, <2>3, <2>4, ReshapedApp
<1> HIDE DEF shown
<1>3. FineApp(page1) /\ Harmless(a, page1)
  BY <1>2, ValidatedApp, HarmlessTwice
<1>4. CASE path = "login"
  <2> DEFINE b == [page1 EXCEPT !.ui.nav = None]
  <2>1. SessionMounted(a, path) = b
    BY <1>1, <1>4 DEF shown
  <2> HIDE DEF page1
  <2>2. PICK v : b = [page1 EXCEPT !.ui = v]
    OBVIOUS
  <2>3. b = [ui |-> v, mem |-> page1.mem, calls |-> page1.calls, disk |-> page1.disk]
    BY <1>3, <2>2 DEF FineApp, IsApp
  <2> HIDE DEF b
  <2>4. FineApp(b)
    BY <1>3, <2>3 DEF FineApp, IsApp
  <2>5. Harmless(a, b)
    BY <1>3, <2>3 DEF Harmless, QuietApp
  <2>6. QED
    BY <2>1, <2>4, <2>5
<1>5. CASE path # "login"
  <2>1. SessionMounted(a, path) = getValidatedAuthSession(page1, "nav")
    BY <1>1, <1>5 DEF shown
  <2> HIDE DEF page1
  <2>2. QED
    BY <1>3, <2>1, ValidatedApp, HarmlessTwice
<1>6. QED
  BY <1>4, <1>5

(* A full load forgets what was cached and what was on the way.            *)
LEMMA LoadedApp ==
  ASSUME NEW a, FineApp(a), NEW path
  PROVE  LET b == PageLoaded(a, path)
         IN  /\ FineApp(b) /\ b.disk = a.disk /\ NoneOf(b.calls, Logouts)
             /\ a.disk = None => QuietApp(b) /\ b.mem.cached = None
<1> DEFINE m == [cached |-> None, once |-> FALSE, fresh |-> FALSE]
           empty == <<>>
           bare == [a EXCEPT !.mem = m, !.calls = empty, !.ui.nav = None]
           b == SessionMounted(bare, path)
<1>1. PageLoaded(a, path) = b
  BY DEF PageLoaded
<1>2. m \in SessionCaches /\ m.cached = None
  BY PrimedCache DEF MaybeKeys
<1>3. /\ empty \in Seq(SessionCalls) /\ empty \in Seq(QuietCalls) /\ NoneOf(empty, Logouts)
  BY EmptySeq DEF NoneOf
<1> HIDE DEF m, empty
<1>4. PICK u : bare = [a EXCEPT !.mem = m, !.calls = empty, !.ui = u]
  OBVIOUS
<1> HIDE DEF bare
<1>5. bare = [ui |-> u, mem |-> m, calls |-> empty, disk |-> a.disk]
  BY <1>4, ReplacedApp DEF FineApp
<1>6. FineApp(bare) /\ bare.disk = a.disk /\ bare.calls = empty /\ bare.mem.cached = None
  BY <1>2, <1>3, <1>5 DEF FineApp, IsApp
<1>7. FineApp(b) /\ Harmless(bare, b)
  BY <1>6, MountedApp
<1> HIDE DEF b
<1>8. QED
  BY <1>1, <1>3, <1>6, <1>7 DEF Harmless, QuietApp

LEMMA SessionInitInv == SessionInit => SessionInv
<1> SUFFICES ASSUME SessionInit PROVE SessionInv
  OBVIOUS
<1>1. PICK path \in {"home", "image", "keys"} :
        LET blank == [ui |-> [path |-> path, session |-> None, nav |-> None,
                              checking |-> TRUE, goto |-> None],
                      mem |-> [cached |-> None, once |-> FALSE, fresh |-> FALSE],
                      calls |-> <<>>, disk |-> disk]
            first == PageLoaded(blank, path)
        IN  ui = first.ui /\ mem = first.mem /\ calls = first.calls
  BY DEF SessionInit
<1> DEFINE u == [path |-> path, session |-> None, nav |-> None, checking |-> TRUE, goto |-> None]
           m == [cached |-> None, once |-> FALSE, fresh |-> FALSE]
           empty == <<>>
           blank == [ui |-> u, mem |-> m, calls |-> empty, disk |-> disk]
           first == PageLoaded(blank, path)
<1>2. m \in SessionCaches
  BY PrimedCache DEF MaybeKeys
<1>3. empty \in Seq(SessionCalls)
  BY EmptySeq
<1>4. disk \in MaybeKeys /\ page = "session"
  BY DEF SessionInit, MaybeKeys
<1>5. ui = first.ui /\ mem = first.mem /\ calls = first.calls
  BY <1>1
<1> HIDE DEF u, m, empty
<1>6. FineApp(blank) /\ blank.disk = disk
  BY <1>2, <1>3, <1>4 DEF FineApp, IsApp
<1> HIDE DEF blank
<1>7. FineApp(first) /\ first.disk = disk /\ NoneOf(first.calls, Logouts)
  BY <1>6, LoadedApp
<1> HIDE DEF first
<1>8. App = first
  BY <1>5, <1>7 DEF App, FineApp, IsApp
<1>9. past \in SessionPasts /\ ~past.out
  <2>1. past = [moves |-> 0, out |-> FALSE, late |-> FALSE]
    BY DEF SessionInit
  <2>2. \A c \in BOOLEAN : [moves |-> 0, out |-> c, late |-> c] \in SessionPasts
    BY 0 \in Int DEF SessionPasts
  <2>3. QED
    BY <2>1, <2>2, FALSE \in BOOLEAN
<1>10. NoneOf(calls, Logouts)
  BY <1>5, <1>7
<1>11. QED
  BY <1>4, <1>7, <1>8, <1>9, <1>10 DEF SessionInv

(* What a step leaves behind that starts and ends no logout.               *)
LEMMA SessionStays ==
  ASSUME SessionInv, page' = page, FineApp(App)', past' \in SessionPasts,
         past'.out => past.out, past.late => past'.late,
         NoneOf(calls, Logouts) => NoneOf(calls', Logouts),
         QuietApp(App) => past'.late \/ (QuietApp(App)' /\ mem'.cached \in {None, mem.cached})
  PROVE  SessionInv'
<1>1. ASSUME past'.out \/ ~NoneOf(calls', Logouts), ~past'.late
      PROVE  QuietApp(App)' /\ (past'.out => mem'.cached = None)
  <2>1. (past.out \/ ~NoneOf(calls, Logouts)) /\ ~past.late
    BY <1>1
  <2>2. QuietApp(App) /\ (past.out => mem.cached = None)
    BY <2>1 DEF SessionInv
  <2>3. QuietApp(App)' /\ mem'.cached \in {None, mem.cached}
    BY <1>1, <2>2
  <2>4. QED
    BY <2>2, <2>3
<1>2. QED
  BY <1>1 DEF SessionInv

LEMMA OrphanedSeq ==
  ASSUME NEW cs \in Seq(SessionCalls)
  PROVE  /\ Orphaned(cs) \in Seq(SessionCalls)
         /\ NoneOf(cs, Logouts) => NoneOf(Orphaned(cs), Logouts)
         /\ cs \in Seq(QuietCalls) => Orphaned(cs) \in Seq(QuietCalls)
<1> DEFINE t == Orphaned(cs)
<1>1. t = [i \in DOMAIN cs |-> [cs[i] EXCEPT !.pending = FALSE]]
  BY DEF Orphaned
<1>2. ASSUME NEW i \in DOMAIN cs
      PROVE  /\ t[i] \in SessionCalls /\ (t[i] \in Logouts => cs[i] \in Logouts)
             /\ cs[i] \in QuietCalls => t[i] \in QuietCalls
  <2> DEFINE q == cs[i]
  <2>1. q \in SessionCalls
    BY CallOfSeq
  <2>2. t[i] = [q EXCEPT !.pending = FALSE]
    BY <1>1
  <2> HIDE DEF q, t
  <2>3. \A c \in BOOLEAN : ~c => [q EXCEPT !.pending = c] \in SessionCalls
    BY <2>1 DEF SessionCalls
  <2>4. t[i] \in SessionCalls
    BY <2>2, <2>3, FALSE \in BOOLEAN
  <2>5. t[i].op = q.op /\ t[i].at = q.at
    BY <2>1, <2>2 DEF SessionCalls
  <2>6. QED
    BY <2>1, <2>4, <2>5 DEF Logouts, QuietCalls, q
<1>3. DOMAIN t = DOMAIN cs /\ t = [i \in DOMAIN cs |-> t[i]]
  BY <1>1
<1> HIDE DEF t
<1>4. t \in Seq(SessionCalls)
  BY <1>2, <1>3, ReshapedSeq
<1>5. NoneOf(cs, Logouts) => NoneOf(t, Logouts)
  BY <1>2, <1>3, OneReshaped
<1>6. ASSUME cs \in Seq(QuietCalls) PROVE t \in Seq(QuietCalls)
  <2>1. \A i \in DOMAIN cs : t[i] \in QuietCalls
    BY <1>2, <1>6, CallOfSeq
  <2>2. QED
    BY <1>3, <1>6, <2>1, ReshapedSeq
<1>7. QED
  BY <1>4, <1>5, <1>6 DEF t

(* The requests of the page are replaced.                                  *)
LEMMA RecalledApp ==
  ASSUME NEW a, FineApp(a), NEW cs \in Seq(SessionCalls)
  PROVE  LET b == [a EXCEPT !.calls = cs]
         IN  FineApp(b) /\ b.mem = a.mem /\ b.calls = cs /\ b.disk = a.disk
<1>1. PICK v, n, ds, d : a = [ui |-> v, mem |-> n, calls |-> ds, disk |-> d]
  BY DEF FineApp, IsApp
<1>2. [a EXCEPT !.calls = cs] = [ui |-> v, mem |-> n, calls |-> cs, disk |-> d]
  BY <1>1
<1>3. a.mem = n /\ a.disk = d
  BY <1>1
<1>4. n \in SessionCaches /\ d \in MaybeKeys
  BY <1>3 DEF FineApp
<1>5. QED
  BY <1>2, <1>3, <1>4 DEF FineApp, IsApp

LEMMA RoutedApp ==
  ASSUME NEW a, FineApp(a), NEW path
  PROVE  LET b == [a EXCEPT !.ui.goto = path]
         IN  FineApp(b) /\ b.mem = a.mem /\ b.calls = a.calls /\ b.disk = a.disk
<1> DEFINE b == [a EXCEPT !.ui.goto = path]
<1>1. PICK u : b = [a EXCEPT !.ui = u]
  OBVIOUS
<1>2. PICK v, n, ds, d : a = [ui |-> v, mem |-> n, calls |-> ds, disk |-> d]
  BY DEF FineApp, IsApp
<1> HIDE DEF b
<1>3. b = [ui |-> u, mem |-> n, calls |-> ds, disk |-> d]
  BY <1>1, <1>2
<1>4. a.mem = n /\ a.disk = d /\ a.calls = ds
  BY <1>2
<1>5. n \in SessionCaches /\ d \in MaybeKeys /\ ds \in Seq(SessionCalls)
  BY <1>4 DEF FineApp
<1>6. QED
  BY <1>3, <1>4, <1>5 DEF FineApp, IsApp, b

LEMMA SessionStep == SessionInv /\ SessionNext => SessionInv'
<1> SUFFICES ASSUME SessionInv, SessionNext PROVE SessionInv'
  OBVIOUS
<1>0. /\ page = "session" /\ FineApp(App) /\ past \in SessionPasts
      /\ mem \in SessionCaches /\ calls \in Seq(SessionCalls) /\ disk \in MaybeKeys
      /\ App.mem = mem /\ App.calls = calls /\ App.disk = disk
  BY DEF SessionInv, FineApp, App
<1>q. ASSUME NEW i \in DOMAIN calls
      PROVE  calls[i] \in SessionCalls /\ (QuietApp(App) => calls[i] \in QuietCalls)
  BY <1>0, CallOfSeq DEF QuietApp
<1>d. ASSUME NEW i \in DOMAIN calls
      PROVE  /\ RemoveAt(calls, i) \in Seq(SessionCalls)
             /\ NoneOf(calls, Logouts) => NoneOf(RemoveAt(calls, i), Logouts)
             /\ QuietApp(App) => RemoveAt(calls, i) \in Seq(QuietCalls)
  <2>1. RemoveAt(calls, i) \in Seq(SessionCalls)
    BY <1>0, RemovedSeq
  <2>2. NoneOf(calls, Logouts) => NoneOf(RemoveAt(calls, i), Logouts)
    <3>1. \A j \in DOMAIN RemoveAt(calls, i) :
            /\ j \in DOMAIN calls /\ j + 1 \in DOMAIN calls
            /\ RemoveAt(calls, i)[j] = IF j < i THEN calls[j] ELSE calls[j + 1]
      BY <1>0, RemovedSeq
    <3>2. QED
      BY <3>1 DEF NoneOf
  <2>3. QuietApp(App) => RemoveAt(calls, i) \in Seq(QuietCalls)
    BY <1>0, RemovedSeq DEF QuietApp
  <2>4. QED
    BY <2>1, <2>2, <2>3
<1>v. Visited \in SessionPasts /\ Visited.out = past.out /\ Visited.late = past.late
  <2>1. Visited = [past EXCEPT !.moves = past.moves + 1]
    BY DEF Visited
  <2>2. past.moves + 1 \in Int
    BY <1>0 DEF SessionPasts
  <2>3. QED
    BY <1>0, <2>1, <2>2 DEF SessionPasts
<1>a. App' = [ui |-> ui', mem |-> mem', calls |-> calls', disk |-> disk']
  BY DEF App
<1>f. ASSUME mem' \in SessionCaches, calls' \in Seq(SessionCalls), disk' \in MaybeKeys
      PROVE  FineApp(App)' /\ App'.disk = disk' /\ App'.calls = calls'
  BY <1>a, <1>f DEF FineApp, IsApp
<1>r. ASSUME NEW b, FineApp(b), Harmless(App, b), Applied(b), page' = page,
             past' = past \/ past' = Visited
      PROVE  SessionInv'
  <2>1. App' = b /\ mem' = b.mem /\ calls' = b.calls
    BY <1>r, AppliedApp DEF Applied
  <2>2. FineApp(App)'
    BY <1>r, <2>1
  <2>3. NoneOf(calls, Logouts) => NoneOf(calls', Logouts)
    BY <1>0, <1>r, <2>1 DEF Harmless
  <2>4. QuietApp(App) => QuietApp(App)' /\ mem'.cached \in {None, mem.cached}
    BY <1>0, <1>r, <2>1 DEF Harmless
  <2>5. past' \in SessionPasts /\ past'.out = past.out /\ past'.late = past.late
    BY <1>0, <1>r, <1>v
  <2>6. QED
    BY <1>r, <2>2, <2>3, <2>4, <2>5, SessionStays
<1>1. CASE LinkFollowed
  <2>1. PICK path \in Guarded : Applied(SessionMounted(App, path))
    BY <1>1 DEF LinkFollowed
  <2>2. FineApp(SessionMounted(App, path)) /\ Harmless(App, SessionMounted(App, path))
    BY <1>0, MountedApp
  <2>3. page' = page /\ past' = Visited
    BY <1>1 DEF LinkFollowed
  <2>4. QED
    BY <1>r, <2>1, <2>2, <2>3
<1>2. CASE RouteReplaced
  <2>1. FineApp(SessionMounted(App, ui.goto)) /\ Harmless(App, SessionMounted(App, ui.goto))
    BY <1>0, MountedApp
  <2>2. QED
    BY <1>2, <1>r, <2>1 DEF RouteReplaced
<1>3. CASE PageReloaded
  <2>1. PICK path \in Guarded \cup {"home", "login"} : Applied(PageLoaded(App, path))
    BY <1>3 DEF PageReloaded
  <2> DEFINE b == PageLoaded(App, path)
  <2>2. /\ FineApp(b) /\ b.disk = disk /\ NoneOf(b.calls, Logouts)
        /\ disk = None => QuietApp(b) /\ b.mem.cached = None
    BY <1>0, LoadedApp
  <2>3. Applied(b)
    BY <2>1
  <2> HIDE DEF b
  <2>4. Harmless(App, b)
    BY <1>0, <2>2 DEF Harmless, QuietApp
  <2>5. page' = page /\ past' = Visited
    BY <1>3 DEF PageReloaded
  <2>6. QED
    BY <1>r, <2>2, <2>3, <2>4, <2>5
<1>c. ASSUME page' = page, past' = past \/ past' = Visited, calls' \in Seq(SessionCalls),
             mem' = mem \/ mem' = [mem EXCEPT !.fresh = FALSE], disk' = disk,
             NoneOf(calls, Logouts) => NoneOf(calls', Logouts),
             QuietApp(App) => calls' \in Seq(QuietCalls)
      PROVE  SessionInv'
  <2>1. mem' \in SessionCaches /\ mem'.cached = mem.cached
    <3>1. \A c \in BOOLEAN : /\ [mem EXCEPT !.fresh = c] \in SessionCaches
                             /\ [mem EXCEPT !.fresh = c].cached = mem.cached
      BY <1>0 DEF SessionCaches
    <3>2. QED
      BY <1>0, <1>c, <3>1, FALSE \in BOOLEAN
  <2>2. FineApp(App)' /\ App'.disk = disk /\ App'.calls = calls'
    BY <1>0, <1>c, <1>f, <2>1
  <2>3. QuietApp(App) => QuietApp(App)'
    BY <1>0, <1>c, <2>2 DEF QuietApp
  <2>4. past' \in SessionPasts /\ past'.out = past.out /\ past'.late = past.late
    BY <1>0, <1>c, <1>v
  <2>5. QED
    BY <1>c, <2>1, <2>2, <2>3, <2>4, SessionStays
<1>4. CASE ValidationAges \/ KeyRevoked
  <2>1. page' = page /\ (past' = past \/ past' = Visited) /\ calls' = calls /\ disk' = disk
    BY <1>4 DEF ValidationAges, KeyRevoked
  <2>2. mem' = mem \/ mem' = [mem EXCEPT !.fresh = FALSE]
    BY <1>4 DEF ValidationAges, KeyRevoked
  <2>3. QuietApp(App) => calls \in Seq(QuietCalls)
    BY <1>0 DEF QuietApp
  <2>4. QED
    BY <1>0, <1>c, <2>1, <2>2, <2>3
<1>5. CASE LoginServed \/ LoginFails
  <2>1. PICK i \in Waiting("validate") \cup Waiting("login"), at \in {"ok", "failed"} :
          calls' = [calls EXCEPT ![i].at = at]
    BY <1>5 DEF LoginServed, LoginFails, Failed
  <2> DEFINE q == [calls[i] EXCEPT !.at = at]
  <2>2. i \in DOMAIN calls /\ calls[i].op \in {"validate", "login"}
    BY DEF Waiting, Pending
  <2>3. /\ q \in SessionCalls /\ q \notin Logouts
        /\ QuietApp(App) => q \in QuietCalls
    BY <1>q, <2>2 DEF SessionCalls, QuietCalls, Logouts
  <2>4. calls' = [calls EXCEPT ![i] = q]
    BY <2>1
  <2> HIDE DEF q
  <2>5. /\ calls' \in Seq(SessionCalls)
        /\ QuietApp(App) => calls' \in Seq(QuietCalls)
    BY <1>0, <2>2, <2>3, <2>4, ChangedSeq DEF QuietApp
  <2>6. NoneOf(calls, Logouts) => NoneOf(calls', Logouts)
    BY <2>3, <2>4 DEF NoneOf
  <2>7. page' = page /\ (past' = past \/ past' = Visited) /\ mem' = mem /\ disk' = disk
    BY <1>5 DEF LoginServed, LoginFails
  <2>8. QED
    BY <1>c, <2>5, <2>6, <2>7
<1>6. CASE SessionStored
  <2>1. PICK i \in DOMAIN calls :
          /\ calls[i].op \in {"validate", "login"}
          /\ disk' = IF calls[i].at = "ok" THEN calls[i].arg ELSE None
          /\ calls' = [calls EXCEPT ![i] = [calls[i] EXCEPT !.at = "stored", !.arg = disk']]
          /\ past' = [past EXCEPT !.out = @ /\ calls[i].op # "login",
                                   !.late = @ \/ calls[i].op = "login"]
    BY <1>6 DEF SessionStored
  <2> DEFINE q == [calls[i] EXCEPT !.at = "stored", !.arg = disk']
             out == past.out /\ calls[i].op # "login"
             late == past.late \/ calls[i].op = "login"
  <2>2. disk' \in MaybeKeys
    <3>1. calls[i].arg \in MaybeKeys
      BY <1>q DEF SessionCalls
    <3>2. QED
      BY <2>1, <3>1 DEF MaybeKeys
  <2>3. q \in SessionCalls /\ q \notin Logouts
    BY <1>q, <2>1, <2>2 DEF SessionCalls, Logouts
  <2>4. QuietApp(App) => calls[i].op = "login"
    BY <1>q, <2>1 DEF QuietCalls
  <2>5. calls' = [calls EXCEPT ![i] = q] /\ past' = [past EXCEPT !.out = out, !.late = late]
    BY <2>1
  <2>6. out \in BOOLEAN /\ late \in BOOLEAN /\ (out => past.out) /\ (past.late => late)
    OBVIOUS
  <2>7. QuietApp(App) => late
    BY <2>4
  <2> HIDE DEF q, out, late
  <2>8. calls' \in Seq(SessionCalls) /\ (NoneOf(calls, Logouts) => NoneOf(calls', Logouts))
    <3>1. calls' \in Seq(SessionCalls)
      BY <1>0, <2>3, <2>5, ChangedSeq
    <3>2. NoneOf(calls, Logouts) => NoneOf(calls', Logouts)
      BY <2>3, <2>5 DEF NoneOf
    <3>3. QED
      BY <3>1, <3>2
  <2>9. past' \in SessionPasts /\ past'.out = out /\ past'.late = late
    BY <1>0, <2>5, <2>6 DEF SessionPasts
  <2>10. page' = page /\ mem' = mem
    BY <1>6 DEF SessionStored
  <2>11. FineApp(App)'
    BY <1>0, <1>f, <2>2, <2>8, <2>10
  <2>12. past'.out => past.out
    BY <2>6, <2>9
  <2>13. past.late => past'.late
    BY <2>6, <2>9
  <2>14. QuietApp(App) => past'.late
    BY <2>7, <2>9
  <2>15. QED
    BY <2>8, <2>9, <2>10, <2>11, <2>12, <2>13, <2>14, SessionStays
<1>e. ASSUME NEW b, FineApp(b), Applied(b), b.disk = disk, ~QuietApp(App), page' = page,
             past' = past, NoneOf(calls, Logouts) => NoneOf(b.calls, Logouts)
      PROVE  SessionInv'
  <2>1. App' = b /\ calls' = b.calls
    BY <1>e, AppliedApp DEF Applied
  <2>2. FineApp(App)'
    BY <1>e, <2>1
  <2>3. past' \in SessionPasts /\ past'.out = past.out /\ past'.late = past.late
    BY <1>0, <1>e
  <2>4. QED
    BY <1>e, <2>1, <2>2, <2>3, SessionStays
<1>7. CASE ValidationEnds
  <2>1. PICK i \in Validating :
          /\ calls[i].at = "stored"
          /\ LET q == calls[i]
                 a == primeAuthSessionCache([App EXCEPT !.calls = Orphaned(RemoveAt(@, i))], q.arg)
                 b == IF "page" \in q.data THEN Settled(a, "page", q.arg) ELSE a
             IN  Applied(IF "nav" \in q.data THEN Settled(b, "nav", q.arg) ELSE b)
    BY <1>7 DEF ValidationEnds
  <2> DEFINE q == calls[i]
             cs == Orphaned(RemoveAt(calls, i))
             z == [App EXCEPT !.calls = cs]
             a == primeAuthSessionCache(z, q.arg)
             b == IF "page" \in q.data THEN Settled(a, "page", q.arg) ELSE a
             c == IF "nav" \in q.data THEN Settled(b, "nav", q.arg) ELSE b
  <2>2. i \in DOMAIN calls /\ q.op = "validate"
    BY DEF Validating
  <2>3. q \in SessionCalls /\ ~QuietApp(App) /\ q.arg \in MaybeKeys
    <3>1. q \in SessionCalls /\ (QuietApp(App) => q \in QuietCalls)
      BY <1>q, <2>2
    <3>2. QED
      BY <2>2, <3>1 DEF QuietCalls, SessionCalls
  <2>4. cs \in Seq(SessionCalls) /\ (NoneOf(calls, Logouts) => NoneOf(cs, Logouts))
    BY <1>d, <2>2, OrphanedSeq
  <2>5. Applied(c)
    BY <1>0, <2>1
  <2> HIDE DEF cs, q
  <2>6. FineApp(z) /\ z.disk = disk /\ z.calls = cs
    BY <1>0, <2>4, RecalledApp
  <2> HIDE DEF z
  <2>7. FineApp(a) /\ a.disk = disk /\ a.calls = cs
    BY <2>3, <2>6, PrimedApp
  <2> HIDE DEF a
  <2>8. FineApp(b) /\ b.disk = disk /\ b.calls = cs
    BY <2>7, SettledApp
  <2> HIDE DEF b
  <2>9. FineApp(c) /\ c.disk = disk /\ c.calls = cs
    BY <2>8, SettledApp
  <2> HIDE DEF c
  <2>10. page' = page /\ past' = past
    BY <1>7 DEF ValidationEnds
  <2>11. QED
    BY <1>e, <2>3, <2>4, <2>5, <2>9, <2>10
<1>8. CASE LoginSubmitted
  <2>1. PICK k \in Keys : calls' = Append(calls, SessionCall("login", k, {}))
    BY <1>8 DEF LoginSubmitted
  <2> DEFINE q == SessionCall("login", k, {})
  <2>2. q \in QuietCalls /\ q \in SessionCalls /\ q \notin Logouts
    <3>1. q = [op |-> "login", arg |-> k, at |-> "sent", data |-> {}, pending |-> FALSE]
      BY DEF SessionCall
    <3>2. \A c \in BOOLEAN : ~c => [op |-> "login", arg |-> k, at |-> "sent", data |-> {},
                                   pending |-> c] \in SessionCalls
      BY DEF SessionCalls, MaybeKeys
    <3>3. q \in SessionCalls
      BY <3>1, <3>2, FALSE \in BOOLEAN
    <3>4. q.op = "login" /\ q.at = "sent"
      BY <3>1
    <3>5. QED
      BY <3>3, <3>4 DEF QuietCalls, Logouts
  <2> HIDE DEF q
  <2>3. /\ calls' \in Seq(SessionCalls) /\ (NoneOf(calls, Logouts) => NoneOf(calls', Logouts))
        /\ QuietApp(App) => calls' \in Seq(QuietCalls)
    BY <1>0, <2>1, <2>2, AppendedSeq, OneAppended DEF QuietApp, q
  <2>4. page' = page /\ past' = Visited /\ mem' = mem /\ disk' = disk
    BY <1>8 DEF LoginSubmitted
  <2>5. QED
    BY <1>c, <2>3, <2>4
<1>9. CASE LoginEnds
  <2>1. PICK i \in Pending("login") :
       /\ calls[i].at = "stored"
       /\ Applied([primeAuthSessionCache([App EXCEPT !.calls = RemoveAt(@, i)], calls[i].arg)
                     EXCEPT !.ui.goto = "image"])
    BY <1>9 DEF LoginEnds
  <2> DEFINE q == calls[i]
             cs == RemoveAt(calls, i)
             z == [App EXCEPT !.calls = cs]
             a == primeAuthSessionCache(z, q.arg)
             b == [a EXCEPT !.ui.goto = "image"]
  <2>2. i \in DOMAIN calls /\ q.op = "login" /\ q.at = "stored"
    BY <2>1 DEF Pending
  <2>3. ~QuietApp(App) /\ q.arg \in MaybeKeys
    <3>1. q \in SessionCalls /\ (QuietApp(App) => q \in QuietCalls)
      BY <1>q, <2>2
    <3>2. QED
      BY <2>2, <3>1 DEF QuietCalls, SessionCalls
  <2>4. cs \in Seq(SessionCalls) /\ (NoneOf(calls, Logouts) => NoneOf(cs, Logouts))
    BY <1>d, <2>2
  <2>5. Applied(b)
    BY <1>0, <2>1
  <2> HIDE DEF cs, q
  <2>6. FineApp(z) /\ z.disk = disk /\ z.calls = cs
    BY <1>0, <2>4, RecalledApp
  <2> HIDE DEF z
  <2>7. FineApp(a) /\ a.disk = disk /\ a.calls = cs
    BY <2>3, <2>6, PrimedApp
  <2> HIDE DEF a
  <2>8. FineApp(b) /\ b.disk = disk /\ b.calls = cs
    BY <2>7, RoutedApp
  <2> HIDE DEF b
  <2>9. page' = page /\ past' = past
    BY <1>9 DEF LoginEnds
  <2>10. QED
    BY <1>e, <2>3, <2>4, <2>5, <2>8, <2>9
<1>10. CASE LoginRefused
  <2>1. PICK i \in Pending("login") : calls' = RemoveAt(calls, i)
    BY <1>10 DEF LoginRefused
  <2>2. i \in DOMAIN calls
    BY DEF Pending
  <2>3. page' = page /\ past' = past /\ mem' = mem /\ disk' = disk
    BY <1>10 DEF LoginRefused
  <2>4. QED
    BY <1>c, <1>d, <2>1, <2>2, <2>3
<1>11. CASE LogoutStarted
  <2> DEFINE q == SessionCall("logout", None, {})
  <2>1. /\ disk' = None /\ calls' = Append(calls, q) /\ page' = page /\ mem' = mem
        /\ past' = [Visited EXCEPT !.out = FALSE, !.late = Unsettled]
    BY <1>11 DEF LogoutStarted
  <2>2. q \in QuietCalls /\ q \in SessionCalls
    <3>1. q = [op |-> "logout", arg |-> None, at |-> "sent", data |-> {}, pending |-> FALSE]
      BY DEF SessionCall
    <3>2. \A c \in BOOLEAN : ~c => [op |-> "logout", arg |-> None, at |-> "sent", data |-> {},
                                   pending |-> c] \in SessionCalls
      BY DEF SessionCalls, MaybeKeys
    <3>3. q \in SessionCalls
      BY <3>1, <3>2, FALSE \in BOOLEAN
    <3>4. q.op = "logout"
      BY <3>1
    <3>5. QED
      BY <3>3, <3>4 DEF QuietCalls
  <2> HIDE DEF q
  <2>3. calls' \in Seq(SessionCalls)
    BY <1>0, <2>1, <2>2, AppendedSeq
  <2>4. ASSUME ~Unsettled PROVE calls' \in Seq(QuietCalls)
    <3>1. \A i \in DOMAIN calls : calls[i].op # "validate" /\ calls[i].op # "login"
      BY <2>4 DEF Unsettled, Validating, Pending
    <3>2. \A i \in DOMAIN calls : calls[i] \in QuietCalls
      BY <1>q, <3>1 DEF SessionCalls, QuietCalls
    <3>3. calls = [i \in DOMAIN calls |-> calls[i]]
      BY <1>0
    <3>4. calls \in Seq(QuietCalls)
      BY <1>0, <3>2, <3>3, ReshapedSeq
    <3>5. QED
      BY <2>1, <2>2, <3>4, AppendedSeq
  <2>5. FineApp(App)' /\ App'.disk = None /\ App'.calls = calls'
    BY <1>0, <1>f, <2>1, <2>3 DEF MaybeKeys
  <2>6. past' \in SessionPasts /\ ~past'.out /\ (past'.late <=> Unsettled)
    <3> DEFINE late == Unsettled
    <3>1. late \in BOOLEAN
      BY DEF Unsettled
    <3>2. \A o, l \in BOOLEAN :
            LET p == [Visited EXCEPT !.out = o, !.late = l]
            IN  p \in SessionPasts /\ p.out = o /\ p.late = l
      BY <1>v DEF SessionPasts
    <3>3. past' = [Visited EXCEPT !.out = FALSE, !.late = late]
      BY <2>1
    <3> HIDE DEF late
    <3>4. past' \in SessionPasts /\ past'.out = FALSE /\ past'.late = late
      BY <3>1, <3>2, <3>3, FALSE \in BOOLEAN
    <3>5. QED
      BY <3>4 DEF late
  <2>7. ~past'.late => QuietApp(App)'
    BY <2>4, <2>5, <2>6 DEF QuietApp
  <2>8. QED
    BY <1>0, <2>1, <2>5, <2>6, <2>7 DEF SessionInv
<1>12. CASE LogoutEnds
  <2>1. PICK i \in Pending("logout") :
          Applied([clearAuthSessionCache([App EXCEPT !.calls = RemoveAt(@, i)])
                    EXCEPT !.ui.goto = "login"])
    BY <1>12 DEF LogoutEnds
  <2> DEFINE left == RemoveAt(calls, i)
             z == [App EXCEPT !.calls = left]
             m == [cached |-> None, once |-> FALSE, fresh |-> FALSE]
             cs == Orphaned(left)
             a == clearAuthSessionCache(z)
             b == [a EXCEPT !.ui.goto = "login"]
  <2>2. i \in DOMAIN calls /\ calls[i].op = "logout"
    BY DEF Pending
  <2>3. calls[i] \in Logouts
    BY <1>q, <2>2 DEF Logouts
  <2>4. /\ left \in Seq(SessionCalls)
        /\ QuietApp(App) => left \in Seq(QuietCalls)
    BY <1>d, <2>2
  <2>5. Applied(b)
    BY <1>0, <2>1
  <2> HIDE DEF left
  <2>6. FineApp(z) /\ z.disk = disk /\ z.calls = left
    BY <1>0, <2>4, RecalledApp
  <2> HIDE DEF z
  <2>7. cs \in Seq(SessionCalls) /\ (left \in Seq(QuietCalls) => cs \in Seq(QuietCalls))
    BY <2>4, OrphanedSeq
  <2>8. m \in SessionCaches /\ m.cached = None
    BY PrimedCache DEF MaybeKeys
  <2>9. a = [z EXCEPT !.mem = m, !.calls = cs]
    BY <2>6 DEF clearAuthSessionCache
  <2> HIDE DEF m, cs
  <2>10. FineApp(a) /\ a.disk = disk /\ a.calls = cs /\ a.mem = m
    <3> DEFINE y == [z EXCEPT !.calls = cs]
    <3>1. FineApp(y) /\ y.disk = disk /\ y.calls = cs
      BY <2>6, <2>7, RecalledApp
    <3>2. a = [y EXCEPT !.mem = m]
      BY <2>9, <2>6 DEF FineApp, IsApp
    <3> HIDE DEF y, a
    <3>3. PICK v, n, ds, d : y = [ui |-> v, mem |-> n, calls |-> ds, disk |-> d]
      BY <3>1 DEF FineApp, IsApp
    <3>4. a = [ui |-> v, mem |-> m, calls |-> ds, disk |-> d] /\ ds = cs /\ d = disk
      BY <3>1, <3>2, <3>3
    <3>5. QED
      BY <1>0, <2>7, <2>8, <3>4 DEF FineApp, IsApp
  <2> HIDE DEF a
  <2>11. FineApp(b) /\ b.disk = disk /\ b.calls = cs /\ b.mem = m
    BY <2>10, RoutedApp
  <2> HIDE DEF b
  <2>12. FineApp(App)' /\ App' = b /\ mem' = m
    BY <2>5, <2>11, AppliedApp DEF Applied
  <2>13. QuietApp(App) => QuietApp(App)'
    BY <1>0, <2>4, <2>7, <2>11, <2>12 DEF QuietApp
  <2>14. past' \in SessionPasts /\ (past.late => past'.late)
    <3> DEFINE late == past.late \/ Unsettled
    <3>1. late \in BOOLEAN /\ (past.late => late)
      BY DEF Unsettled
    <3>2. \A o, l \in BOOLEAN :
            LET p == [past EXCEPT !.out = o, !.late = l]
            IN  p \in SessionPasts /\ p.late = l
      BY <1>0 DEF SessionPasts
    <3>3. past' = [past EXCEPT !.out = TRUE, !.late = late]
      BY <1>12 DEF LogoutEnds
    <3> HIDE DEF late
    <3>4. past' \in SessionPasts /\ past'.late = late
      BY <3>1, <3>2, <3>3, TRUE \in BOOLEAN
    <3>5. QED
      BY <3>1, <3>4
  <2>15. ~past'.late => QuietApp(App)'
    <3>1. ~NoneOf(calls, Logouts)
      BY <2>2, <2>3 DEF NoneOf
    <3>2. QED
      BY <2>13, <2>14, <3>1 DEF SessionInv
  <2>16. mem'.cached = None /\ page' = page
    BY <1>12, <2>8, <2>12 DEF LogoutEnds
  <2>17. QED
    BY <1>0, <2>12, <2>14, <2>15, <2>16 DEF SessionInv
<1>13. CASE Unauthorized
  <2> DEFINE z == [App EXCEPT !.disk = None]
             b == PageLoaded(z, "login")
  <2>1. Applied(b)
    BY <1>13 DEF Unauthorized
  <2>2. FineApp(z) /\ z.disk = None
    <3>1. PICK v, n, ds, d : App = [ui |-> v, mem |-> n, calls |-> ds, disk |-> d]
      BY DEF App
    <3>2. n \in SessionCaches /\ ds \in Seq(SessionCalls)
      BY <1>0, <3>1
    <3>3. z = [ui |-> v, mem |-> n, calls |-> ds, disk |-> None]
      BY <3>1
    <3> HIDE DEF z
    <3>4. QED
      BY <3>2, <3>3 DEF FineApp, IsApp, MaybeKeys
  <2> HIDE DEF z
  <2>3. FineApp(b) /\ QuietApp(b) /\ b.mem.cached = None
    BY <2>2, LoadedApp
  <2> HIDE DEF b
  <2>4. App' = b /\ mem' = b.mem
    BY <2>1, <2>3, AppliedApp DEF Applied
  <2>5. past' \in SessionPasts
    <3>1. \A o, l \in BOOLEAN : [past EXCEPT !.out = o, !.late = l] \in SessionPasts
      BY <1>0 DEF SessionPasts
    <3>2. past' = [past EXCEPT !.out = TRUE, !.late = FALSE]
      BY <1>13 DEF Unauthorized
    <3>3. QED
      BY <3>1, <3>2, TRUE \in BOOLEAN, FALSE \in BOOLEAN
  <2>6. page' = page /\ FineApp(App)' /\ QuietApp(App)' /\ mem'.cached = None
    BY <1>13, <2>3, <2>4 DEF Unauthorized
  <2>7. QED
    BY <1>0, <2>5, <2>6 DEF SessionInv
<1>14. QED
  BY <1>1, <1>2, <1>3, <1>4, <1>5, <1>6, <1>7, <1>8, <1>9, <1>10, <1>11, <1>12, <1>13
     DEF SessionNext

LEMMA SessionHasNoGhost == SessionInv => NoGhostLogin
BY DEF SessionInv, NoGhostLogin, QuietApp, App

-----------------------------------------------------------------------------
(* The lightbox.                                                           *)

(* A scale and a displacement that keep the image in the window.           *)
Inside(s, x) == s \in minScale .. maxScale /\ x \in (minScale - s) .. (s - minScale)

Gestures == [type : {"none", "swipe", "pan", "pinch"}, of : Int]
Frames == [scale : Int, x : Int, of : Int]
Transforms == [scale : Int, x : Int]

Boxes ==
  [open : BOOLEAN, at : Int, now : Transforms, of : Int, due : BOOLEAN,
   gesture : Gestures, frame : Frames, tapped : BOOLEAN, wheel : BOOLEAN]

(* ZoomBelongsToImage is not inductive: a gesture that began on the image  *)
(* before would schedule a frame for it.  So a gesture, too, belongs to    *)
(* the image shown, and what waits is as good as what is shown.            *)
GestureBelongs ==
  ~ui.due => ui.gesture = NoGesture \/ ui.gesture.of = ui.at

FrameInside ==
  ui.frame = NoFrame \/ Inside(ui.frame.scale, ui.frame.x)

LightboxInv ==
  /\ page = "lightbox"
  /\ ui \in Boxes
  /\ GestureBelongs
  /\ FrameInside
  /\ Inside(ui.now.scale, ui.now.x)
  /\ ~ui.due => /\ ui.now = Natural \/ ui.of = ui.at
                /\ ui.frame = NoFrame \/ ui.frame.of = ui.at

-----------------------------------------------------------------------------
(* clamp keeps a value between its bounds.                                 *)
LEMMA ClampBetween ==
  ASSUME NEW v \in Int, NEW low \in Int, NEW high \in Int, low <= high
  PROVE  clamp(v, low, high) \in low .. high
BY DEF clamp

(* normalizeTransform brings any request of a gesture inside.              *)
LEMMA NormalizedInside ==
  ASSUME NEW s \in minScale .. maxScale, NEW x \in Int
  PROVE  /\ normalizeTransform(s, x) \in Transforms
         /\ Inside(normalizeTransform(s, x).scale, normalizeTransform(s, x).x)
<1> DEFINE y == clamp(x, minScale - s, s - minScale)
<1>1. y \in (minScale - s) .. (s - minScale)
  BY ClampBetween DEF minScale, maxScale
<1>2. CASE s <= minScale
  <2>1. normalizeTransform(s, x) = Natural
    BY <1>2 DEF normalizeTransform
  <2>2. QED
    BY <2>1 DEF Natural, Inside, Transforms, minScale, maxScale
<1>3. CASE ~(s <= minScale)
  <2>1. normalizeTransform(s, x) = [scale |-> s, x |-> y]
    BY <1>3 DEF normalizeTransform
  <2> HIDE DEF y
  <2>2. QED
    BY <1>1, <2>1 DEF Inside, Transforms, minScale, maxScale
<1>4. QED
  BY <1>2, <1>3

(* The values the lightbox is reset to.                                    *)
LEMMA RestValues ==
  /\ Natural \in Transforms /\ Inside(Natural.scale, Natural.x)
  /\ NoGesture \in Gestures /\ NoFrame \in Frames
BY DEF Natural, Transforms, Inside, NoGesture, Gestures, NoFrame, Frames, minScale, maxScale

(* The gestures, the frame and what is shown after flushScheduledTransform. *)
LEMMA FlushedFits ==
  ASSUME LightboxInv
  PROVE  /\ Flushed(ui) \in Boxes
         /\ Flushed(ui).frame = NoFrame
         /\ Flushed(ui).at = ui.at /\ Flushed(ui).due = ui.due
         /\ Flushed(ui).gesture = ui.gesture
         /\ Inside(Flushed(ui).now.scale, Flushed(ui).now.x)
         /\ ~ui.due => Flushed(ui).now = Natural \/ Flushed(ui).of = ui.at
<1>1. CASE ui.frame = NoFrame
  BY <1>1 DEF Flushed, LightboxInv
<1>2. CASE ui.frame # NoFrame
  <2>1. Flushed(ui) = [ui EXCEPT !.now = [scale |-> ui.frame.scale, x |-> ui.frame.x],
                                 !.of = ui.frame.of, !.frame = NoFrame]
    BY <1>2 DEF Flushed
  <2>2. ui.frame \in Frames /\ NoFrame \in Frames
    BY RestValues DEF LightboxInv, Boxes
  <2>3. [scale |-> ui.frame.scale, x |-> ui.frame.x] \in Transforms
    BY <2>2 DEF Frames, Transforms
  <2>4. QED
    <3>1. ui \in Boxes /\ Inside(ui.frame.scale, ui.frame.x) /\ ui.frame.of \in Int
      BY <1>2, <2>2 DEF LightboxInv, FrameInside, Frames
    <3>2. ~ui.due => ui.frame.of = ui.at
      BY <1>2 DEF LightboxInv
    <3> DEFINE t == [scale |-> ui.frame.scale, x |-> ui.frame.x]
               f == ui.frame.of
    <3>3. t \in Transforms /\ t.scale = ui.frame.scale /\ t.x = ui.frame.x
      BY <2>3
    <3>4. Flushed(ui) = [ui EXCEPT !.now = t, !.of = f, !.frame = NoFrame]
      BY <2>1
    <3>5. f \in Int /\ NoFrame \in Frames
      BY <2>2, <3>1
    <3>6. ~ui.due => f = ui.at
      BY <3>2
    <3>7. Inside(t.scale, t.x)
      BY <3>1, <3>3
    <3> HIDE DEF t, f
    <3>8. /\ Flushed(ui) \in Boxes
          /\ Flushed(ui).now = t /\ Flushed(ui).of = f /\ Flushed(ui).frame = NoFrame
          /\ Flushed(ui).at = ui.at /\ Flushed(ui).due = ui.due
          /\ Flushed(ui).gesture = ui.gesture
      BY <3>1, <3>3, <3>4, <3>5 DEF Boxes
    <3>9. QED
      BY <3>6, <3>7, <3>8
<1>3. QED
  BY <1>1, <1>2

LEMMA LightboxInitInv == LightboxInit => LightboxInv
BY RestValues, ImagesAssumption DEF LightboxInit, LightboxInv, GestureBelongs, FrameInside, Boxes

(* Another image: nothing is claimed until the reset has run.              *)
LEMMA AnotherImage ==
  ASSUME NEW u \in Boxes, NEW i \in Int
  PROVE  /\ Show(u, i) \in Boxes
         /\ Show(u, i).now = u.now /\ Show(u, i).gesture = u.gesture
         /\ Show(u, i).frame = u.frame /\ Show(u, i).of = u.of
         /\ ~Show(u, i).due => ~u.due /\ Show(u, i).at = u.at
<1>1. CASE i = u.at
  BY <1>1 DEF Show
<1>2. CASE i # u.at
  <2>1. Show(u, i) = [u EXCEPT !.at = i, !.due = TRUE]
    BY <1>2 DEF Show
  <2>2. QED
    BY <2>1 DEF Boxes
<1>3. QED
  BY <1>1, <1>2

(* A double tap toggles between the natural size and two and a half times  *)
(* as much.                                                                *)
LEMMA ToggledFits ==
  ASSUME NEW u \in Boxes
  PROVE  /\ toggleZoom(u) \in Boxes
         /\ Inside(toggleZoom(u).now.scale, toggleZoom(u).now.x)
         /\ toggleZoom(u).of = u.at /\ toggleZoom(u).at = u.at /\ toggleZoom(u).due = u.due
         /\ toggleZoom(u).gesture = u.gesture /\ toggleZoom(u).frame = u.frame
<1>1. [scale |-> 5, x |-> 0] \in Transforms /\ Inside(5, 0)
  BY DEF Transforms, Inside, minScale, maxScale
<1>2. QED
  BY <1>1, RestValues DEF toggleZoom, Boxes

LEMMA LightboxStep == LightboxInv /\ [LightboxNext]_webVars => LightboxInv'
<1> SUFFICES ASSUME LightboxInv, [LightboxNext]_webVars PROVE LightboxInv'
  OBVIOUS
<1> USE ImagesAssumption, RestValues DEF LightboxInv, GestureBelongs, FrameInside, Only
<1>1. CASE ArrowKey
  <2>1. PICK i \in Int : ui' = Show(ui, i) /\ page' = page
    BY <1>1 DEF ArrowKey, Neighbours
  <2>2. QED
    BY <2>1, AnotherImage
<1>2. CASE ThumbnailClicked
  <2>1. PICK i \in Int : ui' = Show(ui, i) /\ page' = page
    BY <1>2 DEF ThumbnailClicked
  <2>2. QED
    BY <2>1, AnotherImage
<1>3. CASE WheelTurned
  <2>1. ui.at \in Int
    BY DEF Boxes
  <2>2. PICK i \in Neighbours \cup {ui.at} : Only([Show(ui, i) EXCEPT !.wheel = TRUE])
    BY <1>3 DEF WheelTurned
  <2>3. i \in Int /\ ui' = [Show(ui, i) EXCEPT !.wheel = TRUE] /\ page' = page
    <3>1. ui' = [Show(ui, i) EXCEPT !.wheel = TRUE] /\ page' = page
      BY <2>2
    <3>2. i \in Int
      <4> HIDE DEF Only
      <4>1. QED
        BY <2>1 DEF Neighbours
    <3>3. QED
      BY <3>1, <3>2
  <2> DEFINE v == Show(ui, i)
  <2>4. /\ v \in Boxes /\ v.now = ui.now /\ v.gesture = ui.gesture /\ v.frame = ui.frame
        /\ v.of = ui.of /\ (~v.due => ~ui.due /\ v.at = ui.at)
    BY <2>3, AnotherImage
  <2>5. ui' = [v EXCEPT !.wheel = TRUE] /\ page' = page
    BY <2>3
  <2> HIDE DEF v
  <2>6. /\ ui' \in Boxes /\ ui'.now = v.now /\ ui'.gesture = v.gesture /\ ui'.frame = v.frame
        /\ ui'.of = v.of /\ ui'.due = v.due /\ ui'.at = v.at
    BY <2>4, <2>5 DEF Boxes
  <2>7. QED
    BY <2>4, <2>5, <2>6
<1>4. CASE LocksExpire
  BY <1>4 DEF LocksExpire, Boxes
<1>5. CASE Closed
  BY <1>5 DEF Closed, Boxes
<1>6. CASE Reopened
  <2>1. PICK i \in 1 .. Images : Only([ui EXCEPT !.open = TRUE, !.at = i, !.due = TRUE])
    BY <1>6 DEF Reopened
  <2>2. i \in Int /\ ui' = [ui EXCEPT !.open = TRUE, !.at = i, !.due = TRUE] /\ page' = page
    BY <2>1
  <2>3. /\ ui' \in Boxes /\ ui'.due /\ ui'.now = ui.now /\ ui'.frame = ui.frame
    BY <2>2 DEF Boxes
  <2>4. QED
    BY <2>2, <2>3
<1>7. CASE ResetEffect
  BY <1>7 DEF ResetEffect, Boxes
<1>8. CASE DoubleClicked
  BY <1>8, ToggledFits DEF DoubleClicked
<1>9. CASE TouchStarts
  <2>1. PICK g \in Gestures, f \in {ui.frame, NoFrame} :
          ui' = [ui EXCEPT !.gesture = g, !.frame = f] /\ page' = page /\ g.of = ui.at
    <3>1. \A k \in {"pinch", "pan", "swipe"} : [type |-> k, of |-> ui.at] \in Gestures
      BY DEF Gestures, Boxes
    <3>2. QED
      BY <1>9, <3>1 DEF TouchStarts
  <2>2. QED
    BY <2>1 DEF Boxes
<1>10. CASE TouchMoves
  <2>1. PICK s \in minScale .. maxScale, x \in Int :
          /\ page' = page
          /\ ui' = [ui EXCEPT !.frame = [scale |-> normalizeTransform(s, x).scale,
                                         x |-> normalizeTransform(s, x).x,
                                         of |-> ui.gesture.of]]
    <3>1. \A v \in Int : clamp(v, minScale, maxScale) \in minScale .. maxScale
      BY ClampBetween, minScale \in Int /\ maxScale \in Int /\ minScale <= maxScale
         DEF minScale, maxScale
    <3>2. ui.now.scale \in minScale .. maxScale
      BY DEF Inside
    <3>3. QED
      BY <1>10, <3>1, <3>2 DEF TouchMoves
  <2>2. ui.gesture # NoGesture
    BY <1>10 DEF TouchMoves, NoGesture
  <2>3. QED
    BY <2>1, <2>2, NormalizedInside DEF Gestures, Frames, Transforms, Boxes
<1>11. CASE FrameComes
  BY <1>11, FlushedFits DEF FrameComes
<1>12. CASE TouchEnds
  <2> DEFINE u == [Flushed(ui) EXCEPT !.gesture = NoGesture]
  <2>1. /\ u \in Boxes /\ u.gesture = NoGesture /\ u.frame = NoFrame
        /\ u.at = ui.at /\ u.due = ui.due /\ Inside(u.now.scale, u.now.x)
        /\ ~u.due => u.now = Natural \/ u.of = u.at
    BY FlushedFits DEF Boxes
  <2>2. page' = page
    BY <1>12 DEF TouchEnds
  <2>3. CASE ui' = u
    BY <2>1, <2>2, <2>3
  <2>4. CASE ui' = [toggleZoom(u) EXCEPT !.tapped = FALSE]
    BY <2>1, <2>2, <2>4, ToggledFits DEF Boxes
  <2>5. CASE ui' = [u EXCEPT !.tapped = TRUE]
    BY <2>1, <2>2, <2>5 DEF Boxes
  <2>6. ASSUME NEW i \in Neighbours, ui' = [Show(u, i) EXCEPT !.tapped = TRUE] PROVE LightboxInv'
    <3>1. i \in Int
      BY DEF Neighbours
    <3> DEFINE v == Show(u, i)
    <3>2. /\ v \in Boxes /\ v.now = u.now /\ v.gesture = NoGesture /\ v.frame = NoFrame
          /\ v.of = u.of /\ (~v.due => ~u.due /\ v.at = u.at)
      <4> HIDE DEF u
      <4>1. QED
        BY <2>1, <3>1, AnotherImage
    <3>3. ui' = [v EXCEPT !.tapped = TRUE]
      BY <2>6
    <3> HIDE DEF v, u
    <3>4. /\ ui' \in Boxes /\ ui'.now = v.now /\ ui'.gesture = v.gesture
          /\ ui'.frame = v.frame /\ ui'.of = v.of /\ ui'.due = v.due /\ ui'.at = v.at
      BY <3>2, <3>3 DEF Boxes
    <3>5. QED
      BY <2>1, <2>2, <3>2, <3>4
  <2>7. QED
    BY <1>12, <2>3, <2>4, <2>5, <2>6 DEF TouchEnds
<1>13. CASE TouchCancelled
  BY <1>13 DEF TouchCancelled, Boxes
<1>14. CASE UNCHANGED webVars
  BY <1>14 DEF webVars
<1>15. QED
  BY <1>1, <1>2, <1>3, <1>4, <1>5, <1>6, <1>7, <1>8, <1>9, <1>10, <1>11, <1>12, <1>13, <1>14
     DEF LightboxNext

LEMMA ZoomIsInside == LightboxInv => ZoomBelongsToImage
BY DEF LightboxInv, ZoomBelongsToImage, Inside

-----------------------------------------------------------------------------
(* The web client: a behaviour stays on the page it began with.            *)

WebInv ==
  \/ ImageInv \/ ComposerInv \/ LightboxInv \/ SessionInv \/ SettingsInv
  \/ RegisterInv \/ AccountsInv \/ GalleryInv \/ LogsInv

LEMMA WebInitInv == Init => WebInv
BY ImageInitInv, ComposerInitInv, LightboxInitInv, SessionInitInv, SettingsInitInv,
   RegisterInitInv, AccountsInitInv, GalleryInitInv, LogsInitInv DEF Init, WebInv

LEMMA WebPages ==
  /\ ImageInv => page = "image"
  /\ ComposerInv => page = "composer"
  /\ LightboxInv => page = "lightbox"
  /\ SessionInv => page = "session"
  /\ SettingsInv => page = "settings"
  /\ RegisterInv => page = "register"
  /\ AccountsInv => page = "accounts"
  /\ GalleryInv => page = "gallery"
  /\ LogsInv => page = "logs"
<1>1. ImageInv => page = "image"
  BY DEF ImageInv, Framed
<1>2. ComposerInv => page = "composer"
  BY DEF ComposerInv
<1>3. LightboxInv => page = "lightbox"
  BY DEF LightboxInv
<1>4. SessionInv => page = "session"
  BY DEF SessionInv
<1>5. SettingsInv => page = "settings"
  BY DEF SettingsInv
<1>6. RegisterInv => page = "register"
  BY DEF RegisterInv
<1>7. AccountsInv => page = "accounts"
  BY DEF AccountsInv
<1>8. GalleryInv => page = "gallery"
  BY DEF GalleryInv
<1>9. LogsInv => page = "logs"
  BY DEF LogsInv
<1>10. QED
  BY <1>1, <1>2, <1>3, <1>4, <1>5, <1>6, <1>7, <1>8, <1>9

LEMMA WebSteps ==
  ASSUME WebInv, Next
  PROVE  WebInv'
<1>1. CASE ImageInv
  <2>1. ImageNext
    BY <1>1, WebPages DEF Next
  <2>2. QED
    BY <1>1, <2>1, ImageStep DEF WebInv
<1>2. CASE ComposerInv
  <2>1. ComposerNext
    BY <1>2, WebPages DEF Next
  <2>2. QED
    BY <1>2, <2>1, ComposerStep DEF WebInv
<1>3. CASE LightboxInv
  <2>1. LightboxNext
    BY <1>3, WebPages DEF Next
  <2>2. QED
    BY <1>3, <2>1, LightboxStep DEF WebInv
<1>4. CASE SessionInv
  <2>1. SessionNext
    BY <1>4, WebPages DEF Next
  <2>2. QED
    BY <1>4, <2>1, SessionStep DEF WebInv
<1>5. CASE SettingsInv
  <2>1. SettingsNext
    BY <1>5, WebPages DEF Next
  <2>2. QED
    BY <1>5, <2>1, SettingsStep DEF WebInv
<1>6. CASE RegisterInv
  <2>1. RegisterNext
    BY <1>6, WebPages DEF Next
  <2>2. QED
    BY <1>6, <2>1, RegisterStep DEF WebInv
<1>7. CASE AccountsInv
  <2>1. AccountsNext
    BY <1>7, WebPages DEF Next
  <2>2. QED
    BY <1>7, <2>1, AccountsStep DEF WebInv
<1>8. CASE GalleryInv
  <2>1. GalleryNext
    BY <1>8, WebPages DEF Next
  <2>2. QED
    BY <1>8, <2>1, GalleryStep DEF WebInv
<1>9. CASE LogsInv
  <2>1. LogsNext
    BY <1>9, WebPages DEF Next
  <2>2. QED
    BY <1>9, <2>1, LogsStep DEF WebInv
<1>10. QED
  BY <1>1, <1>2, <1>3, <1>4, <1>5, <1>6, <1>7, <1>8, <1>9 DEF WebInv

LEMMA WebStutters ==
  ASSUME WebInv, UNCHANGED webVars
  PROVE  WebInv'
<1> USE DEF webVars
<1>1. ImageInv => ImageInv'
  BY ImageStutters
<1>2. ComposerInv => ComposerInv'
  BY DEF ComposerInv
<1>3. LightboxInv => LightboxInv'
  BY LightboxStep
<1>4. SessionInv => SessionInv'
  BY DEF SessionInv, App
<1>5. SettingsInv => SettingsInv'
  BY DEF SettingsInv
<1>6. RegisterInv => RegisterInv'
  BY DEF RegisterInv
<1>7. AccountsInv => AccountsInv'
  BY DEF AccountsInv
<1>8. GalleryInv => GalleryInv'
  BY DEF GalleryInv
<1>9. LogsInv => LogsInv'
  BY DEF LogsInv
<1>10. QED
  BY <1>1, <1>2, <1>3, <1>4, <1>5, <1>6, <1>7, <1>8, <1>9 DEF WebInv

LEMMA WebReached == Spec => []WebInv
<1>1. WebInv /\ [Next]_webVars => WebInv'
  BY WebSteps, WebStutters
<1>2. QED
  BY <1>1, WebInitInv, PTL DEF Spec

(* Each property is about one page.                                        *)
LEMMA WebPromises ==
  ASSUME WebInv
  PROVE  /\ DeleteSticks /\ LoadingIsWatched /\ QuietMeansStored
         /\ SentTurnIsWhole /\ NoGhostLogin /\ CleanFormIsServed /\ RunUsesForm
         /\ ListsAreTrue /\ ZoomBelongsToImage
<1>1. DeleteSticks /\ LoadingIsWatched /\ QuietMeansStored
  <2>1. CASE page = "image"
    <3>1. ImageInv
      BY <2>1, WebPages DEF WebInv
    <3>2. QED
      BY <3>1, DeletedAreGone, LoadingHasRunner, ShownIsStored
  <2>2. CASE page # "image"
    BY <2>2 DEF DeleteSticks, LoadingIsWatched, QuietMeansStored
  <2>3. QED
    BY <2>1, <2>2
<1>2. SentTurnIsWhole
  <2>1. CASE page = "composer"
    BY <2>1, WebPages, ComposerSends DEF WebInv
  <2>2. CASE page # "composer"
    BY <2>2 DEF SentTurnIsWhole
  <2>3. QED
    BY <2>1, <2>2
<1>3. NoGhostLogin
  <2>1. CASE page = "session"
    BY <2>1, WebPages, SessionHasNoGhost DEF WebInv
  <2>2. CASE page # "session"
    BY <2>2 DEF NoGhostLogin
  <2>3. QED
    BY <2>1, <2>2
<1>4. CleanFormIsServed
  <2>1. CASE page = "settings"
    BY <2>1, WebPages, SettingsServed DEF WebInv
  <2>2. CASE page # "settings"
    BY <2>2 DEF CleanFormIsServed
  <2>3. QED
    BY <2>1, <2>2
<1>5. RunUsesForm
  <2>1. CASE page = "register"
    <3>1. RegisterInv
      BY <2>1, WebPages DEF WebInv
    <3>2. QED
      BY <3>1 DEF RegisterInv, RunUsesForm
  <2>2. CASE page # "register"
    BY <2>2 DEF RunUsesForm
  <2>3. QED
    BY <2>1, <2>2
<1>6. ListFits
  <2>1. CASE page = "accounts"
    <3>1. AccountsInv
      BY <2>1, WebPages DEF WebInv
    <3>2. QED
      BY <3>1 DEF AccountsInv, SelectionListed, ListFits
  <2>2. CASE page # "accounts"
    BY <2>2 DEF ListFits
  <2>3. QED
    BY <2>1, <2>2
<1>7. DeletesWhatItLists
  <2>1. CASE page = "gallery"
    <3>1. GalleryInv
      BY <2>1, WebPages DEF WebInv
    <3>2. past.hit \in {"none", "mixed"}
      BY <3>1 DEF GalleryInv
    <3>3. QED
      BY <3>2 DEF DeletesWhatItLists
  <2>2. CASE page # "gallery"
    BY <2>2 DEF DeletesWhatItLists
  <2>3. QED
    BY <2>1, <2>2
<1>8. CachedUnderItsFilter
  <2>1. CASE page = "logs"
    <3>1. LogsInv
      BY <2>1, WebPages DEF WebInv
    <3>2. QED
      BY <3>1 DEF LogsInv, OfType, CachedUnderItsFilter
  <2>2. CASE page # "logs"
    BY <2>2 DEF CachedUnderItsFilter
  <2>3. QED
    BY <2>1, <2>2
<1>9. ZoomBelongsToImage
  <2>1. CASE page = "lightbox"
    BY <2>1, WebPages, ZoomIsInside DEF WebInv
  <2>2. CASE page # "lightbox"
    BY <2>2 DEF ZoomBelongsToImage
  <2>3. QED
    BY <2>1, <2>2
<1>10. QED
  BY <1>1, <1>2, <1>3, <1>4, <1>5, <1>6, <1>7, <1>8, <1>9 DEF ListsAreTrue

(* A conversation deleted from a page whose history had been read stays    *)
(* deleted, in a tab that never left the page, whatever its runner still   *)
(* polls and however many writes wait; unless a list read again after a    *)
(* failed deletion brought it back (updateConversation,                    *)
(* deleteImageConversation, imageConversationWriteQueue).                  *)
THEOREM DeletionSafety == Spec => []DeleteSticks
<1>1. WebInv => DeleteSticks
  BY WebPromises
<1>2. QED
  BY <1>1, WebReached, PTL

(* While the page stays open, every conversation with images still loading *)
(* has a runner or is about to be given one: none is left behind by        *)
(* runners that end, fail or find a turn broken (runConversationQueue's    *)
(* finally, the effect on [conversations]).                                *)
THEOREM RunnerSafety == Spec => []LoadingIsWatched
<1>1. WebInv => LoadingIsWatched
  BY WebPromises
<1>2. QED
  BY <1>1, WebReached, PTL

(* Once nothing is on the way the store holds every conversation as it is  *)
(* shown: each was shown and queued in one step and saves of one           *)
(* conversation never lose against an older one (persistConversation,      *)
(* updateConversation, pickLatestConversation).                            *)
THEOREM StoreSafety == Spec => []QuietMeansStored
<1>1. WebInv => QuietMeansStored
  BY WebPromises
<1>2. QED
  BY <1>1, WebReached, PTL

(* A turn that is sent uploads as many references as it stores, replies    *)
(* within the conversation it goes to and asks for a high resolution only  *)
(* with the entitlement the page was last told of (handleSubmit).          *)
THEOREM ComposerSafety == Spec => []SentTurnIsWhole
<1>1. WebInv => SentTurnIsWhole
  BY WebPromises
<1>2. QED
  BY <1>1, WebReached, PTL

(* After a logout, or after the server refused the key, nothing brings a  *)
(* session back before somebody logs in, in whatever order the answers     *)
(* come, other than a validation or a login that was on its way when the   *)
(* user logged out (handleLogout, clearAuthSessionCache, the interceptor). *)
THEOREM LogoutSafety == Spec => []NoGhostLogin
<1>1. WebInv => NoGhostLogin
  BY WebPromises
<1>2. QED
  BY <1>1, WebReached, PTL

(* A settings form that shows nothing unsaved shows what the server has,   *)
(* once nothing is on the way and unless a read and a save overlapped      *)
(* (loadConfig, revertConfig, saveConfig).                                 *)
THEOREM SettingsSafety == Spec => []CleanFormIsServed
<1>1. WebInv => CleanFormIsServed
  BY WebPromises
<1>2. QED
  BY <1>1, WebReached, PTL

(* A registration run uses the form that was on the page at the click that *)
(* started it, although the server's events may show another by then       *)
(* (toggleRegister, the lock isSavingRegister).                            *)
THEOREM RunFormSafety == Spec => []RunUsesForm
<1>1. WebInv => RunUsesForm
  BY WebPromises
<1>2. QED
  BY <1>1, WebReached, PTL

(* Whatever order answers come in, a page's list, what is selected on it,  *)
(* what a deletion of it reaches and what is cached of it belong together  *)
(* (accounts, image manager, log viewer).                                  *)
THEOREM ListSafety == Spec => []ListsAreTrue
<1>1. WebInv => ListsAreTrue
  BY WebPromises
<1>2. QED
  BY <1>1, WebReached, PTL

(* Zoom, displacement and waiting frame belong to the image that is shown, *)
(* and the image stays in the window, however many images there are and    *)
(* whatever the fingers do (resetTransform, normalizeTransform).           *)
THEOREM ZoomSafety == Spec => []ZoomBelongsToImage
<1>1. WebInv => ZoomBelongsToImage
  BY WebPromises
<1>2. QED
  BY <1>1, WebReached, PTL

=============================================================================
