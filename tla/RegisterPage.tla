---------------------------- MODULE RegisterPage ----------------------------
(***************************************************************************)
(* The registration page: the register half of settings/store.ts, the      *)
(* event stream of register/page.tsx, and the card with its buttons, form  *)
(* and list of blocked mail domains (register-card.tsx).  The machine      *)
(* itself is modelled by RegisterRun; here the server is what the page     *)
(* sees of it.                                                             *)
(*                                                                         *)
(* A config is a form (total: 0 stands for an empty number; mail: the      *)
(* types of the providers) and the state of the run (on: enabled, busy:    *)
(* workers are running, job: what they do).                                *)
(*                                                                         *)
(*   mem     the store: registerConfig, isLoadingRegister,                 *)
(*           isSavingRegister                                              *)
(*   ui      the page: mounted or not, the event stream with the last      *)
(*           snapshot it was sent, the domain list                         *)
(*   server  its config and its domain list                                *)
(*   past    spent bounds, and the last run a click has started: the form  *)
(*           it runs with and the form the user saw at the click           *)
(***************************************************************************)
EXTENDS WebClient

CONSTANTS MaxSteps    \* clicks, edits, page changes, failures, own starts

NoConfig == [total |-> -1]
NoAsk == [asked |-> NoConfig, runs |-> NoConfig]

Stepping == past.steps < MaxSteps
Stepped == [past EXCEPT !.steps = @ + 1]

FormOf(c) == [total |-> c.total, mail |-> c.mail]

-----------------------------------------------------------------------------
(* getRegisterRuntimeState, on the flags the server sends.                 *)
isStopping(c) == ~c.on /\ c.busy
isRepairing(c) == c.on /\ c.job = "repair"
isRunning(c) == c.on
isActive(c) == isRunning(c) \/ isStopping(c)

(* An empty total is shown, and posted, as 1.                              *)
normalizeRegister(c) == [c EXCEPT !.total = IF @ = 0 THEN 1 ELSE @]

Payload(c) == FormOf(normalizeRegister(c))

hasYYDSProvider(c) == c # NoConfig /\ \E i \in DOMAIN c.mail : c.mail[i] = "yyds"

-----------------------------------------------------------------------------
Mount ==
  [open |-> TRUE, stream |-> "opening", last |-> NoConfig, yyds |-> FALSE, text |-> "",
   busy |-> FALSE]

(* The page has just been opened for the first time.                       *)
RegisterInit ==
  /\ page = "register"
  /\ mem = [cfg |-> NoConfig, loading |-> TRUE, saving |-> FALSE]
  /\ ui = Mount
  /\ calls = <<Request("load", FALSE)>>
  /\ server = [cfg |-> [total |-> 2, mail |-> <<"lol">>, on |-> FALSE, busy |-> FALSE,
                        job |-> "none"],
               blocked |-> "a"]
  /\ disk = <<>>
  /\ past = [steps |-> 0, ran |-> NoAsk]

(* The page is mounted: the config is asked for and the stream opened.     *)
RegisterOpened ==
  /\ Stepping
  /\ ~ui.open
  /\ ui' = Mount
  /\ mem' = [mem EXCEPT !.loading = TRUE]
  /\ calls' = Sent("load", FALSE)
  /\ past' = Stepped
  /\ UNCHANGED <<page, server, disk>>

(* The stream is aborted, its timer cleared; what the list of domains was  *)
(* waiting for is cancelled, a post of it (now "lost") unheard.            *)
RegisterLeft ==
  /\ Stepping
  /\ ui.open
  /\ ui' = [ui EXCEPT !.open = FALSE, !.stream = "off"]
  /\ LET heard == Cancelled(Cancelled(calls, "event"), "blocked")
     IN  calls' = [i \in DOMAIN heard |->
                    [heard[i] EXCEPT !.op = IF @ = "block" THEN "lost" ELSE @]]
  /\ past' = Stepped
  /\ UNCHANGED <<page, mem, server, disk>>

-----------------------------------------------------------------------------
(* The event stream: a snapshot whenever it differs from the last one.     *)
StreamOpens ==
  /\ ui.stream = "opening"
  /\ ui' = [ui EXCEPT !.stream = "open", !.last = NoConfig]
  /\ UNCHANGED <<page, mem, calls, server, disk, past>>

EventSent ==
  /\ ui.stream = "open" /\ ui.last # server.cfg /\ Pending("event") = {}
  /\ calls' = Append(calls, [Request("event", 0) EXCEPT !.at = "ok", !.data = server.cfg])
  /\ ui' = [ui EXCEPT !.last = server.cfg]
  /\ UNCHANGED <<page, mem, server, disk, past>>

setRegisterConfig ==
  /\ \E i \in Pending("event") :
       /\ calls' = Dropped(i)
       /\ mem' = [mem EXCEPT !.cfg = normalizeRegister(calls[i].data), !.loading = FALSE]
  /\ UNCHANGED <<page, ui, server, disk, past>>

StreamBreaks ==
  /\ Stepping
  /\ ui.stream \in {"opening", "open"}
  /\ ui' = [ui EXCEPT !.stream = "waiting"]
  /\ calls' = Cancelled(calls, "event")
  /\ past' = Stepped
  /\ UNCHANGED <<page, mem, server, disk>>

(* A second and a half later the config is read, and the stream opened.    *)
FallbackTimer ==
  /\ ui.stream = "waiting"
  /\ ui' = [ui EXCEPT !.stream = "opening"]
  /\ calls' = Sent("load", TRUE)
  /\ UNCHANGED <<page, mem, server, disk, past>>

-----------------------------------------------------------------------------
(* The server.  A start while the last run is stopping changes nothing.    *)
Start(c, job) == IF isActive(c) THEN c ELSE [c EXCEPT !.on = TRUE, !.busy = TRUE, !.job = job]

Stop(c) == [c EXCEPT !.on = FALSE]

Served(i) ==
  LET c == server.cfg
      q == calls[i]
  IN  CASE q.op \in {"save", "put"} ->
             [server EXCEPT !.cfg = [c EXCEPT !.total = q.arg.total, !.mail = q.arg.mail]]
        [] q.op = "start" -> [server EXCEPT !.cfg = Start(c, "register")]
        [] q.op = "stop" -> [server EXCEPT !.cfg = Stop(c)]
        [] q.op = "repair" -> [server EXCEPT !.cfg = Start(c, "repair")]
        [] q.op \in {"block", "lost"} -> [server EXCEPT !.blocked = q.arg]
        [] OTHER -> server

RegisterServed ==
  /\ \E i \in DOMAIN calls :
       /\ calls[i].at = "sent"
       /\ server' = Served(i)
       /\ calls' = Answered(i, IF calls[i].op \in {"block", "blocked", "lost"} THEN server'.blocked
                                                                       ELSE server'.cfg)
       /\ past' = IF calls[i].op = "start" /\ ~isActive(server.cfg)
                    THEN [past EXCEPT !.ran = [asked |-> calls[i].arg,
                                               runs |-> FormOf(server.cfg)]]
                  ELSE past
  /\ UNCHANGED <<page, ui, mem, disk>>

RegisterFails ==
  /\ Stepping
  /\ \E i \in DOMAIN calls : calls[i].at = "sent" /\ calls' = Failed(i)
  /\ past' = Stepped
  /\ UNCHANGED <<page, ui, mem, server, disk>>

RunStartsItself ==
  /\ Stepping
  /\ ~isActive(server.cfg)
  /\ server' = [server EXCEPT !.cfg = Start(@, "register")]
  /\ past' = Stepped
  /\ UNCHANGED <<page, ui, mem, calls, disk>>

RunWindsDown ==
  /\ server.cfg.busy
  /\ server' = [server EXCEPT !.cfg = [server.cfg EXCEPT !.busy = FALSE, !.on = FALSE,
                                                           !.job = "none"]]
  /\ UNCHANGED <<page, ui, mem, calls, disk, past>>

-----------------------------------------------------------------------------
(* Mutant: the buttons are not locked.                                     *)
AskedUnlocked(op, arg) == UNCHANGED mem /\ calls' = Sent(op, arg)

(* The buttons of the card.  All requests share isSavingRegister.          *)
Asked(op, arg) == mem' = [mem EXCEPT !.saving = TRUE] /\ calls' = Sent(op, arg)

SaveEnabled == ~mem.saving /\ ~isActive(mem.cfg)
ToggleEnabled == ~mem.saving /\ ~isStopping(mem.cfg)
RepairEnabled ==
  /\ ~mem.saving /\ ~isStopping(mem.cfg)
  /\ isRunning(mem.cfg) => isRepairing(mem.cfg)

saveRegister == SaveEnabled /\ Asked("save", Payload(mem.cfg))

(* Starting posts the form first.                                          *)
toggleRegister ==
  /\ ToggleEnabled
  /\ IF isRunning(mem.cfg) THEN Asked("stop", 0) ELSE Asked("put", Payload(mem.cfg))

resetRegister == SaveEnabled /\ Asked("reset", 0)

repairAbnormalRegisterAccounts ==
  /\ RepairEnabled
  /\ Asked(IF isRepairing(mem.cfg) THEN "stop" ELSE "repair", 0)

testOutlookPool == ~mem.saving /\ Asked("test", 0)

RegisterClicked ==
  /\ Stepping
  /\ ui.open /\ ~mem.loading /\ mem.cfg # NoConfig
  /\ \/ saveRegister
     \/ toggleRegister
     \/ resetRegister
     \/ repairAbnormalRegisterAccounts
     \/ testOutlookPool
  /\ past' = Stepped
  /\ UNCHANGED <<page, ui, server, disk>>

(* After the post of the form, the start; what it is answered is shown.    *)
PutAnswered ==
  /\ \E i \in Arrived("put") :
       IF calls[i].at = "ok"
         THEN /\ calls' = Append(Dropped(i), Request("start", calls[i].arg))
              /\ UNCHANGED mem
         ELSE /\ calls' = Dropped(i)
              /\ mem' = [mem EXCEPT !.saving = FALSE]
  /\ UNCHANGED <<page, ui, server, disk, past>>

RegisterAnswered ==
  /\ \E op \in {"save", "start", "stop", "reset", "repair", "test"} : \E i \in Arrived(op) :
       /\ calls' = Dropped(i)
       /\ mem' = IF calls[i].at = "ok" /\ op # "test"
                   THEN [mem EXCEPT !.cfg = normalizeRegister(calls[i].data), !.saving = FALSE]
                 ELSE [mem EXCEPT !.saving = FALSE]
  /\ UNCHANGED <<page, ui, server, disk, past>>

loadRegister ==
  /\ \E i \in Arrived("load") :
       /\ calls' = Dropped(i)
       /\ mem' = [mem EXCEPT !.cfg = IF calls[i].at = "ok" THEN normalizeRegister(calls[i].data)
                                                           ELSE @,
                             !.loading = @ /\ calls[i].arg]
  /\ UNCHANGED <<page, ui, server, disk, past>>

-----------------------------------------------------------------------------
(* The form, locked while a task is active.                                *)
ConfigFields(c) == {[c EXCEPT !.total = n] : n \in {0, 2}}

addRegisterProvider(c) == IF Len(c.mail) < 2 THEN {[c EXCEPT !.mail = Append(@, "lol")]} ELSE {}

deleteRegisterProvider(c) ==
  IF Len(c.mail) > 1 THEN {[c EXCEPT !.mail = RemoveAt(@, i)] : i \in DOMAIN c.mail} ELSE {}

updateProviderType(c) ==
  {[c EXCEPT !.mail = [@ EXCEPT ![i] = t]] : i \in DOMAIN c.mail, t \in {"lol", "yyds"}}

RegisterEdited ==
  /\ Stepping
  /\ ui.open /\ ~mem.loading /\ mem.cfg # NoConfig /\ ~isActive(mem.cfg)
  /\ \E c \in ConfigFields(mem.cfg) \cup addRegisterProvider(mem.cfg)
             \cup deleteRegisterProvider(mem.cfg) \cup updateProviderType(mem.cfg) :
       c # mem.cfg /\ mem' = [mem EXCEPT !.cfg = c]
  /\ past' = Stepped
  /\ UNCHANGED <<page, ui, calls, server, disk>>

(* The effect on [hasYYDSProvider]: the list is read anew or emptied, and  *)
(* an earlier read is cancelled.                                           *)
BlacklistEffect ==
  LET has == hasYYDSProvider(mem.cfg)
      kept == Cancelled(calls, "blocked")
  IN  /\ ui.open /\ has # ui.yyds
      /\ ui' = [ui EXCEPT !.yyds = has, !.busy = has, !.text = IF has THEN @ ELSE ""]
      /\ calls' = IF has THEN Append(kept, Request("blocked", 0)) ELSE kept
      /\ UNCHANGED <<page, mem, server, disk, past>>

BlacklistEnabled == ui.open /\ ui.yyds /\ ~ui.busy /\ ~isActive(mem.cfg)

BlacklistEdited ==
  /\ Stepping
  /\ BlacklistEnabled
  /\ \E t \in {"", "b"} : ui' = [ui EXCEPT !.text = t]
  /\ past' = Stepped
  /\ UNCHANGED <<page, mem, calls, server, disk>>

(* The list is posted; "" clears it, which an empty text does not offer.   *)
BlacklistPosted ==
  /\ Stepping
  /\ BlacklistEnabled
  /\ \E t \in {ui.text, ""} : calls' = Sent("block", t)
  /\ ui' = [ui EXCEPT !.busy = TRUE]
  /\ past' = Stepped
  /\ UNCHANGED <<page, mem, server, disk>>

BlacklistAnswered ==
  /\ \E op \in {"block", "blocked", "lost"} : \E i \in Arrived(op) :
       /\ calls' = Dropped(i)
       /\ ui' = IF op = "lost" THEN ui
                ELSE [ui EXCEPT !.busy = FALSE,
                                !.text = IF calls[i].at = "ok" THEN calls[i].data
                                         ELSE IF op = "blocked" THEN "" ELSE @]
  /\ UNCHANGED <<page, mem, server, disk, past>>

RegisterNext ==
  \/ RegisterOpened \/ RegisterLeft
  \/ StreamOpens \/ EventSent \/ setRegisterConfig \/ StreamBreaks \/ FallbackTimer
  \/ RegisterServed \/ RegisterFails \/ RunStartsItself \/ RunWindsDown
  \/ RegisterClicked \/ PutAnswered \/ RegisterAnswered \/ loadRegister
  \/ RegisterEdited
  \/ BlacklistEffect \/ BlacklistEdited \/ BlacklistPosted \/ BlacklistAnswered

-----------------------------------------------------------------------------
(* A run that a click on the start button has started runs with the form   *)
(* the user saw at the click, whatever else was clicked, edited or shown   *)
(* between the post of the form and the start (toggleRegister and the lock *)
(* isSavingRegister of the card's buttons).                                *)
RunUsesForm == page = "register" => past.ran.runs = past.ran.asked

=============================================================================
