---------------------------- MODULE ImageQueue ----------------------------
(***************************************************************************)
(* The drawing page (src/web/src/app/image/page.tsx) and the conversation  *)
(* store behind it (src/web/src/store/image-conversations.ts).             *)
(*                                                                         *)
(* A conversation is a list of turns, a turn a list of images, and an      *)
(* image the client's view of one server task.  For every conversation     *)
(* with images still loading one "runner" (runConversationQueue) creates   *)
(* the tasks, polls them and writes the outcome into the page and into     *)
(* IndexedDB.  Writes to IndexedDB go through one FIFO queue.  Runners and *)
(* the queue live in module-level variables, so they outlive the page: a   *)
(* runner of a page that was left keeps working on that page's ref.        *)
(*                                                                         *)
(*   ui.here   the mount on the screen (0: another page is shown)          *)
(*   ui.ref    conversationsRef of every mount; the state variable         *)
(*             `conversations` is always set together with it              *)
(*   ui.load   loadHistory of every mount                                  *)
(*   ui.due    the effect on [conversations] has yet to run                *)
(*   mem.run   the runner of a conversation; the conversations that have   *)
(*             one are activeConversationQueueIds                          *)
(*   mem.writes  imageConversationWriteQueue                               *)
(*   server    the tasks; disk: the stored conversations                   *)
(***************************************************************************)
EXTENDS WebClient

CONSTANTS Convs,       \* conversation ids
          MaxTasks,    \* task ids the page may hand out
          MaxMoves,    \* user operations, page changes, failures, lost tasks
          MaxClock     \* the clock of updatedAt

ASSUME ImageAssumption ==
  /\ IsFiniteSet(Convs)
  /\ MaxMoves \in Nat
  /\ MaxClock \in Nat

Tasks == 0 .. MaxTasks      \* 0: the image an earlier visit left without a task id
Mounts == 1 .. MaxMoves + 1
NoTasks == [t \in {} |-> "absent"]
NoConvs == [c \in {} |-> "none"]
NoRun == [pc |-> "none"]
NoLoad == [pc |-> "none", items |-> NoConvs]

-----------------------------------------------------------------------------
(* Images, turns and conversations.                                        *)

Positions(t, st) == {i \in DOMAIN t.imgs : t.imgs[i].st = st}

NeedsRun(t) == t.st \in {"queued", "generating"} /\ Positions(t, "loading") # {}

(* The tasks behind the images of a turn that are still loading.           *)
LoadingIds(t) == {t.imgs[i].id : i \in {j \in Positions(t, "loading") : t.imgs[j].has}}

ConvLoadingIds(cv) ==
  UNION {LoadingIds(cv.turns[i]) : i \in {j \in DOMAIN cv.turns : ~cv.turns[j].cut}}

TaskImage(img, s) ==
  [img EXCEPT !.has = TRUE,
              !.st = CASE s = "success" -> "success"
                       [] s \in {"error", "canceled"} -> "error"
                       [] OTHER -> "loading"]

Derived(t) ==
  [t EXCEPT !.st = IF Positions(t, "loading") # {}
                     THEN IF t.st = "queued" THEN "queued" ELSE "generating"
                   ELSE IF Positions(t, "error") # {} THEN "error"
                   ELSE IF Positions(t, "success") # {} THEN "success"
                   ELSE "queued"]

LoadingImages(first, n) ==
  [i \in 1 .. n |-> [id |-> first + i - 1, has |-> TRUE, st |-> "loading"]]

NewTurn(first, n) ==
  [id |-> first, st |-> "queued", imgs |-> LoadingImages(first, n),
   text |-> TRUE, cut |-> FALSE, broken |-> FALSE]

TurnsOf(cv, id) == {i \in DOMAIN cv.turns : cv.turns[i].id = id}

Stamped(cv, turns) == [at |-> past.now, name |-> cv.name, turns |-> turns]

(* What the runner does to its turn.  An image whose result was deleted    *)
(* lost its task id, and is still found by its own id.                     *)
MarkGenerating(t) ==
  [t EXCEPT !.st = "generating",
            !.imgs = [i \in DOMAIN t.imgs |->
                        IF t.imgs[i].st = "loading" THEN [t.imgs[i] EXCEPT !.has = TRUE]
                                                    ELSE t.imgs[i]]]

ApplyTasks(t, got) ==
  Derived([t EXCEPT !.st = "generating",
                    !.imgs = [i \in DOMAIN t.imgs |->
                                IF t.imgs[i].id \in DOMAIN got
                                  THEN TaskImage(t.imgs[i], got[t.imgs[i].id])
                                  ELSE t.imgs[i]]])

FailImages(t, ids) ==
  Derived([t EXCEPT !.imgs = [i \in DOMAIN t.imgs |->
                                IF t.imgs[i].st = "loading" /\ t.imgs[i].id \in ids
                                  THEN [t.imgs[i] EXCEPT !.has = TRUE, !.st = "error"]
                                  ELSE t.imgs[i]]])

FailTurn(t) ==
  [t EXCEPT !.st = "error",
            !.imgs = [i \in DOMAIN t.imgs |->
                        IF t.imgs[i].st = "loading" THEN [t.imgs[i] EXCEPT !.st = "error"]
                                                    ELSE t.imgs[i]]]

-----------------------------------------------------------------------------
(* The store.                                                              *)

(* Mutant: a save loses against a stored conversation of the same age.     *)
pickOlder(current, next) == IF next.at > current.at THEN next ELSE current

pickLatestConversation(current, next) == IF next.at >= current.at THEN next ELSE current

(* Conversations by id.                                                    *)
JustOne(c, cv) == [x \in {c} |-> cv]

Laid(new, old) ==
  [x \in DOMAIN new \cup DOMAIN old |-> IF x \in DOMAIN new THEN new[x] ELSE old[x]]

Without(convs, c) == [x \in DOMAIN convs \ {c} |-> convs[x]]

SaveInto(d, items) ==
  [c \in DOMAIN d \cup DOMAIN items |->
     IF c \notin DOMAIN items THEN d[c]
     ELSE IF c \notin DOMAIN d THEN items[c]
     ELSE pickLatestConversation(d[c], items[c])]

Renamed(cv) == [at |-> past.now, name |-> 1, turns |-> cv.turns]

RenameIn(d, c) == IF c \in DOMAIN d THEN [d EXCEPT ![c] = Renamed(d[c])] ELSE d

Written(d, w) ==
  CASE w.op = "save" -> SaveInto(d, w.items)
    [] w.op = "rename" -> RenameIn(d, w.conv)
    [] w.op = "delete" -> Without(d, w.conv)
    [] w.op = "clear" -> NoConvs

(* A queued write: the conversations it saves (of a clear, the tasks to    *)
(* cancel afterwards), and who awaits it: `by`, on the mount m.            *)
Write(op, conv, items, by, m) ==
  [op |-> op, conv |-> conv, items |-> items, by |-> by, m |-> m]

-----------------------------------------------------------------------------
(* The page.  A handler changes several parts of it before its first       *)
(* await: the operators below take the page as one record and return the   *)
(* page they leave, so that an action composes them.                       *)

Tab == [here |-> ui.here, due |-> ui.due, ref |-> ui.ref, load |-> ui.load,
        run |-> mem.run, writes |-> mem.writes]

Become(p) ==
  /\ ui' = [here |-> p.here, last |-> ui.last, due |-> p.due, ref |-> p.ref, load |-> p.load]
  /\ mem' = [run |-> p.run, writes |-> p.writes]

ShownIn(p, m) == p.ref[m]

SetShown(p, m, convs) ==
  [p EXCEPT !.ref = [p.ref EXCEPT ![m] = convs],
            !.due = p.due \/ p.here = m]

SetLoad(p, m, pc, items) ==
  [p EXCEPT !.load = [p.load EXCEPT ![m] = [pc |-> pc, items |-> items]]]

SetRun(p, c, r) == [p EXCEPT !.run = [p.run EXCEPT ![c] = r]]

QueueAll(p, ws) == [p EXCEPT !.writes = p.writes \o ws]

Queue(p, w) == QueueAll(p, <<w>>)

(* persistConversation: show, then queue the save.                         *)
Persist(p, m, c, cv, by) ==
  Queue(SetShown(p, m, Laid(JustOne(c, cv), ShownIn(p, m))),
        Write("save", c, JustOne(c, cv), by, m))

(* The turns of c with the runner's turn changed, on the runner's page.    *)
Redrawn(p, c, T(_)) ==
  LET turns == ShownIn(p, p.run[c].m)[c].turns
  IN  [i \in DOMAIN turns |-> IF turns[i].id = p.run[c].turn THEN T(turns[i]) ELSE turns[i]]

RunnerAt(p, c, pc, wait) == SetRun(p, c, [p.run[c] EXCEPT !.pc = pc, !.wait = wait])

(* updateConversation, called by the runner of c: nothing is written for a *)
(* conversation its page no longer has.                                    *)
RunnerUpdate(p, c, turns, pc) ==
  LET m == p.run[c].m
      shown == ShownIn(p, m)
  IN  IF c \notin DOMAIN shown THEN RunnerAt(p, c, pc, FALSE)
      ELSE Persist(RunnerAt(p, c, pc, TRUE), m, c, Stamped(shown[c], turns), "run")

OpenTurns(cv) == {i \in DOMAIN cv.turns : NeedsRun(cv.turns[i])}

FirstOpen(cv) == CHOOSE i \in OpenTurns(cv) : \A j \in OpenTurns(cv) : i <= j

RunOf(m, t) ==
  [pc |-> "mark", wait |-> TRUE, m |-> m, turn |-> t.id,
   pend |-> {t.imgs[i].id : i \in Positions(t, "loading")},
   broken |-> t.broken, again |-> FALSE, ask |-> {}, got |-> NoTasks]

Marked(cv) ==
  LET id == cv.turns[FirstOpen(cv)].id
  IN  Stamped(cv, [i \in DOMAIN cv.turns |->
                     IF cv.turns[i].id = id THEN MarkGenerating(cv.turns[i]) ELSE cv.turns[i]])

(* runConversationQueue up to its first await, for each of these           *)
(* conversations: the ones with work and without a runner.                 *)
StartedAll(p, m, cs) ==
  LET shown == ShownIn(p, m)
      new == {c \in cs \cap DOMAIN shown : p.run[c] = NoRun /\ OpenTurns(shown[c]) # {}}
      marked == [c \in new |-> Marked(shown[c])]
      order == SetToSeq(new)
      run == [c \in Convs |-> IF c \in new THEN RunOf(m, shown[c].turns[FirstOpen(shown[c])])
                                            ELSE p.run[c]]
      saves == [i \in DOMAIN order |->
                  Write("save", order[i], JustOne(order[i], marked[order[i]]), "run", m)]
  IN  IF new = {} THEN p
      ELSE [QueueAll(SetShown(p, m, Laid(marked, shown)), saves) EXCEPT !.run = run]

Started(p, m, c) == StartedAll(p, m, {c})

(* Mutant: a runner ends without looking for further work.                 *)
FinishedQuietly(p, c) == SetRun(p, c, NoRun)

(* The finally block: the id leaves the active set and every conversation  *)
(* of this runner's page that has work is given a runner.                  *)
Finished(p, c) ==
  LET m == p.run[c].m
  IN  StartedAll(SetRun(p, c, NoRun), m, DOMAIN ShownIn(p, m))

Caught(p, c) == RunnerUpdate(p, c, Redrawn(p, c, FailTurn), "caught")

(* The head of the polling loop.                                           *)
Looped(p, c) ==
  LET r == p.run[c]
      shown == ShownIn(p, r.m)
      mine == IF c \in DOMAIN shown THEN TurnsOf(shown[c], r.turn) ELSE {}
      ids == UNION {LoadingIds(shown[c].turns[i]) : i \in mine}
  IN  SetRun(p, c, [r EXCEPT !.pc = IF ids = {} THEN "quota" ELSE "sleep",
                             !.wait = FALSE, !.ask = ids, !.got = NoTasks])

-----------------------------------------------------------------------------
(* The runner's steps.  What follows the await of a write runs in the same *)
(* turn of the event loop as the write's completion; what follows a        *)
(* request is a step of its own.                                           *)

At(c, pc) == mem.run[c].pc = pc

Asking(p, c, ids, again) ==
  SetRun(p, c, [p.run[c] EXCEPT !.pc = "create", !.ask = ids,
                                !.got = NoTasks, !.again = again])

(* One more answer of the requests a runner waits for.                     *)
Heard(c, t, status) ==
  mem' = [mem EXCEPT !.run = [mem.run EXCEPT ![c] =
            [mem.run[c] EXCEPT !.ask = @ \ {t}, !.got = Laid(JustOne(t, status), @)]]]

(* One create reaches the server, which makes the task or returns the one  *)
(* it has under this client id.                                            *)
CreateServed ==
  /\ \E c \in Convs : \E t \in Tasks :
       LET now == IF server[t] = "absent" THEN "running" ELSE server[t]
       IN  /\ At(c, "create")
           /\ t \in mem.run[c].ask
           /\ server' = [server EXCEPT ![t] = now]
           /\ Heard(c, t, now)
  /\ UNCHANGED <<page, ui, calls, disk, past>>

(* A create fails: refused, or done by the server with the answer lost.    *)
CreateFails ==
  /\ past.moves < MaxMoves
  /\ \E c \in Convs : \E id \in Tasks : \E done \in BOOLEAN :
       /\ At(c, "create")
       /\ id \in mem.run[c].ask
       /\ server' = IF done /\ server[id] = "absent"
                      THEN [server EXCEPT ![id] = "running"] ELSE server
       /\ Heard(c, id, "failed")
  /\ past' = [past EXCEPT !.moves = @ + 1]
  /\ UNCHANGED <<page, ui, calls, disk>>

Made(r) == [t \in {id \in DOMAIN r.got : r.got[id] # "failed"} |-> r.got[t]]

Refused(r) == DOMAIN r.got \ DOMAIN Made(r)

Heeded(p, c, got, pc) ==
  RunnerUpdate(p, c, Redrawn(p, c, LAMBDA t : ApplyTasks(t, got)), pc)

Failing(p, c) ==
  RunnerUpdate(p, c, Redrawn(p, c, LAMBDA t : FailImages(t, Refused(p.run[c]))), "failmark")

(* All creates are answered (Promise.all): the tasks are applied first,    *)
(* the failures are marked after that write.                               *)
CreatesAnswered ==
  /\ \E c \in Convs :
       /\ At(c, "create")
       /\ mem.run[c].ask = {}
       /\ Become(IF DOMAIN Made(mem.run[c]) # {}
                   THEN Heeded(Tab, c, Made(mem.run[c]), "submit")
                   ELSE Failing(Tab, c))
  /\ UNCHANGED <<page, calls, server, disk, past>>

(* Two seconds later the server answers the poll, or the poll fails.       *)
PollServed ==
  /\ \E c \in Convs :
       /\ At(c, "sleep")
       /\ mem' = [mem EXCEPT !.run = [mem.run EXCEPT ![c] =
            [mem.run[c] EXCEPT !.pc = "polled", !.got = [t \in mem.run[c].ask |-> server[t]]]]]
  /\ UNCHANGED <<page, ui, calls, server, disk, past>>

PollFails ==
  /\ past.moves < MaxMoves
  /\ \E c \in Convs : At(c, "sleep") /\ Become(Caught(Tab, c))
  /\ past' = [past EXCEPT !.moves = @ + 1]
  /\ UNCHANGED <<page, calls, server, disk>>

(* The tasks found are applied; the missing ones are created once more,    *)
(* under their old ids.                                                    *)
Missing(r) == {t \in DOMAIN r.got : r.got[t] = "absent"}

Found(r) == [t \in DOMAIN r.got \ Missing(r) |-> r.got[t]]

Resubmit(p, c) ==
  IF Missing(p.run[c]) # {} THEN Asking(p, c, Missing(p.run[c]), TRUE) ELSE Looped(p, c)

PollAnswered ==
  /\ \E c \in Convs :
       /\ At(c, "polled")
       /\ Become(IF DOMAIN Found(mem.run[c]) # {}
                   THEN Heeded(Tab, c, Found(mem.run[c]), "applied")
                   ELSE Resubmit(Tab, c))
  /\ UNCHANGED <<page, calls, server, disk, past>>

(* What follows the await of a write.  Saved as generating, an edit        *)
(* without reference images throws, anything else creates the tasks of the *)
(* images that were loading at the start.  When no task of that first      *)
(* round could be created the runner throws.                               *)
Resumed(p, c) ==
  LET r == p.run[c]
  IN  CASE r.pc = "mark" -> IF r.broken THEN Caught(p, c) ELSE Asking(p, c, r.pend, FALSE)
        [] r.pc = "submit" -> IF Refused(r) # {} THEN Failing(p, c) ELSE Looped(p, c)
        [] r.pc = "failmark" -> IF ~r.again /\ DOMAIN Made(r) = {} THEN Caught(p, c)
                                                                  ELSE Looped(p, c)
        [] r.pc = "applied" -> Resubmit(p, c)
        [] r.pc = "caught" -> Finished(p, c)

(* The conversation is gone from the runner's page: there was no write to  *)
(* wait for.                                                               *)
RunGoesOn ==
  /\ \E c \in Convs :
       /\ mem.run[c].pc \in {"mark", "submit", "failmark", "applied", "caught"}
       /\ ~mem.run[c].wait
       /\ Become(Resumed(Tab, c))
  /\ UNCHANGED <<page, calls, server, disk, past>>

(* loadQuota has answered (its failure is swallowed): the runner ends.     *)
RunEnds ==
  /\ \E c \in Convs : At(c, "quota") /\ Become(Finished(Tab, c))
  /\ UNCHANGED <<page, calls, server, disk, past>>

(* The effect on [conversations].                                          *)
AutoStart ==
  /\ ui.here # 0
  /\ ui.due
  /\ LET shown == ShownIn(Tab, ui.here)
         ready(c) == \E i \in DOMAIN shown[c].turns :
                       NeedsRun(shown[c].turns[i]) /\ ~shown[c].turns[i].cut
     IN  Become(StartedAll([Tab EXCEPT !.due = FALSE], ui.here,
                           {c \in DOMAIN shown : ready(c)}))
  /\ UNCHANGED <<page, calls, server, disk, past>>

-----------------------------------------------------------------------------
(* One write of the queue reaches IndexedDB; who awaits it goes on.        *)

Loaded(p, m, items) ==
  LET q == SetLoad(p, m, "done", NoConvs)
  IN  IF p.here = m THEN SetShown(q, m, items) ELSE q

AfterWrite(p, w) ==
  CASE w.by = "run" -> Resumed(p, w.conv)
    [] w.by = "start" -> Started(p, w.m, w.conv)
    [] w.by = "recover" -> SetLoad(p, w.m, "fetch", p.load[w.m].items)
    [] w.by = "sync" -> Loaded(p, w.m, p.load[w.m].items)
    [] w.by = "clear" -> SetShown(p, w.m, NoConvs)
    [] OTHER -> p

Shortened == [Tab EXCEPT !.writes = Tail(mem.writes)]

(* past.kept: deleted from a page whose history had been read.             *)
WriteDone ==
  /\ mem.writes # <<>>
  /\ LET w == Head(mem.writes)
     IN  /\ disk' = Written(disk, w)
         /\ Become(AfterWrite(Shortened, w))
         /\ calls' = IF w.op = "clear" THEN Sent("cancel", w.items) ELSE calls
         /\ past' = [past EXCEPT
              !.gone = IF w.op = "delete" THEN past.gone \cup {w.conv}
                       ELSE IF w.op = "clear" THEN past.gone \cup DOMAIN disk ELSE past.gone,
              !.kept = IF w.by = "delete" THEN past.kept \cup {w.conv} ELSE past.kept]
  /\ UNCHANGED <<page, server>>

(* IndexedDB refuses a write.  The runner's catch takes it for a failure   *)
(* of the turn; after a failed delete the store is listed again; a failed  *)
(* load leaves the page without history.                                   *)
AfterFailedWrite(p, w) ==
  CASE w.by = "run" -> IF p.run[w.conv].pc = "caught" THEN Finished(p, w.conv)
                                                      ELSE Caught(p, w.conv)
    [] w.by \in {"recover", "sync"} -> SetLoad(p, w.m, "done", NoConvs)
    [] OTHER -> p

WriteFails ==
  /\ past.moves < MaxMoves
  /\ mem.writes # <<>>
  /\ LET w == Head(mem.writes)
     IN  /\ Become(AfterFailedWrite(Shortened, w))
         /\ calls' = IF w.op = "delete" THEN Sent("relist", w.m) ELSE calls
  /\ past' = [past EXCEPT !.moves = @ + 1, !.lostWrite = TRUE]
  /\ UNCHANGED <<page, server, disk>>

(* A list read does not wait for the queued writes.                        *)
RelistRead ==
  /\ \E q \in Waiting("relist") : calls' = Answered(q, disk)
  /\ UNCHANGED <<page, ui, mem, server, disk, past>>

(* The catch of handleDeleteConversation shows what the store held, with   *)
(* the conversations whose deletion is still queued: past.back.            *)
Relisted ==
  /\ \E q \in Arrived("relist") :
       LET m == calls[q].arg
       IN  /\ Become(SetShown(Tab, m, calls[q].data))
           /\ past' = [past EXCEPT
                !.back = past.back \cup (DOMAIN calls[q].data \ DOMAIN ShownIn(Tab, m))]
           /\ calls' = Dropped(q)
  /\ UNCHANGED <<page, server, disk>>

-----------------------------------------------------------------------------
(* Opening the page: loadHistory.                                          *)

History(m) == ui.load[m]

Recovered(t) ==
  IF t.st \notin {"queued", "generating"} THEN t
  ELSE Derived([t EXCEPT !.imgs = [i \in DOMAIN t.imgs |->
                   IF t.imgs[i].st = "loading" /\ ~t.imgs[i].has
                     THEN [t.imgs[i] EXCEPT !.st = "error"] ELSE t.imgs[i]]])

Synced(t) ==
  LET known == {i \in DOMAIN t.imgs : t.imgs[i].st = "loading" /\ t.imgs[i].has
                                      /\ server[t.imgs[i].id] # "absent"}
  IN  IF t.cut \/ known = {} THEN t
      ELSE Derived([t EXCEPT !.imgs = [i \in DOMAIN t.imgs |->
                     IF i \in known THEN TaskImage(t.imgs[i], server[t.imgs[i].id])
                                    ELSE t.imgs[i]]])

(* Only a conversation with a changed turn gets a new stamp.               *)
EachTurn(items, touched(_, _), T(_)) ==
  [c \in DOMAIN items |->
     LET turns == [i \in DOMAIN items[c].turns |-> T(items[c].turns[i])]
     IN  IF \E i \in DOMAIN turns : touched(items[c].turns[i], turns[i])
           THEN Stamped(items[c], turns) ELSE items[c]]

recoverConversationHistory(items) == EachTurn(items, LAMBDA t, u : t # u, Recovered)

(* Every task the server knows counts as a change, whatever its status.    *)
syncConversationImageTasks(items) ==
  EachTurn(items,
           LAMBDA t, u : ~t.cut /\ \E i \in Positions(t, "loading") :
                           t.imgs[i].has /\ server[t.imgs[i].id] # "absent",
           Synced)

SaveAll(m, items, then) ==
  Queue(SetLoad(Tab, m, "save", items), Write("save", "all", items, then, m))

HistoryListed ==
  /\ \E m \in Mounts :
       LET items == recoverConversationHistory(disk)
       IN  /\ History(m).pc = "list"
           /\ Become(IF items # disk THEN SaveAll(m, items, "recover")
                     ELSE SetLoad(Tab, m, "fetch", items))
  /\ UNCHANGED <<page, calls, server, disk, past>>

Asks(items) == UNION {ConvLoadingIds(items[c]) : c \in DOMAIN items}

(* The tasks still loading are looked up; without any, or when the lookup  *)
(* fails, the list is shown as it was stored.                              *)
HistoryFetched ==
  /\ \E m \in Mounts :
       LET items == History(m).items
           synced == syncConversationImageTasks(items)
           changed == \E t \in Asks(items) : server[t] # "absent"
       IN  /\ History(m).pc = "fetch"
           /\ Become(IF changed THEN SaveAll(m, synced, "sync") ELSE Loaded(Tab, m, items))
  /\ UNCHANGED <<page, calls, server, disk, past>>

HistoryUnsynced ==
  /\ past.moves < MaxMoves
  /\ \E m \in Mounts :
       /\ History(m).pc = "fetch"
       /\ Asks(History(m).items) # {}
       /\ Become(Loaded(Tab, m, History(m).items))
  /\ past' = [past EXCEPT !.moves = @ + 1]
  /\ UNCHANGED <<page, calls, server, disk>>

(* Another page of the client is shown; runners and writes go on.          *)
LeavePage ==
  /\ ui.here # 0
  /\ past.moves < MaxMoves
  /\ ui' = [ui EXCEPT !.here = 0, !.due = FALSE]
  /\ past' = [past EXCEPT !.moves = @ + 1]
  /\ UNCHANGED <<page, mem, calls, server, disk>>

(* A new mount, beside the refs that runners of earlier ones still hold.   *)
Opened(n, ref, load) ==
  [here |-> n, last |-> n, due |-> FALSE,
   ref |-> [ref EXCEPT ![n] = NoConvs],
   load |-> [load EXCEPT ![n] = [pc |-> "list", items |-> NoConvs]]]

NoRefs == [m \in Mounts |-> NoConvs]
NoLoads == [m \in Mounts |-> NoLoad]

EnterPage ==
  /\ ui.here = 0
  /\ ui' = Opened(ui.last + 1, ui.ref, ui.load)
  /\ UNCHANGED <<page, mem, calls, server, disk, past>>

(* The browser reloads the page: everything in memory is gone, the queued  *)
(* writes included.                                                        *)
ReloadPage ==
  /\ past.moves < MaxMoves
  /\ ui' = Opened(ui.last + 1, NoRefs, NoLoads)
  /\ mem' = [run |-> [c \in Convs |-> NoRun], writes |-> <<>>]
  /\ calls' = SelectSeq(calls, LAMBDA q : q.op = "cancel")
  /\ past' = [past EXCEPT !.moves = @ + 1]
  /\ UNCHANGED <<page, server, disk>>

-----------------------------------------------------------------------------
(* What the user does.                                                     *)

Here == ShownIn(Tab, ui.here)

Editing == ui.here # 0 /\ past.moves < MaxMoves

Spent(n) == [past EXCEPT !.moves = @ + 1, !.used = @ + n]

Extended(cv, t) == Stamped(cv, Append(cv.turns, t))

(* A turn of n images, in the selected conversation or in a new one.       *)
Submit ==
  /\ Editing
  /\ \E c \in Convs : \E n \in 1 .. 2 :
       LET t == NewTurn(past.used + 1, n)
       IN  /\ past.used + n <= MaxTasks
           /\ c \in DOMAIN Here \/ c \notin past.ids
           /\ Become(Persist(Tab, ui.here, c,
                IF c \in DOMAIN Here THEN Extended(Here[c], t)
                ELSE [at |-> past.now, name |-> 0, turns |-> <<t>>],
                "start"))
           /\ past' = [Spent(n) EXCEPT
                !.ids = @ \cup {c},
                !.loose = IF History(ui.here).pc = "done" THEN @ ELSE @ \cup {c}]
  /\ UNCHANGED <<page, calls, server, disk>>

Regenerate ==
  /\ Editing
  /\ \E c \in DOMAIN Here : \E i \in DOMAIN Here[c].turns :
       LET t == Here[c].turns[i]
           n == Len(t.imgs)
       IN  /\ t.text
           /\ past.used + n <= MaxTasks
           /\ Become(Persist(Tab, ui.here, c,
                       Extended(Here[c], [NewTurn(past.used + 1, n) EXCEPT !.broken = t.broken]),
                       "start"))
           /\ past' = Spent(n)
  /\ UNCHANGED <<page, calls, server, disk>>

RetryImage ==
  /\ Editing
  /\ past.used < MaxTasks
  /\ \E c \in DOMAIN Here : \E i \in DOMAIN Here[c].turns :
       \E j \in Positions(Here[c].turns[i], "error") :
         LET t == Here[c].turns[i]
             fresh == [id |-> past.used + 1, has |-> TRUE, st |-> "loading"]
             again == Derived([t EXCEPT !.st = "queued", !.imgs[j] = fresh])
         IN  /\ ~t.cut
             /\ t.text
             /\ Become(Persist(Tab, ui.here, c,
                         Stamped(Here[c], [Here[c].turns EXCEPT ![i] = again]), "start"))
  /\ past' = Spent(1)
  /\ UNCHANGED <<page, calls, server, disk>>

Cancelling(ids) == IF ids = {} THEN calls ELSE Sent("cancel", ids)

(* Mutant: the store deletes, the page keeps the conversation till then.   *)
WithoutStored(p, c) ==
  Queue(p, Write("delete", c, NoConvs,
                 IF History(ui.here).pc = "done" THEN "delete" ELSE "early", ui.here))

WithoutConv(p, c) ==
  Queue(SetShown(p, ui.here, Without(Here, c)),
        Write("delete", c, NoConvs,
              IF History(ui.here).pc = "done" THEN "delete" ELSE "early", ui.here))

DeleteConversation ==
  /\ Editing
  /\ \E c \in DOMAIN Here :
       /\ Become(WithoutConv(Tab, c))
       /\ calls' = Cancelling(ConvLoadingIds(Here[c]))
  /\ past' = Spent(0)
  /\ UNCHANGED <<page, server, disk>>

CutResults(t) ==
  [t EXCEPT !.cut = TRUE,
            !.st = IF t.st = "generating" THEN "error" ELSE t.st,
            !.imgs = [i \in DOMAIN t.imgs |->
                        [t.imgs[i] EXCEPT !.has = FALSE, !.st = "error"]]]

(* A turn without prompt and without results is gone, and a conversation   *)
(* without turns is deleted.                                               *)
DeleteTurnPart ==
  /\ Editing
  /\ \E c \in DOMAIN Here : \E i \in DOMAIN Here[c].turns : \E results \in BOOLEAN :
       LET t == Here[c].turns[i]
           left == IF results THEN CutResults(t) ELSE [t EXCEPT !.text = FALSE]
           turns == IF left.cut /\ ~left.text THEN RemoveAt(Here[c].turns, i)
                                              ELSE [Here[c].turns EXCEPT ![i] = left]
       IN  /\ IF results THEN ~t.cut ELSE t.text
           /\ Become(IF turns = <<>> THEN WithoutConv(Tab, c)
                     ELSE Persist(Tab, ui.here, c,
                                  Stamped(Here[c], turns), "none"))
           /\ calls' = Cancelling(IF results /\ ~t.cut THEN LoadingIds(t) ELSE {})
  /\ past' = Spent(0)
  /\ UNCHANGED <<page, server, disk>>

(* The history is cleared in the store first, on the page afterwards.      *)
ClearHistory ==
  /\ Editing
  /\ DOMAIN Here # {}
  /\ Become(Queue(Tab, Write("clear", "all", UNION {ConvLoadingIds(Here[c]) : c \in DOMAIN Here},
                             "clear", ui.here)))
  /\ past' = Spent(0)
  /\ UNCHANGED <<page, calls, server, disk>>

RenameConversation ==
  /\ Editing
  /\ \E c \in DOMAIN Here :
       /\ Here[c].name = 0
       /\ Become(Queue(SetShown(Tab, ui.here,
                                [Here EXCEPT ![c] = Renamed(Here[c])]),
                       Write("rename", c, NoConvs, "none", ui.here)))
       /\ past' = [Spent(0) EXCEPT !.loose = @ \cup {c}]
  /\ UNCHANGED <<page, calls, server, disk>>

-----------------------------------------------------------------------------
(* The server, which the page uses through api/image-tasks.                *)

TaskEnds ==
  /\ \E t \in Tasks : \E end \in {"success", "error"} :
       /\ server[t] = "running"
       /\ server' = [server EXCEPT ![t] = end]
  /\ UNCHANGED <<page, ui, mem, calls, disk, past>>

TaskPurged ==
  /\ past.moves < MaxMoves
  /\ \E t \in Tasks : server[t] # "absent" /\ server' = [server EXCEPT ![t] = "absent"]
  /\ past' = [past EXCEPT !.moves = @ + 1]
  /\ UNCHANGED <<page, ui, mem, calls, disk>>

CancelServed ==
  /\ \E q \in Waiting("cancel") :
       /\ server' = [t \in Tasks |-> IF t \in calls[q].arg /\ server[t] = "running"
                                       THEN "canceled" ELSE server[t]]
       /\ calls' = Dropped(q)
  /\ UNCHANGED <<page, ui, mem, disk, past>>

(* cancelTaskIdsSilently: a failed cancel is forgotten.                    *)
CancelFails ==
  /\ past.moves < MaxMoves
  /\ \E q \in Waiting("cancel") : calls' = Dropped(q)
  /\ past' = [past EXCEPT !.moves = @ + 1]
  /\ UNCHANGED <<page, ui, mem, server, disk>>

ClockTicks ==
  /\ past.now < MaxClock
  /\ past' = [past EXCEPT !.now = @ + 1]
  /\ UNCHANGED <<page, ui, mem, calls, server, disk>>

-----------------------------------------------------------------------------
(* The store as an earlier visit left it: empty, or with one conversation  *)
(* whose image never got a task id, is still being made, or belongs to an  *)
(* edit without its reference images.                                      *)
Left(t) == [at |-> 0, name |-> 0, turns |-> <<t>>]

Untracked == [NewTurn(0, 1) EXCEPT !.imgs[1].has = FALSE]

LeftTurns == {Untracked, NewTurn(1, 1), [NewTurn(1, 1) EXCEPT !.broken = TRUE]}

ImageInit ==
  /\ page = "image"
  /\ ui = Opened(1, NoRefs, NoLoads)
  /\ mem = [run |-> [c \in Convs |-> NoRun], writes |-> <<>>]
  /\ calls = <<>>
  /\ disk \in {NoConvs} \cup {JustOne(c, Left(t)) : c \in Convs, t \in LeftTurns}
  /\ LET seen == UNION {ConvLoadingIds(disk[c]) : c \in DOMAIN disk}
     IN  /\ server = [t \in Tasks |-> IF t \in seen THEN "running" ELSE "absent"]
         /\ past = [used |-> Cardinality(seen), moves |-> 0, now |-> 0, lostWrite |-> FALSE,
                    ids |-> DOMAIN disk, gone |-> {}, kept |-> {}, back |-> {}, loose |-> {}]

ImageSystem ==
  \/ CreateServed \/ CreatesAnswered \/ PollServed \/ PollAnswered \/ RunGoesOn \/ RunEnds
  \/ AutoStart \/ WriteDone \/ RelistRead \/ Relisted
  \/ HistoryListed \/ HistoryFetched

ImageFaults ==
  \/ CreateFails \/ PollFails \/ WriteFails \/ HistoryUnsynced \/ TaskPurged \/ CancelFails

ImageUser ==
  \/ LeavePage \/ EnterPage \/ ReloadPage \/ Submit \/ Regenerate \/ RetryImage
  \/ DeleteConversation \/ DeleteTurnPart \/ ClearHistory \/ RenameConversation

ImageNext ==
  \/ ImageSystem \/ ImageFaults \/ ImageUser
  \/ TaskEnds \/ CancelServed \/ ClockTicks

-----------------------------------------------------------------------------
(* A conversation deleted from a page whose history had been read, in a    *)
(* tab that never left the page, is not written back: a runner that is     *)
(* still polling its tasks finds nothing to update, and every write that   *)
(* runner queued before the deletion is ahead of it in the queue           *)
(* (updateConversation, deleteImageConversation).  Left out, because there *)
(* the code does bring it back: when the deletion of another conversation  *)
(* fails, the list that is read again shows it while its own deletion is   *)
(* still queued (handleDeleteConversation's catch), and a runner saves it. *)
DeleteSticks ==
  page = "image" /\ ui.last = 1 => (past.kept \ past.back) \cap DOMAIN disk = {}

(* While the page stays open every turn with images still loading has a    *)
(* runner, or one about to be started: a runner that ends while others     *)
(* wait, a failed delete that brings a conversation back, a retry during   *)
(* the last poll, a broken turn behind which others wait                   *)
(* (runConversationQueue's finally, the effect on [conversations]).        *)
LoadingIsWatched ==
  page = "image" /\ ui.last = 1 /\ ui.here = 1 =>
    \A c \in DOMAIN Here :
      (\E i \in DOMAIN Here[c].turns : NeedsRun(Here[c].turns[i]) /\ ~Here[c].turns[i].cut)
        => ui.due \/ mem.run[c] # NoRun

(* With nothing on the way the store holds what the page shows, so a       *)
(* reload brings it back.  Left out: a store that refused a write, and two *)
(* races the code has, a rename, stamped only when it is written, that     *)
(* overtakes an older save, and a turn sent before the history was read.   *)
Quiet ==
  /\ mem.writes = <<>> /\ ~ui.due
  /\ \A c \in Convs : mem.run[c] = NoRun
  /\ \A m \in Mounts : ui.load[m].pc \in {"none", "done"}

QuietMeansStored ==
  page = "image" /\ Quiet /\ ui.last = 1 /\ ui.here = 1 /\ ~past.lostWrite =>
    \A c \in DOMAIN Here \ (past.loose \cup past.gone) :
      c \in DOMAIN disk /\ disk[c] = Here[c]

(* page.tsx says of updateConversation that a deleted conversation is not  *)
(* written back, so that a polling task cannot bring deleted data back.    *)
DeletedStaysDeleted == page = "image" => past.gone \cap DOMAIN disk = {}

=============================================================================
