------------------------------ MODULE Composer ------------------------------
(***************************************************************************)
(* The input area of the drawing page (image/page.tsx) with its composer   *)
(* (image-composer.tsx) and the buttons of the result list                 *)
(* (image-results.tsx) that fill it.                                       *)
(*                                                                         *)
(* What is sent is put together from state that several handlers write:    *)
(* the prompt, the reference images in two parallel lists (the files that  *)
(* are uploaded and the previews that are stored), the size of the batch,  *)
(* the resolution, the reply context and the selected conversation.  Files *)
(* are read and images fetched asynchronously, and the quota and the       *)
(* entitlement to high resolutions arrive from the server at any time.     *)
(*                                                                         *)
(* A conversation is here one finished turn: what it can fill in.          *)
(***************************************************************************)
EXTENDS WebClient

CONSTANTS MaxRefs,     \* reference images at a time
          MaxActions   \* what the user does before and after a send

(* Turn 1 was an edit in high resolution, turn 2 a plain picture whose     *)
(* prompt record is deleted.                                               *)
Chats == {1, 2}
TurnRefs(c) == IF c = 1 THEN <<"turn">> ELSE <<>>
TurnRes(c) == IF c = 1 THEN "4k" ELSE "1k"
TurnCount(c) == IF c = 1 THEN 2 ELSE 1
TurnText(c) == c = 1

Resolutions == {"", "1k", "4k"}
isHighResolution(r) == r = "4k"

(* The quota hint: not read yet, not readable, a number, no limit.         *)
Unread == -2
Unknown == -1
Unlimited == 99

NoSend == [mode |-> "none"]

(* A hint that is missing lets everything pass.                            *)
ensureQuotaForRequest(n) == ui.quota \in {Unread, Unknown} \/ ui.quota >= n

Acting == past.moves < MaxActions

Acted == [past EXCEPT !.moves = @ + 1]

Room(n) == Len(ui.refs) + n <= MaxRefs

-----------------------------------------------------------------------------
(* The page opens: what was stored is put back, the identity is asked for, *)
(* and a picture handed over by the gallery is fetched.                    *)

ComposerInit ==
  /\ page = "composer"
  /\ \E r \in {"", "4k"} : \E handoff \in BOOLEAN :
       /\ disk = [res |-> r, count |-> 2]
       /\ ui = [prompt |-> FALSE, refs |-> <<>>, files |-> <<>>, res |-> r, count |-> 2,
                high |-> FALSE, quota |-> Unread, sel |-> 1, chats |-> Chats,
                reply |-> 0, menu |-> "none"]
       /\ calls = <<Request("identity", 0)>> \o
                  (IF handoff THEN <<Request("handoff", 0)>> ELSE <<>>)
  /\ mem = <<>>
  /\ server \in [high : BOOLEAN, left : {1, Unlimited}]
  /\ past = [moves |-> 0, sent |-> NoSend, seen |-> FALSE, entitled |-> FALSE]

(* A new entitlement or quota, by an administrator or by other requests.   *)
IdentityChanges ==
  /\ Acting
  /\ \E s \in [high : BOOLEAN, left : {1, Unlimited}] : s # server /\ server' = s
  /\ past' = Acted
  /\ UNCHANGED <<page, ui, mem, calls, disk>>

IdentityServed ==
  /\ \E q \in Waiting("identity") : calls' = Answered(q, server)
  /\ UNCHANGED <<page, ui, mem, server, disk, past>>

(* loadQuota: without the entitlement a chosen high resolution is dropped. *)
IdentityArrives ==
  /\ \E q \in Arrived("identity") :
       /\ calls' = Dropped(q)
       /\ ui' = [ui EXCEPT !.high = calls[q].data.high, !.quota = calls[q].data.left,
                           !.res = IF ~calls[q].data.high /\ isHighResolution(@) THEN "" ELSE @]
       /\ past' = [past EXCEPT !.seen = calls[q].data.high]
  /\ UNCHANGED <<page, mem, server, disk>>

IdentityFails ==
  /\ \E q \in Waiting("identity") :
       /\ calls' = Dropped(q)
       /\ ui' = [ui EXCEPT !.quota = IF @ = Unread THEN Unknown ELSE @]
  /\ UNCHANGED <<page, mem, server, disk, past>>

(* The window gets the focus again.                                        *)
FocusReturns ==
  /\ Acting
  /\ Pending("identity") = {}
  /\ calls' = Sent("identity", 0)
  /\ past' = Acted
  /\ UNCHANGED <<page, ui, mem, server, disk>>

(* The effects on [canUseHighResolution, imageResolution].                 *)
ResolutionEffects ==
  LET dropped == ~ui.high /\ isHighResolution(ui.res)
  IN  /\ dropped \/ disk.res # ui.res
      /\ disk' = [disk EXCEPT !.res = IF dropped THEN "" ELSE ui.res]
      /\ ui' = [ui EXCEPT !.res = IF dropped THEN "" ELSE @]
      /\ UNCHANGED <<page, mem, calls, server, past>>

CountEffect ==
  /\ disk.count # ui.count
  /\ disk' = [disk EXCEPT !.count = ui.count]
  /\ UNCHANGED <<page, ui, mem, calls, server, past>>

-----------------------------------------------------------------------------
(* Menus: one that is open closes on its button, on a choice, and on a     *)
(* press anywhere outside it.                                              *)

MenuToggled ==
  /\ Acting
  /\ \E m \in {"count", "resolution"} :
       ui' = [ui EXCEPT !.menu = IF @ = m THEN "none" ELSE m]
  /\ past' = Acted
  /\ UNCHANGED <<page, mem, calls, server, disk>>

CountChosen ==
  /\ ui.menu = "count"
  /\ \E n \in 1 .. 2 : ui' = [ui EXCEPT !.count = n, !.menu = "none"]
  /\ UNCHANGED <<page, mem, calls, server, disk, past>>

isResolutionDisabled(r) == ~ui.high /\ isHighResolution(r)

ResolutionChosen ==
  /\ ui.menu = "resolution"
  /\ \E r \in Resolutions :
       ~isResolutionDisabled(r) /\ ui' = [ui EXCEPT !.res = r, !.menu = "none"]
  /\ UNCHANGED <<page, mem, calls, server, disk, past>>

PressedOutside ==
  /\ ui.menu # "none"
  /\ ui' = [ui EXCEPT !.menu = "none"]
  /\ UNCHANGED <<page, mem, calls, server, disk, past>>

PromptTyped ==
  /\ ~ui.prompt
  /\ ui' = [ui EXCEPT !.prompt = TRUE]
  /\ UNCHANGED <<page, mem, calls, server, disk, past>>

-----------------------------------------------------------------------------
(* Reference images.                                                       *)

WithRef(u, r) == [u EXCEPT !.refs = Append(@, r), !.files = Append(@, r)]

(* Picked, pasted or dropped: the previews are read first, then both lists *)
(* grow in one step.                                                       *)
FilesPicked ==
  /\ Acting
  /\ Pending("read") = {}
  /\ calls' = Sent("read", 0)
  /\ past' = Acted
  /\ UNCHANGED <<page, ui, mem, server, disk>>

FilesRead ==
  /\ Room(1)
  /\ \E q \in Waiting("read") : calls' = Dropped(q)
  /\ ui' = WithRef(ui, "file")
  /\ UNCHANGED <<page, mem, server, disk, past>>

FetchFails ==
  /\ \E op \in {"read", "edit", "handoff"} : \E q \in Waiting(op) : calls' = Dropped(q)
  /\ UNCHANGED <<page, ui, mem, server, disk, past>>

(* "Redraw this picture" of the gallery: image and prompt.                 *)
HandoffFetched ==
  /\ Room(1)
  /\ \E q \in Waiting("handoff") : calls' = Dropped(q)
  /\ ui' = [WithRef(ui, "gallery") EXCEPT !.prompt = TRUE]
  /\ UNCHANGED <<page, mem, server, disk, past>>

(* Mutant: the preview goes, the file stays.                               *)
PreviewRemoved ==
  /\ Acting
  /\ ui.reply # ui.sel \/ ui.reply = 0
  /\ \E i \in DOMAIN ui.refs : ui' = [ui EXCEPT !.refs = RemoveAt(@, i)]
  /\ past' = Acted
  /\ UNCHANGED <<page, mem, calls, server, disk>>

(* The remove button of a thumbnail, hidden while a reply is shown.        *)
ReferenceRemoved ==
  /\ Acting
  /\ ui.reply # ui.sel \/ ui.reply = 0
  /\ \E i \in DOMAIN ui.refs :
       ui' = [ui EXCEPT !.refs = RemoveAt(@, i), !.files = RemoveAt(@, i)]
  /\ past' = Acted
  /\ UNCHANGED <<page, mem, calls, server, disk>>

(* "Add to edit" on a result: the image may have to be fetched first, and  *)
(* its conversation is selected when it has arrived.                       *)
ContinueEdit ==
  /\ Acting
  /\ ui.sel \in ui.chats
  /\ calls' = Sent("edit", ui.sel)
  /\ past' = Acted
  /\ UNCHANGED <<page, ui, mem, server, disk>>

EditFetched ==
  /\ Room(1)
  /\ \E q \in Waiting("edit") :
       /\ calls' = Dropped(q)
       /\ ui' = [WithRef(ui, "result") EXCEPT !.sel = calls[q].arg, !.prompt = FALSE]
  /\ UNCHANGED <<page, mem, server, disk, past>>

(* "Reply" on a refused or questioned turn brings its references along.    *)
ReplyToTurn ==
  /\ Acting
  /\ ui.sel \in ui.chats
  /\ LET c == ui.sel
     IN  ui' = [ui EXCEPT !.reply = c,
                          !.refs = IF TurnRefs(c) # <<>> THEN TurnRefs(c) ELSE @,
                          !.files = IF TurnRefs(c) # <<>> THEN TurnRefs(c) ELSE @]
  /\ past' = Acted
  /\ UNCHANGED <<page, mem, calls, server, disk>>

ReplyCancelled ==
  /\ ui.reply # 0 /\ ui.reply = ui.sel
  /\ ui' = [ui EXCEPT !.reply = 0, !.refs = <<>>, !.files = <<>>]
  /\ UNCHANGED <<page, mem, calls, server, disk, past>>

(* "Reuse": everything of the turn, but a high resolution only with the    *)
(* entitlement.                                                            *)
ReuseTurnConfig ==
  /\ Acting
  /\ ui.sel \in ui.chats
  /\ TurnText(ui.sel)
  /\ LET c == ui.sel
     IN  ui' = [ui EXCEPT !.prompt = TRUE, !.count = TurnCount(c),
                          !.res = IF ~ui.high /\ isHighResolution(TurnRes(c)) THEN ""
                                  ELSE TurnRes(c),
                          !.refs = TurnRefs(c), !.files = TurnRefs(c)]
  /\ past' = Acted
  /\ UNCHANGED <<page, mem, calls, server, disk>>

-----------------------------------------------------------------------------
(* The selected conversation.                                              *)

Cleared(u) ==
  [u EXCEPT !.prompt = FALSE, !.refs = <<>>, !.files = <<>>, !.reply = 0,
            !.res = IF ~u.high /\ isHighResolution(@) THEN "" ELSE @]

ConversationSelected ==
  /\ Acting
  /\ \E c \in ui.chats \ {ui.sel} : ui' = [ui EXCEPT !.sel = c]
  /\ past' = Acted
  /\ UNCHANGED <<page, mem, calls, server, disk>>

DraftCreated ==
  /\ Acting
  /\ ui' = [Cleared(ui) EXCEPT !.sel = 0]
  /\ past' = Acted
  /\ UNCHANGED <<page, mem, calls, server, disk>>

Fallback(chats) == IF chats = {} THEN 0 ELSE CHOOSE c \in chats : \A d \in chats : c <= d

ConversationDeleted ==
  /\ Acting
  /\ \E c \in ui.chats :
       LET left == ui.chats \ {c}
       IN  ui' = [(IF ui.sel = c THEN [Cleared(ui) EXCEPT !.sel = Fallback(left)] ELSE ui)
                    EXCEPT !.chats = left]
  /\ past' = Acted
  /\ UNCHANGED <<page, mem, calls, server, disk>>

(* A selection that is gone, as after a late "add to edit", falls back.    *)
SelectionEffect ==
  /\ ui.sel # 0 /\ ui.sel \notin ui.chats
  /\ ui' = [ui EXCEPT !.sel = Fallback(ui.chats)]
  /\ UNCHANGED <<page, mem, calls, server, disk, past>>

-----------------------------------------------------------------------------
(* The send button and the enter key.                                      *)

Turn(u) ==
  LET target == IF u.sel \in u.chats THEN u.sel ELSE 0
      edit == u.files # <<>>
  IN  [mode |-> IF edit THEN "edit" ELSE "generate",
       files |-> u.files,
       refs |-> IF edit THEN u.refs ELSE <<>>,
       res |-> IF u.high \/ ~isHighResolution(u.res) THEN u.res ELSE "",
       count |-> u.count, chat |-> target,
       reply |-> IF u.reply # 0 /\ u.reply = target THEN u.reply ELSE 0]

(* A turn of a new conversation is not followed up here.                   *)
handleSubmit ==
  /\ Acting
  /\ ui.prompt
  /\ ensureQuotaForRequest(ui.count)
  /\ ui' = Cleared(ui)
  /\ past' = [Acted EXCEPT !.sent = Turn(ui), !.entitled = past.seen]
  /\ UNCHANGED <<page, mem, calls, server, disk>>

ComposerNext ==
  \/ IdentityChanges \/ IdentityServed \/ IdentityArrives \/ IdentityFails \/ FocusReturns
  \/ ResolutionEffects \/ CountEffect
  \/ MenuToggled \/ CountChosen \/ ResolutionChosen \/ PressedOutside \/ PromptTyped
  \/ FilesPicked \/ FilesRead \/ FetchFails \/ HandoffFetched \/ ReferenceRemoved
  \/ ContinueEdit \/ EditFetched \/ ReplyToTurn \/ ReplyCancelled \/ ReuseTurnConfig
  \/ ConversationSelected \/ DraftCreated \/ ConversationDeleted \/ SelectionEffect
  \/ handleSubmit

-----------------------------------------------------------------------------
(* Whatever arrived late before it, a turn is sent whole: an edit has      *)
(* references and stores as many as it uploads, a reply carries the        *)
(* context of the conversation it goes to and no other, and a high         *)
(* resolution is asked for only with the entitlement the server last told  *)
(* the page of (handleSubmit; its comment says the context must not leak   *)
(* after the conversation was switched).                                   *)
SentTurnIsWhole ==
  page = "composer" /\ past.sent # NoSend =>
    /\ (past.sent.mode = "edit") = (past.sent.refs # <<>>)
    /\ past.sent.refs = past.sent.files
    /\ past.sent.reply \in {0, past.sent.chat}
    /\ isHighResolution(past.sent.res) => past.entitled

=============================================================================
