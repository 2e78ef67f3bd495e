---------------------------- MODULE GalleryPage ----------------------------
(***************************************************************************)
(* The image manager (image-manager/page.tsx): a list of the server's      *)
(* images under a filter the server applies (dates and owner, here one     *)
(* value) and a filter by tag the page applies, with deletion of one       *)
(* image, of the selected ones, or of all that match the filters, and      *)
(* editing of tags.                                                        *)
(*                                                                         *)
(* Every change of the server's filter reads the list again; nothing       *)
(* cancels an earlier read.  The three requests of a read count as one.    *)
(* Long presses and pages of the grid only choose what is clicked and are  *)
(* part of the clicks.                                                     *)
(*                                                                         *)
(*   mem     cachedImageManager: filled or not, the list and its filter    *)
(*   ui      the list, the filters, the selection, the dialogs             *)
(*   calls   a request carries the filter of the render it was made in     *)
(*   server  images with owner, tag and the version of their last change   *)
(*   past    spent bound, whether a new image came; what a bulk deletion   *)
(*           has hit that was not shown: "mixed" when the list was of      *)
(*           another filter, else "clean"                                  *)
(*                                                                         *)
(* For the property, a list goes with the filter (of) and the version (v)  *)
(* it was read under, and every image in it with its own version.          *)
(***************************************************************************)
EXTENDS WebClient, Functions

CONSTANTS MaxGallery    \* clicks, page changes, failures, new images

Owners == {"a", "b"}
NoImages == [i \in {} |-> {}]
NoGalleryDialog == [mode |-> "none", one |-> 0]

Matches(owner, img) == owner \in {"", img.owner}

(* What the server lists under a filter.                                   *)
ListOf(owner) ==
  Restrict(server.imgs, {i \in DOMAIN server.imgs : Matches(owner, server.imgs[i])})

filteredItems == {i \in DOMAIN ui.list : ui.tags => ui.list[i].tag}

hasActiveBulkFilter == ui.owner # "" \/ ui.tags

selectedCount ==
  Cardinality(IF ui.dialog.mode = "filtered" THEN filteredItems ELSE ui.sel)

GalleryCall(op, arg, silent) ==
  [op |-> op, arg |-> arg, at |-> "sent", data |-> NoImages, v |-> 0,
   owner |-> ui.owner, silent |-> silent, mine |-> TRUE]

Loads == Pending("load") \cup Pending("reload")

-----------------------------------------------------------------------------
(* The cache gives list and filter; the list is read in the background.    *)
GalleryMounted ==
  [open |-> TRUE, list |-> mem.list, of |-> mem.of, v |-> mem.v, owner |-> mem.owner,
   tags |-> FALSE, sel |-> {}, dialog |-> NoGalleryDialog, loading |-> ~mem.hit,
   deleting |-> FALSE]

Image(o, t) == [owner |-> o, tag |-> t, v |-> 0]

GalleryInit ==
  /\ page = "gallery"
  /\ mem = [hit |-> FALSE, list |-> NoImages, of |-> "", v |-> -1, owner |-> ""]
  /\ ui = GalleryMounted
  /\ server = [imgs |-> <<Image("a", TRUE), Image("a", FALSE), Image("b", FALSE)>>, v |-> 0]
  /\ calls = <<GalleryCall("load", {}, FALSE)>>
  /\ disk = <<>>
  /\ past = [clicks |-> 0, came |-> FALSE, hit |-> "none"]

GalleryOpened ==
  /\ Clicking(MaxGallery)
  /\ ~ui.open
  /\ ui' = GalleryMounted
  /\ calls' = Append(calls, [GalleryCall("load", {}, mem.hit) EXCEPT !.owner = mem.owner])
  /\ past' = Clicked
  /\ UNCHANGED <<page, mem, server, disk>>

GalleryLeft ==
  /\ Clicking(MaxGallery)
  /\ ui.open
  /\ ui' = [GalleryMounted EXCEPT !.open = FALSE]
  /\ calls' = [i \in DOMAIN calls |-> [calls[i] EXCEPT !.mine = FALSE]]
  /\ past' = Clicked
  /\ UNCHANGED <<page, mem, server, disk>>

-----------------------------------------------------------------------------
(* The server.                                                             *)
Touched(imgs) == [imgs |-> imgs, v |-> server.v + 1]

(* The images a deletion is about.                                         *)
Victims(q) ==
  IF q.arg.mode = "filtered"
    THEN {i \in DOMAIN server.imgs : /\ Matches(q.owner, server.imgs[i])
                                     /\ q.arg.tags => server.imgs[i].tag}
  ELSE q.arg.who \cap DOMAIN server.imgs

(* Images that are deleted although the page did not show them as such,    *)
(* and that are neither new nor changed: the page had them as they are, or *)
(* they were there when the list was read.                                 *)
Unseen(q) ==
  {i \in Victims(q) \ q.arg.shown :
     IF i \in DOMAIN q.arg.list THEN server.imgs[i].v = q.arg.list[i].v
                                ELSE server.imgs[i].v <= q.arg.v}

GalleryRead ==
  /\ \E i \in Waiting("load") \cup Waiting("reload") :
       calls' = [calls EXCEPT ![i] = [calls[i] EXCEPT !.at = "ok", !.v = server.v,
                                                      !.data = ListOf(calls[i].owner)]]
  /\ UNCHANGED <<page, ui, mem, server, disk, past>>

DeleteServed ==
  /\ \E i \in Waiting("delete") :
       LET q == calls[i]
       IN  /\ server' = Touched(Restrict(server.imgs, DOMAIN server.imgs \ Victims(q)))
           /\ calls' = [calls EXCEPT ![i] = [q EXCEPT !.at = "ok"]]
           /\ past' = IF Unseen(q) = {} \/ past.hit = "clean" THEN past
                      ELSE [past EXCEPT !.hit = IF q.arg.of = q.owner THEN "clean" ELSE "mixed"]
  /\ UNCHANGED <<page, ui, mem, disk>>

TagServed ==
  /\ \E i \in Waiting("tag") \cup Waiting("untag") :
       LET q == calls[i]
           hit == IF q.op = "untag" THEN DOMAIN server.imgs ELSE q.arg.who \cap DOMAIN server.imgs
       IN  /\ server' = Touched([j \in DOMAIN server.imgs |->
                           IF j \in hit THEN [server.imgs[j] EXCEPT !.tag = q.arg.tag,
                                                                    !.v = server.v + 1]
                           ELSE server.imgs[j]])
           /\ calls' = [calls EXCEPT ![i] = [q EXCEPT !.at = "ok", !.v = server.v + 1]]
  /\ UNCHANGED <<page, ui, mem, disk, past>>

GalleryFails ==
  /\ Clicking(MaxGallery)
  /\ \E i \in DOMAIN calls : calls[i].at = "sent" /\ calls' = Failed(i)
  /\ past' = Clicked
  /\ UNCHANGED <<page, ui, mem, server, disk>>

(* Somebody creates an image, once; its path is never used again.          *)
ImageAppears ==
  /\ Clicking(MaxGallery)
  /\ ~past.came
  /\ \E o \in Owners :
       server' = Touched([i \in (DOMAIN server.imgs) \cup {4} |->
                    IF i = 4 THEN [Image(o, FALSE) EXCEPT !.v = server.v + 1] ELSE server.imgs[i]])
  /\ past' = [Clicked EXCEPT !.came = TRUE]
  /\ UNCHANGED <<page, ui, mem, calls, disk>>

-----------------------------------------------------------------------------
(* The answers.  What a page that was left is told may or may not still    *)
(* reach the cache: that is up to React.                                   *)
Cached(list, of, v, owner) ==
  mem' = [hit |-> TRUE, list |-> list, of |-> of, v |-> v, owner |-> owner]

GalleryShown(u, q) ==
  IF q.at = "failed" THEN u
  ELSE [u EXCEPT !.list = q.data, !.of = q.owner, !.v = q.v, !.sel = @ \cap DOMAIN q.data]

(* The read that follows a deletion ends it, and its dialog.               *)
ReadEnded(u, q) ==
  LET v == [u EXCEPT !.loading = @ /\ q.silent]
  IN  IF q.op = "load" THEN v
      ELSE [v EXCEPT !.deleting = FALSE, !.dialog = IF q.silent THEN [@ EXCEPT !.one = 0] ELSE @]

loadImages ==
  /\ \E i \in Loads :
       LET q == calls[i]
       IN  /\ q.at # "sent"
           /\ calls' = Dropped(i)
           /\ ui' = IF q.mine THEN ReadEnded(GalleryShown(ui, q), q) ELSE ui
           /\ \/ q.at = "ok" /\ Cached(q.data, q.owner, q.v, q.owner)
              \/ (q.at = "ok" => ~q.mine) /\ UNCHANGED mem
  /\ UNCHANGED <<page, server, disk, past>>

(* After a deletion: the one image leaves the list, the bulk dialog closes *)
(* and the selection is forgotten; then the list is read again, with the   *)
(* filter of the click.                                                    *)
Deleted(u, q) ==
  IF q.arg.mode = "one"
    THEN [u EXCEPT !.list = Restrict(@, DOMAIN @ \ q.arg.who), !.sel = @ \ q.arg.who]
  ELSE [u EXCEPT !.dialog = [@ EXCEPT !.mode = "none"], !.sel = {}, !.loading = TRUE]

Reread(q) == [q EXCEPT !.op = "reload", !.at = "sent", !.silent = q.arg.mode = "one"]

handleDelete ==
  /\ \E i \in Arrived("delete") :
       LET q == calls[i]
       IN  IF q.at = "ok"
             THEN /\ calls' = Append(Dropped(i), Reread(q))
                  /\ ui' = IF q.mine THEN Deleted(ui, q) ELSE ui
                  /\ IF q.mine /\ q.arg.mode = "one" THEN Cached(ui'.list, ui.of, ui.v, q.owner)
                                                     ELSE UNCHANGED mem
           ELSE /\ calls' = Dropped(i)
                /\ ui' = IF q.mine
                           THEN [ui EXCEPT !.deleting = FALSE,
                                           !.dialog = IF q.arg.mode = "one" THEN [@ EXCEPT !.one = 0]
                                                      ELSE @]
                         ELSE ui
                /\ UNCHANGED mem
  /\ UNCHANGED <<page, server, disk, past>>

(* The tags of the image are what was sent; a tag that is gone is also no  *)
(* filter any more.                                                        *)
Retagged(q) ==
  [j \in DOMAIN ui.list |->
     IF q.op = "untag" \/ j \in q.arg.who THEN [ui.list[j] EXCEPT !.tag = q.arg.tag, !.v = q.v]
     ELSE ui.list[j]]

handleSetTags ==
  /\ \E i \in Arrived("tag") \cup Arrived("untag") :
       LET q == calls[i]
       IN  /\ calls' = Dropped(i)
           /\ IF q.at = "ok" /\ q.mine
                THEN /\ ui' = [ui EXCEPT !.list = Retagged(q), !.tags = @ /\ q.op = "tag"]
                     /\ Cached(ui'.list, ui.of, ui.v, q.owner)
              ELSE UNCHANGED <<ui, mem>>
  /\ UNCHANGED <<page, server, disk, past>>

-----------------------------------------------------------------------------
(* The user.                                                               *)
NoOpenDialog == ui.dialog = NoGalleryDialog

(* Another filter: the list is read, the old one stays until then.         *)
OwnerFilter ==
  /\ NoOpenDialog
  /\ \E o \in Owners \cup {""} :
       /\ o # ui.owner
       /\ ui' = [ui EXCEPT !.owner = o, !.loading = TRUE]
       /\ calls' = Append(calls, [GalleryCall("load", {}, FALSE) EXCEPT !.owner = o])

clearFilters ==
  /\ NoOpenDialog /\ hasActiveBulkFilter
  /\ ui' = [ui EXCEPT !.owner = "", !.tags = FALSE, !.loading = @ \/ ui.owner # ""]
  /\ calls' = IF ui.owner = "" THEN calls
              ELSE Append(calls, [GalleryCall("load", {}, FALSE) EXCEPT !.owner = ""])

QueryClicked ==
  /\ NoOpenDialog /\ ~ui.loading
  /\ ui' = [ui EXCEPT !.loading = TRUE]
  /\ calls' = Append(calls, GalleryCall("load", {}, FALSE))

toggleFilterTag ==
  /\ NoOpenDialog
  /\ ui' = [ui EXCEPT !.tags = ~@]
  /\ UNCHANGED calls

togglePaths ==
  /\ NoOpenDialog
  /\ \E who \in {filteredItems} \cup {{j} : j \in filteredItems} :
       /\ who # {}
       /\ ui' = [ui EXCEPT !.sel = IF who \subseteq @ THEN @ \ who ELSE @ \cup who]
  /\ UNCHANGED calls

(* Adding or removing a tag sends all tags of the image as the list has    *)
(* them; a long press deletes the tag itself.                              *)
TagsEdited ==
  /\ NoOpenDialog
  /\ \/ \E j \in filteredItems :
          calls' = Append(calls, GalleryCall("tag", [who |-> {j}, tag |-> ~ui.list[j].tag], FALSE))
     \/ calls' = Append(calls, GalleryCall("untag", [who |-> {}, tag |-> FALSE], FALSE))
  /\ UNCHANGED ui

DialogOpened ==
  /\ NoOpenDialog
  /\ \/ \E j \in filteredItems : ui' = [ui EXCEPT !.dialog.one = j]
     \/ ui.sel # {} /\ ~ui.deleting /\ ui' = [ui EXCEPT !.dialog.mode = "selected"]
     \/ /\ filteredItems # {} /\ ~ui.deleting /\ hasActiveBulkFilter
        /\ ui' = [ui EXCEPT !.dialog.mode = "filtered"]
  /\ UNCHANGED calls

DialogClosed ==
  /\ ~NoOpenDialog
  /\ ui' = [ui EXCEPT !.dialog = NoGalleryDialog]
  /\ UNCHANGED calls

(* Mutant: the filter by tag is forgotten.                                 *)
DeletionByOwner(mode, who) ==
  [mode |-> mode, who |-> who, tags |-> FALSE,
   shown |-> IF mode = "filtered" THEN filteredItems ELSE who,
   list |-> ui.list, of |-> ui.of, v |-> ui.v]

(* What a deletion carries: the images, or the filters; and, for the       *)
(* property, what was shown.                                               *)
Deletion(mode, who) ==
  [mode |-> mode, who |-> who, tags |-> ui.tags,
   shown |-> IF mode = "filtered" THEN filteredItems ELSE who,
   list |-> ui.list, of |-> ui.of, v |-> ui.v]

confirmDelete ==
  /\ ~ui.deleting
  /\ \/ /\ ui.dialog.one # 0
        /\ calls' = Append(calls, GalleryCall("delete", Deletion("one", {ui.dialog.one}), TRUE))
     \/ /\ ui.dialog.mode # "none" /\ selectedCount > 0
        /\ calls' = Append(calls, GalleryCall("delete", Deletion(ui.dialog.mode, ui.sel), FALSE))
  /\ ui' = [ui EXCEPT !.deleting = TRUE]

GalleryClicked ==
  /\ Clicking(MaxGallery)
  /\ ui.open
  /\ \/ OwnerFilter \/ clearFilters \/ QueryClicked \/ toggleFilterTag \/ togglePaths
     \/ TagsEdited \/ DialogOpened \/ DialogClosed \/ confirmDelete
  /\ past' = Clicked
  /\ UNCHANGED <<page, mem, server, disk>>

GalleryNext ==
  \/ GalleryOpened \/ GalleryLeft \/ GalleryRead \/ DeleteServed \/ TagServed
  \/ GalleryFails \/ ImageAppears
  \/ loadImages \/ handleDelete \/ handleSetTags \/ GalleryClicked

-----------------------------------------------------------------------------
(* While the list on the page was read under the filter in force, no       *)
(* deletion reaches an image that the page did not show as one of those to *)
(* be deleted, unless the image came after the list was read, or has       *)
(* changed since it was what the page shows: a late answer to an earlier   *)
(* edit of its tags also puts it back (confirmDelete with all_matching,    *)
(* handleDelete, handleSetTags).                                           *)
DeletesWhatItLists == page = "gallery" => past.hit # "clean"

=============================================================================
