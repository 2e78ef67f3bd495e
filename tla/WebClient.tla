----------------------------- MODULE WebClient -----------------------------
(***************************************************************************)
(* What the pages of the web client (src/web/src) have in common.          *)
(*                                                                         *)
(* A page is a React component: its state lives until the page is left,    *)
(* its handlers run to their first await without interruption, and what    *)
(* follows an await is a step of its own, taken on whatever the state has  *)
(* become in the meantime.  Module-level caches survive a page change;     *)
(* browser storage survives a reload; the server is shared with others.    *)
(*                                                                         *)
(* Every page module uses the same variables, with records of its own:     *)
(*   page    which page's model a behaviour is about (never changes)       *)
(*   ui      the state and refs of the component                           *)
(*   mem     the module-level variables                                    *)
(*   calls   the requests and file reads on the way                        *)
(*   server  what the server holds                                         *)
(*   disk    localStorage, sessionStorage and IndexedDB                    *)
(*   past    what the properties need to remember, and the spent bounds    *)
(***************************************************************************)
EXTENDS Integers, FiniteSets, SequencesExt

VARIABLES page, ui, mem, calls, server, disk, past

webVars == <<page, ui, mem, calls, server, disk, past>>

(* A request: what it asks for, its argument, and how far it is: "sent",   *)
(* or answered with "ok" or "failed".  A failure is any rejection of the   *)
(* promise: the network, a timeout, or an error status.  Requests are kept *)
(* in the order they were made, and answered in any order.                 *)
Request(op, arg) == [op |-> op, arg |-> arg, at |-> "sent", data |-> "none"]

Sent(op, arg) == Append(calls, Request(op, arg))

Answered(i, data) == [calls EXCEPT ![i] = [calls[i] EXCEPT !.at = "ok", !.data = data]]

Failed(i) == [calls EXCEPT ![i].at = "failed"]

Dropped(i) == RemoveAt(calls, i)

(* A request of which there is never more than one is cancelled.           *)
Cancelled(cs, op) ==
  LET sent == {i \in DOMAIN cs : cs[i].op = op}
  IN  IF sent = {} THEN cs ELSE RemoveAt(cs, CHOOSE i \in sent : TRUE)

Pending(op) == {i \in DOMAIN calls : calls[i].op = op}

Waiting(op) == {i \in Pending(op) : calls[i].at = "sent"}

Arrived(op) == {i \in Pending(op) : calls[i].at # "sent"}

(* The bound of a page's clicks, page changes, failures and other events   *)
(* that could go on for ever.                                              *)
Clicking(max) == past.clicks < max

Clicked == [past EXCEPT !.clicks = @ + 1]

=============================================================================
