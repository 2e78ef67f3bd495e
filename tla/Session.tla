------------------------------ MODULE Session ------------------------------
(***************************************************************************)
(* Who is logged in: the stored session (store/auth.ts), the module-level  *)
(* cache with its validation (lib/auth-session.ts), the guards of the      *)
(* pages and of the login page (lib/use-auth-guard.ts, app/page.tsx), the  *)
(* navigation bar (components/top-nav.tsx), the login form and the 401     *)
(* interceptor of every request (lib/request.ts).                          *)
(*                                                                         *)
(*   disk    the stored session: a key or none (key and session are        *)
(*           written and removed together)                                 *)
(*   mem     cachedSession, hasValidatedOnce and whether the validation    *)
(*           is younger than 30 seconds                                    *)
(*   calls   validations, logins and page requests; a validation knows     *)
(*           which mounted component awaits it and whether it is           *)
(*           pendingValidation                                             *)
(*   server  the keys the server accepts                                   *)
(***************************************************************************)
EXTENDS WebClient

CONSTANTS MaxVisits    \* page changes, logins, logouts, revocations

None == "none"
Keys == {"admin", "user"}      \* the key of an administrator and of a user
Guarded == {"image", "keys"}   \* "keys" is open to administrators only

Forbidden(path, s) == path = "keys" /\ s = "user"

Visiting == past.moves < MaxVisits

Visited == [past EXCEPT !.moves = @ + 1]

-----------------------------------------------------------------------------
(* A handler's effects on state, cache and requests, composed as one.      *)

App == [ui |-> ui, mem |-> mem, calls |-> calls, disk |-> disk]

Applied(a) == ui' = a.ui /\ mem' = a.mem /\ calls' = a.calls /\ disk' = a.disk

primeAuthSessionCache(a, s) ==
  [a EXCEPT !.mem = [cached |-> s, once |-> TRUE, fresh |-> TRUE]]

Orphaned(cs) == [i \in DOMAIN cs |-> [cs[i] EXCEPT !.pending = FALSE]]

(* Mutant: the cache outlives the stored session.                          *)
clearNothing(a) == a

clearAuthSessionCache(a) ==
  [a EXCEPT !.mem = [cached |-> None, once |-> FALSE, fresh |-> FALSE],
            !.calls = Orphaned(@)]

(* What an awaited validation does to the page and to the navigation bar.  *)
Settled(a, who, s) ==
  LET u == a.ui
      page1 == IF u.path = "login"
                 THEN IF s # None THEN [u EXCEPT !.goto = "image"]
                                  ELSE [u EXCEPT !.checking = FALSE]
               ELSE IF u.path = "home"
                 THEN [u EXCEPT !.goto = IF s # None THEN "image" ELSE "login"]
               ELSE [u EXCEPT !.session = s, !.checking = FALSE,
                              !.goto = IF s = None THEN "login"
                                       ELSE IF Forbidden(u.path, s) THEN "image" ELSE @]
  IN  [a EXCEPT !.ui = IF who = "page" THEN page1 ELSE [u EXCEPT !.nav = s]]

SessionCall(op, key, who) ==
  [op |-> op, arg |-> key, at |-> "sent", data |-> who, pending |-> op = "validate"]

(* getValidatedAuthSession: a young answer from the cache, the validation  *)
(* on the way, or a new one; nothing stored needs no request.              *)
getValidatedAuthSession(a, who) ==
  LET running == {i \in DOMAIN a.calls : a.calls[i].pending}
  IN  IF a.mem.once /\ a.mem.fresh THEN Settled(a, who, a.mem.cached)
      ELSE IF running # {}
        THEN [a EXCEPT !.calls = [i \in DOMAIN a.calls |-> IF i \in running
                THEN [a.calls[i] EXCEPT !.data = @ \cup {who}] ELSE a.calls[i]]]
      ELSE IF a.disk = None
        THEN Settled(primeAuthSessionCache(a, None), who, None)
      ELSE [a EXCEPT !.calls = Append(@, SessionCall("validate", a.disk, {who}))]

(* A page is mounted: what the cache says is shown at once, and the        *)
(* session is validated again.  Who awaited on the page before is no       *)
(* longer active.                                                          *)
SessionMounted(a, path) ==
  LET cached == IF a.mem.once THEN a.mem.cached ELSE None
      goto == IF ~a.mem.once THEN None
              ELSE IF path = "login" THEN (IF cached # None THEN "image" ELSE None)
              ELSE IF path = "home" THEN None
              ELSE IF cached = None THEN "login"
              ELSE IF Forbidden(path, cached) THEN "image" ELSE None
      shown == [a EXCEPT !.ui = [path |-> path, session |-> cached, nav |-> a.ui.nav,
                                 checking |-> ~a.mem.once, goto |-> goto],
                         !.calls = [i \in DOMAIN a.calls |-> [a.calls[i] EXCEPT !.data = {}]]]
      page1 == getValidatedAuthSession(shown, "page")
  IN  IF path = "login" THEN [page1 EXCEPT !.ui.nav = None]
                        ELSE getValidatedAuthSession(page1, "nav")

(* A full load of the page: nothing in memory survives.                    *)
PageLoaded(a, path) ==
  SessionMounted([a EXCEPT !.mem = [cached |-> None, once |-> FALSE, fresh |-> FALSE],
                    !.calls = <<>>,
                    !.ui.nav = None],
          path)

-----------------------------------------------------------------------------
SessionInit ==
  /\ page = "session"
  /\ disk \in Keys \cup {None}
  /\ \E path \in {"home", "image", "keys"} :
       LET blank == [ui |-> [path |-> path, session |-> None, nav |-> None,
                             checking |-> TRUE, goto |-> None],
                     mem |-> [cached |-> None, once |-> FALSE, fresh |-> FALSE],
                     calls |-> <<>>, disk |-> disk]
           first == PageLoaded(blank, path)
       IN  ui = first.ui /\ mem = first.mem /\ calls = first.calls
  /\ server = Keys
  /\ past = [moves |-> 0, out |-> FALSE, late |-> FALSE]

Validating == {i \in DOMAIN calls : calls[i].op = "validate"}

Unsettled == Validating # {} \/ Pending("login") # {}

(* The user follows a link, reloads, or types an address.                  *)
LinkFollowed ==
  /\ Visiting /\ ui.goto = None
  /\ \E path \in Guarded : path # ui.path /\ ui.path # "login" /\ Applied(SessionMounted(App, path))
  /\ past' = Visited
  /\ UNCHANGED <<page, server>>

PageReloaded ==
  /\ Visiting
  /\ \E path \in Guarded \cup {"home", "login"} : Applied(PageLoaded(App, path))
  /\ past' = Visited
  /\ UNCHANGED <<page, server>>

(* router.replace takes effect.                                            *)
RouteReplaced ==
  /\ ui.goto # None
  /\ Applied(SessionMounted(App, ui.goto))
  /\ UNCHANGED <<page, server, past>>

ValidationAges ==
  /\ mem.fresh
  /\ mem' = [mem EXCEPT !.fresh = FALSE]
  /\ UNCHANGED <<page, ui, calls, server, disk, past>>

KeyRevoked ==
  /\ Visiting
  /\ \E k \in server : server' = server \ {k}
  /\ past' = Visited
  /\ UNCHANGED <<page, ui, mem, calls, disk>>

(* The server answers a validation or a login; any failure is a refusal.   *)
LoginServed ==
  /\ \E i \in Waiting("validate") \cup Waiting("login") :
       calls' = [calls EXCEPT ![i].at = IF calls[i].arg \in server THEN "ok" ELSE "failed"]
  /\ UNCHANGED <<page, ui, mem, server, disk, past>>

LoginFails ==
  /\ Visiting
  /\ \E i \in Waiting("validate") \cup Waiting("login") : calls' = Failed(i)
  /\ past' = Visited
  /\ UNCHANGED <<page, ui, mem, server, disk>>

(* validateAuthSession and handleLogin after their request: the session is *)
(* stored first (or removed), the cache is primed when that is done.       *)
SessionStored ==
  /\ \E i \in DOMAIN calls :
       /\ \/ calls[i].op = "validate" /\ calls[i].at \in {"ok", "failed"}
          \/ calls[i].op = "login" /\ calls[i].at = "ok"
       /\ disk' = IF calls[i].at = "ok" THEN calls[i].arg ELSE None
       /\ calls' = [calls EXCEPT ![i] = [calls[i] EXCEPT !.at = "stored", !.arg = disk']]
       /\ past' = [past EXCEPT !.out = @ /\ calls[i].op # "login",
                                !.late = @ \/ calls[i].op = "login"]
  /\ UNCHANGED <<page, ui, mem, server>>

ValidationEnds ==
  /\ \E i \in Validating :
       /\ calls[i].at = "stored"
       /\ LET q == calls[i]
              a == primeAuthSessionCache([App EXCEPT !.calls = Orphaned(RemoveAt(@, i))], q.arg)
              b == IF "page" \in q.data THEN Settled(a, "page", q.arg) ELSE a
          IN  Applied(IF "nav" \in q.data THEN Settled(b, "nav", q.arg) ELSE b)
  /\ UNCHANGED <<page, server, past>>

(* The login form, shown when nothing is being checked; one at a time.     *)
LoginSubmitted ==
  /\ Visiting
  /\ ui.path = "login" /\ ~ui.checking /\ Pending("login") = {}
  /\ \E k \in Keys : calls' = Append(calls, SessionCall("login", k, {}))
  /\ past' = Visited
  /\ UNCHANGED <<page, ui, mem, server, disk>>

LoginEnds ==
  /\ \E i \in Pending("login") :
       /\ calls[i].at = "stored"
       /\ Applied([primeAuthSessionCache([App EXCEPT !.calls = RemoveAt(@, i)], calls[i].arg)
                    EXCEPT !.ui.goto = "image"])
  /\ UNCHANGED <<page, server, past>>

LoginRefused ==
  /\ \E i \in Pending("login") : calls[i].at = "failed" /\ calls' = RemoveAt(calls, i)
  /\ UNCHANGED <<page, ui, mem, server, disk, past>>

(* Logging out: the stored session goes first, then the cache.             *)
LogoutStarted ==
  /\ Visiting
  /\ ui.nav # None /\ Pending("logout") = {}
  /\ disk' = None
  /\ calls' = Append(calls, SessionCall("logout", None, {}))
  /\ past' = [Visited EXCEPT !.out = FALSE, !.late = Unsettled]
  /\ UNCHANGED <<page, ui, mem, server>>

LogoutEnds ==
  /\ \E i \in Pending("logout") :
       Applied([clearAuthSessionCache([App EXCEPT !.calls = RemoveAt(@, i)])
                 EXCEPT !.ui.goto = "login"])
  /\ past' = [past EXCEPT !.out = TRUE, !.late = @ \/ Unsettled]
  /\ UNCHANGED <<page, server>>

(* A request of a page, sent with the stored key.  A 401 anywhere but on   *)
(* the login page ends the session and loads the login page.               *)
Unauthorized ==
  /\ ui.path \in Guarded /\ ui.session # None
  /\ disk \notin server
  /\ Applied(PageLoaded([App EXCEPT !.disk = None], "login"))
  /\ past' = [past EXCEPT !.out = TRUE, !.late = FALSE]
  /\ UNCHANGED <<page, server>>

SessionNext ==
  \/ LinkFollowed \/ PageReloaded \/ RouteReplaced \/ ValidationAges \/ KeyRevoked
  \/ LoginServed \/ LoginFails \/ SessionStored \/ ValidationEnds
  \/ LoginSubmitted \/ LoginEnds \/ LoginRefused \/ LogoutStarted \/ LogoutEnds
  \/ Unauthorized

-----------------------------------------------------------------------------
(* After a logout, or after the server refused the key, no session is      *)
(* stored or cached until somebody logs in, unless a validation or a login *)
(* was already on its way when the user logged out: its answer writes the  *)
(* session back (handleLogout, clearAuthSessionCache, the interceptor).    *)
NoGhostLogin ==
  /\ page = "session"
  /\ past.out /\ ~past.late
  /\ Pending("login") = {}
  => disk = None /\ mem.cached = None

=============================================================================
