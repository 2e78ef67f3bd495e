--------------------------- MODULE MCAccountPool ---------------------------
(* The configurations TLC checks AccountPool in; a run chooses among some  *)
(* of them in its initial states.                                          *)
EXTENDS AccountPool

CONSTANTS api, worker, j1, j2, j3, k1, a1, a2

Spread(away) == [x \in Actors |-> IF x \in away THEN api ELSE worker]
Send(n, m) == [j \in Jobs |-> IF j = j1 THEN n ELSE m]

(* One process, two web accounts or a web and a codex account, no leases.  *)
Base ==
  [accounts |-> {a1, a2}, codex |-> {}, actors |-> {j1, j2},
   procOf |-> Spread({}), routes |-> <<"web">>, files |-> Send(0, 0),
   usePG |-> FALSE, removes |-> {"invalid"}, failures |-> {},
   conc |-> 2, attempts |-> 2, strikes |-> 2, images |-> 2, uploads |-> 0,
   tokens |-> 0, refreshes |-> 0, faults |-> 0, lapses |-> 0]

(* Two processes and one account, shared through its leases.               *)
Shared == [Base EXCEPT !.accounts = {a1}, !.procOf = Spread({j2, k1}),
             !.usePG = TRUE, !.faults = 1]

(* Requests go on from the web to the codex account.                       *)
Routes == [Base EXCEPT !.codex = {a2}, !.routes = <<"web", "codex">>,
             !.files = Send(2, 1), !.removes = {"invalid", "empty"},
             !.failures = {"upload_limited", "rate_limited"},
             !.images = 1, !.uploads = 2, !.tokens = 2]

(* No PostgreSQL, one request at a time on an account.                     *)
Alone == [Base EXCEPT !.removes = {"limited"}, !.conc = 1,
            !.failures = {"rate_limited", "temporary_timeout"}]

(* Three requests want two slots of one account,                           *)
Slots == [Shared EXCEPT !.actors = Jobs, !.failures = {"upstream_403"},
            !.attempts = 1, !.strikes = 1, !.images = 3, !.faults = 0]

(* and its upload allowance.                                               *)
Uploads == [Shared EXCEPT !.actors = Jobs, !.files = Send(2, 1),
              !.attempts = 1, !.uploads = 2, !.lapses = 1]

(* Each attempt rotates the account's token.                               *)
Rotations == [Shared EXCEPT !.codex = {a1}, !.routes = <<"codex">>,
                !.images = 1, !.failures = {"invalid_token", "upstream_403"},
                !.tokens = 3]

(* A refresh and a clean-up beside a request.                              *)
Refreshes == [Base EXCEPT !.codex = {a2}, !.actors = {j1, k1},
                !.procOf = Spread({k1}), !.routes = <<"web", "codex">>,
                !.usePG = TRUE, !.removes = {"invalid", "refresh"},
                !.failures = {"rate_limited", "invalid_token", "other"},
                !.uploads = 1, !.tokens = 1, !.refreshes = 1]

Settings == {Routes, Alone, Slots, Uploads, Rotations, Refreshes}

(* Two requests of two processes and the watcher, on a codex account.      *)
Watched == {[Shared EXCEPT !.codex = {a1}, !.actors = {j1, j2, k1},
               !.routes = <<"codex">>, !.removes = {"limited"},
               !.failures = {"rate_limited", "other"}, !.conc = 1,
               !.images = 1, !.tokens = 1, !.faults = 0]}
=============================================================================
