---------------------------- MODULE AccountPool ----------------------------
(***************************************************************************)
(* The upstream accounts and the requests that share them: an image        *)
(* request tries one account after another (image_pool.go), each picked    *)
(* under its process's pool counters (account_pool.go) and leased in       *)
(* PostgreSQL against the other processes (pg_tasks.go); what upstream     *)
(* answers changes the account's record in accounts.json                   *)
(* (account_state.go); clean-up removes or marks records                   *)
(* (account_cleanup.go), and refreshes write back records they read before *)
(* they asked upstream (accounts.go, oauth.go).  Every update of           *)
(* accounts.json is atomic here; JSONStore models the file.                *)
(***************************************************************************)
EXTENDS Integers, Sequences, FiniteSets

CONSTANTS
  Accounts,         \* the accounts
  Procs,            \* processes: a worker, the api
  Jobs, Keepers,    \* image requests; watchers and admin refreshes
  MaxTokens,        \* bounds the rotations of an account's token
  Configs           \* configurations, loads and bounds to consider

Switches == {"invalid", "limited", "empty", "uploads", "refresh"}
Categories == {"invalid_token", "rate_limited", "upload_limited",
               "upstream_403", "temporary_timeout", "other"}

Actors == Jobs \cup Keepers

(* A configuration: what the settings and the environment say, what is     *)
(* asked of the service, and how much may go wrong.                        *)
ASSUME PoolAssumption ==
  /\ IsFiniteSet(Jobs) /\ Jobs \cap Keepers = {} /\ MaxTokens \in Nat
  /\ \A c \in Configs :
       /\ c.accounts \subseteq Accounts
       /\ c.codex \subseteq c.accounts \* source type codex, not web
       /\ c.actors \subseteq Actors    \* requests made, keepers running
       /\ c.procOf \in [Actors -> Procs]
       /\ c.routes \in Seq({"web", "codex"}) \ {<<>>} \* imageRoutePlan
       /\ c.files \in [Jobs -> Nat]    \* reference images of a request
       /\ c.usePG \in BOOLEAN          \* a PostgreSQL to lease accounts in
       /\ c.removes \subseteq Switches \* the auto_remove_*, auto_delete_*
       /\ c.failures \subseteq Categories       \* of upstream, that occur
       /\ c.conc \in Nat \ {0}      \* image_account_concurrency
       /\ c.attempts \in Nat \ {0}  \* image_account_fallback_attempts
       /\ c.strikes \in Nat \ {0}   \* delete_403_, delete_timeout_consecutive
       /\ c.images \in Nat \ {0}    \* allowances of a fresh account
       /\ c.uploads \in Nat
       /\ c.tokens \in 0 .. MaxTokens \* bounds: rotations of an account,
       /\ c.refreshes \in Nat        \* refreshes, failing writes and
       /\ c.faults \in Nat           \* database calls, leases that expire
       /\ c.lapses \in Nat           \* under a running generation

Unknown == -1                      \* UploadQuotaUnknown
Tokens == Accounts \X (0 .. MaxTokens)
None == <<>>

VARIABLES
  config,    \* the configuration, read when the processes start
  file,      \* accounts.json
  minted,    \* per account: tokens upstream has given out
  inflight, reserved,   \* per process and token: the pool's counters
  leases,    \* account_leases_v1, rows that have not expired
  rotator,   \* per account: the request with its OAuth refresh lease
  job,       \* per request: its place in the attempt loop
  keeper,    \* per keeper: its place in a refresh
  sweep,     \* per actor: its place in a clean-up
  refreshes, faults, lapses,    \* bounded
  (* History. *)
  overtaken  \* web accounts whose upload allowance was not what a
             \* reservation had read, or that was set from upstream

Codex == config.codex
ProcOf == config.procOf
UsePG == config.usePG
MaxConc == config.conc
Strikes == config.strikes
On(switch) == switch \in config.removes
Fault == faults < config.faults /\ faults' = faults + 1

(* A record of accounts.json.  "limited" has no reset time, "cooling" has  *)
(* one in the future and "cooled" one in the past; the code keeps all      *)
(* three as one status.                                                    *)
Statuses == {"normal", "limited", "cooling", "cooled", "invalid"}
Records == [token : 0 .. MaxTokens, status : Statuses,
            quota : 0 .. config.images,
            uploads : {Unknown} \cup (0 .. config.uploads), pending : BOOLEAN,
            blocks : 0 .. Strikes, timeouts : 0 .. Strikes,
            unrefreshed : BOOLEAN]
Gone == [token |-> -1]
Fresh == [token |-> 0, status |-> "normal", quota |-> config.images,
          uploads |-> config.uploads, pending |-> FALSE, blocks |-> 0,
          timeouts |-> 0, unrefreshed |-> FALSE]
Nothing == [a \in Accounts |-> Gone]

vars == <<config, file, minted, inflight, reserved, leases, rotator, job,
          keeper, sweep, refreshes, faults, lapses, overtaken>>
pool == <<inflight, reserved>>
bounds == <<refreshes, faults, lapses>>

Places == {"start", "sweeping", "ready", "picking", "setup", "rotating",
           "waiting", "aliasing", "leasing", "generating", "marking",
           "releasing", "unleasing", "returned", "images", "canceled",
           "failed"}
Leases == [job : Jobs, attempt : 1 .. config.attempts, token : Tokens,
           weight : Nat]
Views == [Accounts -> Records \cup {Gone}]
JobRecords == [place : Places, next : Places, routes : Seq({"web", "codex"}),
               used : 0 .. config.attempts, tried : SUBSET Tokens,
               view : Views, picked : Tokens \cup {None},
               token : Tokens \cup {None}, sent : Nat,
               err : {"none", "soft", "hard"}]

TypeOK ==
  /\ config \in Configs /\ file \in Views
  /\ minted \in [Accounts -> 0 .. MaxTokens]
  /\ inflight \in [Procs -> [Tokens -> Nat]]
  /\ reserved \in [Procs -> [Tokens -> Nat]]
  /\ leases \subseteq Leases
  /\ rotator \in [Accounts -> Jobs \cup {None}]
  /\ job \in [Jobs -> JobRecords]
  /\ keeper \in [Keepers -> [place : {"idle", "rotating", "asking",
                                      "sweeping"}, view : Views]]
  /\ sweep \in [Actors -> [todo : SUBSET Tokens, token : Tokens \cup {None},
                           active : BOOLEAN]]
  /\ refreshes \in 0 .. config.refreshes /\ faults \in 0 .. config.faults
  /\ lapses \in 0 .. config.lapses /\ overtaken \subseteq Accounts

Swept == [todo |-> {}, token |-> None, active |-> FALSE]

Init ==
  /\ config \in Configs
  /\ file = [a \in Accounts |-> IF a \in config.accounts THEN Fresh ELSE Gone]
  /\ minted = [a \in Accounts |-> 0]
  /\ inflight = [p \in Procs |-> [t \in Tokens |-> 0]]
  /\ reserved = inflight
  /\ leases = {} /\ rotator = [a \in Accounts |-> None]
  /\ job = [j \in Jobs |->
              [place |-> "start", routes |-> config.routes, used |-> 0,
               tried |-> {}, view |-> Nothing, picked |-> None,
               token |-> None, sent |-> 0, err |-> "none",
               next |-> "ready"]]
  /\ keeper = [k \in Keepers |-> [place |-> "idle", view |-> Nothing]]
  /\ sweep = [x \in Actors |-> Swept]
  /\ refreshes = 0 /\ faults = 0 /\ lapses = 0 /\ overtaken = {}

-----------------------------------------------------------------------------
(* Records.                                                                *)

TokenOf(a, r) == <<a, r.token>>
Listed(t) == file[t[1]].token = t[2]

Limited(r) == r.status \in {"limited", "cooling", "cooled"}

(* Mutant: clean-up leaves marked accounts to the requests.                *)
RemovableOnce(r) ==
  \/ r.status = "invalid" /\ On("invalid")
  \/ Limited(r) /\ On("limited")

Removable(r) == \* imageAccountRuntimeRemovalReason
  \/ r.pending
  \/ r.status = "invalid" /\ On("invalid")
  \/ Limited(r) /\ On("limited")
  \/ r.quota = 0 /\ On("empty")
  \/ r.uploads = 0 /\ On("uploads")
  \/ r.unrefreshed /\ On("refresh")
  \/ r.blocks >= Strikes \/ r.timeouts >= Strikes

Invalid(r) == [r EXCEPT !.status = "invalid", !.quota = 0]

(* removeOrMarkImageAccount, for an account that is in use.                *)
Marked(r) == [Invalid(r) EXCEPT !.pending = TRUE]

(* Mutant: the quota is taken without looking.                             *)
SucceededBlindly(r) == [r EXCEPT !.quota = @ - 1]

(* markAccountSuccess, and whether the account is then removed.            *)
Succeeded(r) ==
  LET s == [r EXCEPT !.blocks = 0, !.timeouts = 0] IN
    IF r.quota = 1 THEN [s EXCEPT !.quota = 0, !.status = "limited"]
    ELSE IF r.quota > 1
         THEN [s EXCEPT !.quota = @ - 1,
                        !.status = IF Limited(r) THEN "normal" ELSE @]
         ELSE s
UsedUp(r) == r.quota = 1 /\ (r.uploads = Unknown \/ On("empty"))

(* markAccountFailure: strikes, then what the category does.               *)
Struck(r, c) ==
  LET up(n) == IF n < Strikes THEN n + 1 ELSE n IN
    CASE c = "upstream_403" -> [r EXCEPT !.blocks = up(@), !.timeouts = 0]
      [] c = "temporary_timeout" ->
           [r EXCEPT !.timeouts = up(@), !.blocks = 0]
      [] c = "other" -> r
      [] OTHER -> [r EXCEPT !.blocks = 0, !.timeouts = 0]

Fatal(r, c) == \* the failure makes the record invalid
  \/ c = "invalid_token"
  \/ c = "upload_limited" /\ On("uploads")
  \/ c = "upstream_403" /\ r.blocks >= Strikes
  \/ c = "temporary_timeout" /\ r.timeouts >= Strikes

Failed(r, c) ==
  LET s == Struck(r, c)
      u == IF c = "upload_limited" THEN [s EXCEPT !.uploads = 0] ELSE s
  IN IF Fatal(s, c) THEN Invalid(u)
     ELSE IF c = "rate_limited" THEN [u EXCEPT !.status = "cooling"] ELSE u

Discarded(r, c) == \* markAccountFailure's removeReason
  \/ c = "invalid_token" /\ On("invalid")
  \/ c = "rate_limited" /\ On("limited")
  \/ c # "invalid_token" /\ Fatal(Struck(r, c), c)

(* shouldRetryImageAccount.                                                *)
Retryable(c) == c # "other"

-----------------------------------------------------------------------------
(* The pool of a process.                                                  *)

Weight(j) == IF Head(job[j].routes) = "codex" THEN 0 ELSE config.files[j]

(* Mutants: the pool overlooks the slots in use, the uploads reserved.     *)
UsableAnySlot(j, a) ==
  /\ job[j].view[a] # Gone /\ ~job[j].view[a].pending
  /\ job[j].view[a].quota > 0 /\ job[j].view[a].status = "normal"
  /\ (a \in Codex) = (Head(job[j].routes) = "codex")
UsableUnreserved(j, a) ==
  /\ UsableAnySlot(j, a) /\ job[j].view[a].uploads >= Weight(j)
  /\ inflight[ProcOf[j]][TokenOf(a, job[j].view[a])] < MaxConc

Usable(j, a) == \* pickTokenExcludingForUploads, for one record read before
  LET r == job[j].view[a]
      t == TokenOf(a, r)
      p == ProcOf[j]
  IN /\ r # Gone /\ t \notin job[j].tried
     /\ ~r.pending /\ r.quota > 0
     /\ r.status \notin {"invalid", "limited", "cooling"}
     /\ (a \in Codex) = (Head(job[j].routes) = "codex")
     /\ Weight(j) > 0 => r.uploads - reserved[p][t] >= Weight(j)
     /\ inflight[p][t] < MaxConc

Minus(n, by) == IF n <= by THEN 0 ELSE n - by

(* releaseSelectedToken: the picked token, its alias, its uploads.         *)
Selected(j) == {job[j].picked, job[j].token} \ {None}
(* Mutants: the upload reservation, the alias is forgotten.                *)
ReleaseToken(j) ==
  /\ inflight' = [inflight EXCEPT ![ProcOf[j]] =
       [t \in Tokens |-> Minus(@[t], IF t \in Selected(j) THEN 1 ELSE 0)]]
  /\ UNCHANGED reserved
ReleasePicked(j) ==
  /\ inflight' = [inflight EXCEPT ![ProcOf[j]][job[j].picked] = Minus(@, 1)]
  /\ reserved' = [reserved EXCEPT ![ProcOf[j]][job[j].picked] =
                    Minus(@, Weight(j))]
Release(j) ==
  /\ inflight' = [inflight EXCEPT ![ProcOf[j]] =
       [t \in Tokens |-> Minus(@[t], IF t \in Selected(j) THEN 1 ELSE 0)]]
  /\ reserved' = [reserved EXCEPT ![ProcOf[j]][job[j].picked] =
                    Minus(@, Weight(j))]

LeaseOf(j) == [job |-> j, attempt |-> job[j].used, token |-> job[j].token,
               weight |-> Weight(j)]
Working == {"generating", "marking", "releasing", "unleasing"}
Held(l) == /\ l.attempt = job[l.job].used
           /\ job[l.job].place \in Working

(* imageAccountHasActiveWork, asked by a process.                          *)
Active(p, t) == \/ inflight[p][t] > 0
                \/ UsePG /\ \E l \in leases : l.token = t

-----------------------------------------------------------------------------
(* Clean-up.                                                               *)

TokensWhere(P(_)) ==
  {TokenOf(a, file[a]) : a \in {b \in Accounts : file[b] # Gone /\ P(file[b])}}
IsPending(r) == r.pending

BeginSweep(x, ts) == sweep' = [sweep EXCEPT ![x].todo = ts]

Sweeping(x) == \/ x \in Jobs /\ job[x].place \in {"sweeping", "marking"}
               \/ x \in Keepers /\ keeper[x].place = "sweeping"

(* removeOrMarkImageAccount: first it asks whether the account is in use,  *)
(* then it updates accounts.json.                                          *)
CheckActive(x) ==
  /\ Sweeping(x) /\ sweep[x].token = None
  /\ \E t \in sweep[x].todo :
       sweep' = [sweep EXCEPT ![x] =
                   [todo |-> @.todo \ {t}, token |-> t,
                    active |-> Active(ProcOf[x], t)]]
  /\ UNCHANGED <<config, file, minted, pool, leases, rotator, job, keeper,
                 bounds, overtaken>>

RemoveOrMark(x) ==
  LET t == sweep[x].token IN
  /\ t # None
  /\ sweep' = [sweep EXCEPT ![x] = [sweep[x] EXCEPT !.token = None,
                                                    !.active = FALSE]]
  /\ \/ /\ file' = IF ~Listed(t) THEN file
                   ELSE [file EXCEPT ![t[1]] =
                           IF sweep[x].active THEN Marked(@) ELSE Gone]
        /\ UNCHANGED faults
     \/ Fault /\ UNCHANGED file
  /\ UNCHANGED <<config, minted, pool, leases, rotator, job, keeper,
                 refreshes, lapses, overtaken>>

EndSweep(x) ==
  /\ Sweeping(x) /\ sweep[x] = Swept
  /\ IF x \in Jobs
     THEN /\ job' = [job EXCEPT ![x].place =
                       IF @ = "marking" THEN "releasing" ELSE job[x].next]
          /\ UNCHANGED keeper
     ELSE keeper' = [keeper EXCEPT ![x].place = "idle"] /\ UNCHANGED job
  /\ UNCHANGED <<config, file, minted, pool, leases, rotator, sweep, bounds,
                 overtaken>>

-----------------------------------------------------------------------------
(* generateImageWithPoolScopedRoutes: one request.                         *)

At(j, place) == job[j].place = place
Becomes(j, r) == job' = [job EXCEPT ![j] = r]

(* A route begins with a clean-up.                                         *)
Start(j) ==
  /\ At(j, "start") /\ j \in config.actors
  /\ BeginSweep(j, TokensWhere(Removable))
  /\ Becomes(j, [job[j] EXCEPT !.place = "sweeping", !.next = "ready"])
  /\ UNCHANGED <<config, file, minted, pool, leases, rotator, keeper,
                 bounds, overtaken>>

Return(j) ==
  Becomes(j, [job[j] EXCEPT !.place = "returned", !.view = Nothing,
                            !.err = IF @ = "none" THEN "soft" ELSE @])

(* The head of the loop: attempts are left, the request is not canceled.   *)
LoadAccounts(j) ==
  /\ At(j, "ready")
  /\ \/ job[j].used >= config.attempts /\ Return(j)
     \/ /\ job[j].used < config.attempts
        /\ Becomes(j, [job[j] EXCEPT !.place = "picking", !.view = file])
  /\ UNCHANGED <<config, file, minted, pool, leases, rotator, keeper, sweep,
                 bounds, overtaken>>

(* pickAccountExcludingForUploads under the pool's mutex, and the scope's  *)
(* reserve.  The code takes the best of the usable accounts.               *)
Pick(j) ==
  /\ At(j, "picking")
  /\ \/ \E a \in Accounts :
          LET r == job[j].view[a]
              t == TokenOf(a, r)
          IN
          /\ Usable(j, a)
          /\ inflight' = [inflight EXCEPT ![ProcOf[j]][t] = @ + 1]
          /\ reserved' = [reserved EXCEPT ![ProcOf[j]][t] = @ + Weight(j)]
          /\ Becomes(j, [job[j] EXCEPT !.place = "setup", !.picked = t,
                           !.view = [Nothing EXCEPT ![a] = r],
                           !.used = @ + 1, !.tried = @ \cup {t}, !.sent = 0])
          /\ overtaken' = IF Weight(j) > 0 /\ ~UsePG /\ r # file[a]
                          THEN overtaken \cup {a} ELSE overtaken
     \/ /\ \A a \in Accounts : ~Usable(j, a)
        /\ Return(j) /\ UNCHANGED <<pool, overtaken>>
  /\ UNCHANGED <<config, file, minted, leases, rotator, keeper, sweep,
                 bounds>>

Account(j) == job[j].picked[1]
Unrotated(j) == [rotator EXCEPT ![Account(j)] = IF @ = j THEN None ELSE @]

(* upstreamClientForImageAccount: codex accounts get a new token first,    *)
(* one request at a time; the others wait for its result.                  *)
SetUp(j) ==
  LET a == Account(j)
      codex == Head(job[j].routes) = "codex"
      busy == UsePG /\ rotator[a] # None
  IN
  /\ At(j, "setup")
  /\ codex /\ ~busy => Listed(job[j].picked)
  /\ Becomes(j, IF ~codex THEN [job[j] EXCEPT !.place = "aliasing"]
                ELSE IF busy THEN [job[j] EXCEPT !.place = "waiting"]
                ELSE [job[j] EXCEPT !.place = "rotating",
                                    !.view = [Nothing EXCEPT ![a] = file[a]]])
  /\ rotator' = [rotator EXCEPT ![a] = IF codex /\ UsePG /\ ~busy
                                       THEN j ELSE @]
  /\ UNCHANGED <<config, file, minted, pool, leases, keeper, sweep, bounds,
                 overtaken>>

(* refreshOAuthAccount: upstream gives out a token, the record read before *)
(* is written over (or back into) accounts.json.                           *)
Minted(a, r) ==
  /\ minted[a] < config.tokens
  /\ minted' = [minted EXCEPT ![a] = @ + 1]
  /\ file' = [file EXCEPT ![a] = [r EXCEPT !.token = minted'[a]]]

Rotate(j) ==
  LET a == Account(j) IN
  /\ At(j, "rotating")
  /\ Minted(a, job[j].view[a])
  /\ Becomes(j, [job[j] EXCEPT !.place = "aliasing",
                               !.view = [Nothing EXCEPT ![a] = file'[a]]])
  /\ rotator' = Unrotated(j)
  /\ UNCHANGED <<config, pool, leases, keeper, sweep, bounds, overtaken>>

(* waitForOAuthRefreshResult.                                              *)
Wait(j) ==
  LET a == Account(j) IN
  /\ At(j, "waiting")
  /\ file[a] # Gone /\ ~Listed(job[j].picked)
  /\ Becomes(j, [job[j] EXCEPT !.place = "aliasing",
                               !.view = [Nothing EXCEPT ![a] = file[a]]])
  /\ UNCHANGED <<config, file, minted, pool, leases, rotator, keeper, sweep,
                 bounds, overtaken>>

(* Mutant: it waits until there is a result.                               *)
WaitForever(j) == Wait(j)

WaitTimesOut(j) ==
  /\ At(j, "waiting")
  /\ Becomes(j, [job[j] EXCEPT !.place = "releasing", !.err = "hard",
                               !.next = "ready"])
  /\ UNCHANGED <<config, file, minted, pool, leases, rotator, keeper, sweep,
                 bounds, overtaken>>

(* markAccountFailure(t, c) and, if it gives the account up,               *)
(* removeOrMarkImageAccount; then the request releases what it holds.      *)
Fail(j, t, c) ==
  LET a == t[1]
      discard == IF Listed(t) THEN Discarded(file[a], c)
                 ELSE c = "invalid_token"
  IN
  /\ \/ /\ file' = IF Listed(t) THEN [file EXCEPT ![a] = Failed(@, c)]
                   ELSE file
        /\ sweep' = [sweep EXCEPT ![j].todo = IF discard THEN {t} ELSE {}]
        /\ overtaken' = IF c = "upload_limited" /\ Listed(t)
                        THEN overtaken \cup {a} ELSE overtaken
        /\ UNCHANGED faults
     \/ /\ Fault
        /\ UNCHANGED <<file, sweep, overtaken>>
  /\ Becomes(j, [job[j] EXCEPT !.place = IF discard /\ faults' = faults
                                         THEN "marking" ELSE "releasing",
                   !.err = IF Retryable(c) THEN "soft" ELSE "hard",
                   !.next = IF Retryable(c) THEN "ready" ELSE "returned"])
  /\ UNCHANGED <<config, minted, pool, leases, keeper, refreshes, lapses>>

SetUpFails(j) ==
  /\ \/ At(j, "setup") \/ At(j, "rotating")
  /\ \E c \in config.failures \cup {"invalid_token"} :
       /\ c \notin config.failures => \* refresh_token not found
            Head(job[j].routes) = "codex" /\ ~Listed(job[j].picked)
       /\ Fail(j, job[j].picked, c)
  /\ rotator' = Unrotated(j)

(* Mutant: every account is retained once more.                            *)
AliasAlways(j) ==
  LET t == TokenOf(Account(j), job[j].view[Account(j)]) IN
  /\ At(j, "aliasing")
  /\ Becomes(j, [job[j] EXCEPT !.place = "leasing", !.token = t,
                               !.tried = @ \cup {t}])
  /\ inflight' = [inflight EXCEPT ![ProcOf[j]][t] = @ + 1]
  /\ UNCHANGED <<config, file, minted, reserved, leases, rotator, keeper,
                 sweep, bounds, overtaken>>

(* scope.alias and retainToken: the token the account really has counts    *)
(* as tried and in flight too.                                             *)
Alias(j) ==
  LET t == TokenOf(Account(j), job[j].view[Account(j)]) IN
  /\ At(j, "aliasing")
  /\ Becomes(j, [job[j] EXCEPT !.place = "leasing", !.token = t,
                               !.tried = @ \cup {t}])
  /\ inflight' = [inflight EXCEPT ![ProcOf[j]][t] =
                    IF t = job[j].picked THEN @ ELSE @ + 1]
  /\ UNCHANGED <<config, file, minted, reserved, leases, rotator, keeper,
                 sweep, bounds, overtaken>>

Idle(j, place, e) ==
  Becomes(j, [job[j] EXCEPT !.place = place, !.picked = None, !.token = None,
                            !.view = Nothing, !.err = e])

(* The uploads that the members of S stand for, one by one.                *)
Units(S, n) == UNION {{x} \X (1 .. n[x]) : x \in S}

LeasesOn(t) == {l \in leases : l.token = t}
Leased(t) == \* SUM(upload_weight)
  Cardinality(Units(LeasesOn(t), [l \in leases |-> l.weight]))

(* acquireUploadAccountLease, with the upload allowance of the record as   *)
(* it was when the account was picked.                                     *)
(* Mutants: one lease too many; each request is covered by itself.         *)
FreeOneMore(j) == Cardinality(LeasesOn(job[j].token)) <= MaxConc
CoveredAlone(j) == Weight(j) <= job[j].view[Account(j)].uploads
Free(j) == Cardinality(LeasesOn(job[j].token)) < MaxConc
Covered(j) == Weight(j) > 0 =>
  Leased(job[j].token) + Weight(j) <= job[j].view[Account(j)].uploads

AcquireLease(j) ==
  /\ At(j, "leasing")
  /\ UsePG => Free(j) /\ Covered(j)
  /\ leases' = IF UsePG THEN leases \cup {LeaseOf(j)} ELSE leases
  /\ overtaken' = IF /\ UsePG /\ Weight(j) > 0
                     /\ job[j].view[Account(j)] # file[Account(j)]
                  THEN overtaken \cup {Account(j)} ELSE overtaken
  /\ Becomes(j, [job[j] EXCEPT !.place = "generating", !.view = Nothing])
  /\ UNCHANGED <<config, file, minted, pool, rotator, keeper, sweep,
                 bounds>>

(* Not leased: everything selected is released, the loop goes on unless    *)
(* the request is canceled.  An acquisition that failed may have been      *)
(* committed.                                                              *)
LeaseRefused(j) ==
  /\ At(j, "leasing") /\ UsePG
  /\ Release(j)
  /\ \/ /\ \/ ~Free(j) /\ Idle(j, "ready", "hard")
           \/ Free(j) /\ ~Covered(j) /\ Idle(j, "ready", "soft")
           \/ Idle(j, "canceled", job[j].err)
        /\ UNCHANGED <<leases, faults>>
     \/ /\ Fault
        /\ leases' \in {leases} \cup
             (IF Free(j) /\ Covered(j) THEN {leases \cup {LeaseOf(j)}} ELSE {})
        /\ \E e \in {"soft", "hard"} : Idle(j, "ready", e)
  /\ UNCHANGED <<config, file, minted, rotator, keeper, sweep, refreshes,
                 lapses, overtaken>>

(* OnReferenceUpload: markAccountUploadSuccess(token, 1).                  *)
Upload(j) ==
  LET t == job[j].token IN
  /\ At(j, "generating") /\ job[j].sent < Weight(j)
  /\ job' = [job EXCEPT ![j].sent = @ + 1]
  /\ \/ /\ file' = IF Listed(t)
                   THEN [file EXCEPT ![t[1]].uploads =
                           IF @ > 0 THEN @ - 1 ELSE @]
                   ELSE file
        /\ UNCHANGED faults
     \/ Fault /\ UNCHANGED file
  /\ UNCHANGED <<config, minted, pool, leases, rotator, keeper, sweep,
                 refreshes, lapses, overtaken>>

(* GenerateImage returns images.                                           *)
Generate(j) ==
  LET t == job[j].token
      discard == Listed(t) /\ UsedUp(file[t[1]])
  IN
  /\ At(j, "generating") /\ job[j].sent = Weight(j)
  /\ \/ /\ file' = IF Listed(t) THEN [file EXCEPT ![t[1]] = Succeeded(@)]
                   ELSE file
        /\ sweep' = [sweep EXCEPT ![j].todo = IF discard THEN {t} ELSE {}]
        /\ UNCHANGED faults
     \/ /\ Fault
        /\ UNCHANGED <<file, sweep>>
  /\ Becomes(j, [job[j] EXCEPT !.place = IF discard /\ faults' = faults
                                         THEN "marking" ELSE "releasing",
                               !.next = "images"])
  /\ UNCHANGED <<config, minted, pool, leases, rotator, keeper, refreshes,
                 lapses, overtaken>>

GenerateFails(j) ==
  /\ At(j, "generating")
  /\ \E c \in config.failures : Fail(j, job[j].token, c)
  /\ UNCHANGED rotator

(* The request is canceled: nothing is marked.                             *)
Cancel(j) ==
  /\ \/ /\ At(j, "ready")
        /\ job' = [job EXCEPT ![j].place = "canceled"]
        /\ UNCHANGED rotator
     \/ /\ job[j].place \in {"setup", "rotating", "waiting", "generating"}
        /\ Becomes(j, [job[j] EXCEPT !.place = "releasing",
                                     !.next = "canceled"])
        /\ rotator' = Unrotated(j)
  /\ UNCHANGED <<config, file, minted, pool, leases, keeper, sweep, bounds,
                 overtaken>>

ReleaseSelected(j) ==
  /\ At(j, "releasing")
  /\ Release(j)
  /\ Becomes(j, [job[j] EXCEPT !.place = "unleasing", !.picked = None,
                               !.view = Nothing])
  /\ UNCHANGED <<config, file, minted, leases, rotator, keeper, sweep,
                 bounds, overtaken>>

(* Mutant: only a served request gives its lease back.                     *)
ReleaseLeaseIfServed(j) ==
  /\ At(j, "unleasing")
  /\ leases' = IF job[j].next = "images"
               THEN {l \in leases : l.job # j \/ ~Held(l)} ELSE leases
  /\ BeginSweep(j, TokensWhere(IsPending))
  /\ Becomes(j, [job[j] EXCEPT !.place = "sweeping", !.token = None])
  /\ UNCHANGED <<config, file, minted, pool, rotator, keeper, bounds,
                 overtaken>>

(* releaseImageAccountLease, whose failure is only logged, and             *)
(* cleanupPendingDeletedAccounts.                                          *)
ReleaseLease(j) ==
  /\ At(j, "unleasing")
  /\ \/ /\ leases' = {l \in leases : l.job # j \/ ~Held(l)}
        /\ UNCHANGED faults
     \/ /\ \E l \in leases : l.job = j /\ Held(l)
        /\ Fault /\ UNCHANGED leases
  /\ BeginSweep(j, TokensWhere(IsPending))
  /\ Becomes(j, [job[j] EXCEPT !.place = "sweeping", !.token = None])
  /\ UNCHANGED <<config, file, minted, pool, rotator, keeper, refreshes,
                 lapses, overtaken>>

PotentialCodex(a) == \* isPotentialCodexImageAccount
  /\ a \in Codex /\ file[a] # Gone
  /\ ~file[a].pending /\ file[a].quota > 0
  /\ file[a].status \notin {"invalid", "limited", "cooling"}

(* The next route, in the same scope, if the error allows it.              *)
NextRoute(j) ==
  LET rest == Tail(job[j].routes)
      more == /\ rest # <<>> /\ job[j].err = "soft"
              /\ Head(rest) = "codex" => \E a \in Accounts : PotentialCodex(a)
  IN
  /\ At(j, "returned")
  /\ Becomes(j, IF more THEN [job[j] EXCEPT !.place = "start", !.routes = rest,
                                            !.err = "none"]
                ELSE [job[j] EXCEPT !.place = "failed"])
  /\ UNCHANGED <<config, file, minted, pool, leases, rotator, keeper, sweep,
                 bounds, overtaken>>

-----------------------------------------------------------------------------
(* Keepers: the clean-up watcher, the refreshes of accounts, the watcher   *)
(* of limited accounts.                                                    *)

Watch(k) ==
  /\ keeper[k].place = "idle" /\ k \in config.actors
  /\ TokensWhere(Removable) # {}
  /\ BeginSweep(k, TokensWhere(Removable))
  /\ keeper' = [keeper EXCEPT ![k].place = "sweeping"]
  /\ UNCHANGED <<config, file, minted, pool, leases, rotator, job, bounds,
                 overtaken>>

(* refreshAccountInfos, for one account.                                   *)
Refresh(k) ==
  /\ keeper[k].place = "idle" /\ k \in config.actors
  /\ refreshes < config.refreshes /\ refreshes' = refreshes + 1
  /\ \E a \in Accounts :
       /\ file[a] # Gone
       /\ keeper' = [keeper EXCEPT ![k] =
                       [place |-> IF a \in Codex THEN "rotating" ELSE "asking",
                        view |-> [Nothing EXCEPT ![a] = file[a]]]]
  /\ UNCHANGED <<config, file, minted, pool, leases, rotator, job, sweep,
                 faults, lapses, overtaken>>

Viewed(k) == CHOOSE a \in Accounts : keeper[k].view[a] # Gone

KeeperRotates(k) ==
  /\ keeper[k].place = "rotating"
  /\ Minted(Viewed(k), keeper[k].view[Viewed(k)])
  /\ keeper' = [keeper EXCEPT ![k] =
       [place |-> "asking",
        view |-> [Nothing EXCEPT ![Viewed(k)] = file'[Viewed(k)]]]]
  /\ UNCHANGED <<config, pool, leases, rotator, job, sweep, bounds,
                 overtaken>>

(* Mutant: the answer's PendingDelete, which is never set, is taken over.  *)
MergedUnmarked(r, q, u) ==
  [r EXCEPT !.pending = FALSE, !.unrefreshed = FALSE,
            !.quota = IF q = Unknown THEN @ ELSE q,
            !.uploads = IF u = Unknown THEN @ ELSE u]

(* mergeRefreshedAccountInfo; Unknown stands for an answer without the     *)
(* allowance.                                                              *)
Merged(r, q, u) ==
  LET s == IF q = Unknown THEN r
           ELSE [r EXCEPT !.quota = q,
                          !.status = IF q > 0 THEN "normal" ELSE "limited"]
      v == IF u = Unknown THEN s ELSE [s EXCEPT !.uploads = u]
  IN [v EXCEPT !.unrefreshed = FALSE]
Answers(full) == {Unknown, 0, full}

(* The clean-up that follows a refresh sees the accounts as it leaves them.*)
SweepAfter(k) ==
  /\ keeper' = [keeper EXCEPT ![k] = [place |-> "sweeping", view |-> Nothing]]
  /\ sweep' = [sweep EXCEPT ![k].todo =
       {TokenOf(a, file'[a]) :
          a \in {b \in Accounts : file'[b] # Gone /\ Removable(file'[b])}}]

Answer(k) ==
  LET a == Viewed(k)
      r == keeper[k].view[a]
  IN
  /\ keeper[k].place = "asking"
  /\ \/ /\ Listed(TokenOf(a, r))
        /\ \E q \in Answers(config.images), u \in Answers(config.uploads) :
             file' = [file EXCEPT ![a] = Merged(r, q, u)]
        /\ overtaken' = overtaken \cup {a}
     \/ ~Listed(TokenOf(a, r)) /\ UNCHANGED <<file, overtaken>>
  /\ SweepAfter(k)
  /\ UNCHANGED <<config, minted, pool, leases, rotator, job, bounds>>

(* markAccountRefreshFailure, under the token the refresh began with.      *)
RefreshFails(k) ==
  LET a == Viewed(k)
      t == TokenOf(a, keeper[k].view[a])
  IN
  /\ \/ keeper[k].place = "rotating"
     \/ keeper[k].place = "asking"
  /\ file' = IF Listed(t) /\ ~(a \in Codex /\ keeper[k].place = "asking")
             THEN [file EXCEPT ![a].unrefreshed = TRUE] ELSE file
  /\ SweepAfter(k)
  /\ UNCHANGED <<config, minted, pool, leases, rotator, job, bounds,
                 overtaken>>

(* refreshAccountsNeedingLimitRefresh: the record is looked at again       *)
(* inside the update.                                                      *)
NeedsLimitRefresh(r) ==
  /\ ~r.pending /\ r.status # "invalid"
  /\ Limited(r) \/ r.quota = 0 \/ r.uploads \in {Unknown, 0}

RefreshLimited(k) ==
  /\ keeper[k].place = "idle" /\ k \in config.actors
  /\ refreshes < config.refreshes /\ refreshes' = refreshes + 1
  /\ \E a \in Accounts, q \in Answers(config.images),
        u \in Answers(config.uploads) :
       /\ file[a] # Gone /\ NeedsLimitRefresh(file[a])
       /\ file' = [file EXCEPT ![a] = Merged(@, q, u)]
       /\ overtaken' = overtaken \cup {a}
  /\ SweepAfter(k)
  /\ UNCHANGED <<config, minted, pool, leases, rotator, job, faults,
                 lapses>>

-----------------------------------------------------------------------------
(* Time.                                                                   *)

WindowEnds(a) ==
  /\ file[a] # Gone /\ file[a].status = "cooling"
  /\ file' = [file EXCEPT ![a].status = "cooled"]
  /\ UNCHANGED <<config, minted, pool, leases, rotator, job, keeper, sweep,
                 bounds, overtaken>>

Expire(l) == \* a lease outlives the attempt that lost it, or lapses under it
  /\ l \in leases
  /\ leases' = leases \ {l}
  /\ IF Held(l) THEN lapses < config.lapses /\ lapses' = lapses + 1
                ELSE UNCHANGED lapses
  /\ UNCHANGED <<config, file, minted, pool, rotator, job, keeper, sweep,
                 refreshes, faults, overtaken>>

Attempt(j) ==
  \/ Start(j) \/ LoadAccounts(j) \/ Pick(j) \/ SetUp(j) \/ Rotate(j)
  \/ Wait(j) \/ WaitTimesOut(j) \/ SetUpFails(j) \/ Alias(j)
  \/ AcquireLease(j) \/ LeaseRefused(j) \/ Upload(j) \/ Generate(j)
  \/ GenerateFails(j) \/ Cancel(j) \/ ReleaseSelected(j) \/ ReleaseLease(j)
  \/ NextRoute(j)

CleanUp(x) == CheckActive(x) \/ RemoveOrMark(x) \/ EndSweep(x)

Keep(k) ==
  \/ Watch(k) \/ Refresh(k) \/ KeeperRotates(k) \/ Answer(k)
  \/ RefreshFails(k) \/ RefreshLimited(k)

Next ==
  \/ \E j \in Jobs : Attempt(j)
  \/ \E x \in Actors : CleanUp(x)
  \/ \E k \in Keepers : Keep(k)
  \/ \E a \in Accounts : WindowEnds(a)
  \/ \E l \in leases : Expire(l)

Spec == Init /\ [][Next]_vars

-----------------------------------------------------------------------------
(* What the requests promise each other.                                   *)

Holders(p, t) == {j \in Jobs : /\ ProcOf[j] = p /\ job[j].picked # None
                               /\ t \in Selected(j)}
Pickers(p, t) == {j \in Jobs : ProcOf[j] = p /\ job[j].picked = t}

(* The pool's counters are exactly what the requests of the process hold:  *)
(* no way out of an attempt leaves a slot or an upload reserved, and none  *)
(* gives back the slot of another request.                                 *)
PoolMatchesHolders ==
  \A p \in Procs, t \in Tokens :
    /\ inflight[p][t] = Cardinality(Holders(p, t))
    /\ reserved[p][t] =
         Cardinality(Units(Pickers(p, t), [j \in Jobs |-> Weight(j)]))

(* A generation keeps its lease until it is over unless the lease lapses;  *)
(* a lease nobody holds comes from a failing database call.                *)
Stray(l) == ~Held(l)
LeasesFollowJobs ==
  /\ UsePG /\ lapses = 0 =>
       \A j \in Jobs : At(j, "generating") => LeaseOf(j) \in leases
  /\ Cardinality({l \in leases : Stray(l)}) <= faults

(* What the requests hold, both ledgers say: the pool's counters in each   *)
(* process and the leases in the database (release, ReleaseAccountLease).  *)
HeldIsCounted == PoolMatchesHolders /\ LeasesFollowJobs

(* Of a web account no more images are generated at a time than            *)
(* image_account_concurrency, in all processes together: the pool bounds   *)
(* one process, the leases all of them while none lapses.                  *)
Generating(a) ==
  {j \in Jobs : At(j, "generating") /\ job[j].token[1] = a}
OneProcess ==
  \A x, y \in config.actors : ProcOf[x] = ProcOf[y]
WebConcurrency ==
  \A a \in Accounts \ Codex :
    (UsePG /\ lapses = 0) \/ OneProcess => Cardinality(Generating(a)) <= MaxConc

(* A request uploads only files its account still has an allowance for:    *)
(* what is left to upload in all generations together is covered, unless   *)
(* the allowance moved after it was read or a lease lapsed.  Without       *)
(* leases this holds of one process.                                       *)
ToSend == [j \in Jobs |-> Weight(j) - job[j].sent]
UploadsCovered ==
  \A a \in Accounts \ (Codex \cup overtaken) :
    file[a] # Gone /\ (IF UsePG THEN lapses = 0 ELSE OneProcess) =>
      Cardinality(Units(Generating(a), ToSend)) <= file[a].uploads

(* No account is used beyond what it can serve, in slots and in uploads    *)
(* (Usable, acquireLease, the upload reservation).                         *)
CapacityRespected == TypeOK /\ UploadsCovered /\ WebConcurrency

(* A mark is lost only to a refresh that read the record before the mark.  *)
Stale(a) == \/ \E k \in Keepers : /\ keeper[k].view[a] # Gone
                                   /\ ~keeper[k].view[a].pending
            \/ \E j \in Jobs : /\ At(j, "rotating")
                               /\ job[j].view[a] # Gone
                               /\ ~job[j].view[a].pending
MarkKept(a) ==
  file[a] # Gone /\ file[a].pending /\ file'[a] # Gone =>
    file'[a].pending \/ Stale(a)
MarkLostOnlyToStaleView == [][\A a \in Accounts : MarkKept(a)]_file

(* Every request ends: the attempts are bounded, waits time out.           *)
Ended(j) == job[j].place \in {"images", "canceled", "failed"}
EveryRequestEnds ==
  \A j \in Jobs : <>(j \in config.actors => Ended(j))

(* A marked account is removed (or written over by a refresh).  The last   *)
(* request that used it may leave it to the next clean-up: a refused lease *)
(* is followed by none.                                                    *)
MarkedGoes ==
  \A a \in Accounts :
    file[a] # Gone /\ file[a].pending ~> file[a] = Gone \/ ~file[a].pending

-----------------------------------------------------------------------------
(* Goroutines are scheduled, upstream and the database answer or time out, *)
(* the clean-up watcher comes round; nobody has to cancel, refresh or fail.*)
Progress(j) ==
  \/ Start(j) \/ LoadAccounts(j) \/ Pick(j) \/ SetUp(j)
  \/ WaitTimesOut(j) \/ SetUpFails(j) \/ Alias(j) \/ AcquireLease(j)
  \/ LeaseRefused(j) \/ Upload(j) \/ Generate(j) \/ GenerateFails(j)
  \/ ReleaseSelected(j) \/ ReleaseLease(j) \/ NextRoute(j)

FairSpec ==
  /\ Spec
  /\ \A j \in Jobs : WF_vars(Progress(j))
  /\ \A x \in Actors : WF_vars(CleanUp(x))
  /\ \A k \in Keepers : WF_vars(Keep(k))
  /\ WF_vars(\E l \in leases : ~Held(l) /\ Expire(l))

=============================================================================
