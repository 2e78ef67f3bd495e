------------------------- MODULE AccountPoolProofs -------------------------
(***************************************************************************)
(* Proofs about AccountPool.  First the types of the variables and what a  *)
(* request and a keeper hold where they are; a lemma per action says what  *)
(* it makes of its request, and one per group of actions what it makes of  *)
(* a record of accounts.json.  On these rest: a mark is lost only to a     *)
(* stale refresh; the pool's counters are what the requests hold, and the  *)
(* leases follow the attempts; and, for web accounts, whose token never    *)
(* changes, the slots and the upload allowances are not exceeded.          *)
(***************************************************************************)
EXTENDS AccountPool, FiniteSetTheorems, TLAPS

-----------------------------------------------------------------------------
(* Constants, tokens and records.                                          *)

LEMMA ConfigTypes ==
  ASSUME config \in Configs
  PROVE  /\ Codex \subseteq config.accounts /\ config.accounts \subseteq Accounts
         /\ config.actors \subseteq Actors /\ ProcOf \in [Actors -> Procs]
         /\ config.routes \in Seq({"web", "codex"}) /\ config.routes # <<>>
         /\ config.files \in [Jobs -> Nat] /\ UsePG \in BOOLEAN
         /\ MaxConc \in Nat \ {0} /\ config.attempts \in Nat \ {0}
         /\ Strikes \in Nat \ {0} /\ config.images \in Nat \ {0}
         /\ config.uploads \in Nat /\ config.tokens \in 0 .. MaxTokens
         /\ MaxTokens \in Nat /\ config.refreshes \in Nat
         /\ config.faults \in Nat /\ config.lapses \in Nat
  BY PoolAssumption DEF Codex, ProcOf, UsePG, MaxConc, Strikes

LEMMA Zeros ==
  config \in Configs =>
    0 \in 0 .. config.images /\ 0 \in 0 .. config.uploads /\ 0 \in 0 .. Strikes
  BY ConfigTypes

LEMMA TokenIs ==
  /\ \A a \in Accounts, n \in 0 .. MaxTokens :
       /\ <<a, n>> \in Tokens /\ <<a, n>>[1] = a /\ <<a, n>>[2] = n
  /\ \A t \in Tokens : /\ t[1] \in Accounts /\ t[2] \in 0 .. MaxTokens
                       /\ t = <<t[1], t[2]>>
  BY DEF Tokens
LEMMA NoneIs == None \notin Tokens
  BY DEF None, Tokens
LEMMA GoneIs == Gone \notin Records /\ Gone.token = -1 /\ \A r \in Records : r.token # -1
<1>1. \A r \in Records : r.token \in 0 .. MaxTokens
  BY DEF Records
<1>2. \A n \in 0 .. MaxTokens : n # -1
  BY PoolAssumption
<1> QED  BY <1>1, <1>2 DEF Gone

LEMMA FreshRecord == config \in Configs => Fresh \in Records
  BY ConfigTypes DEF Fresh, Records, Statuses

LEMMA InvalidRecord ==
  ASSUME config \in Configs, NEW r \in Records
  PROVE  /\ Invalid(r) \in Records /\ Marked(r) \in Records
         /\ Marked(r).token = r.token /\ Marked(r).pending
         /\ Marked(r).uploads = r.uploads
<1>1. /\ Invalid(r) \in Records /\ Invalid(r).token = r.token
      /\ Invalid(r).uploads = r.uploads
  BY Zeros DEF Invalid, Records, Statuses
<1>2. \A s \in Records :
        LET x == [s EXCEPT !.pending = TRUE]
        IN  /\ x \in Records /\ x.token = s.token /\ x.pending
            /\ x.uploads = s.uploads
  BY DEF Records
<1> QED  BY <1>1, <1>2 DEF Marked

LEMMA SucceededRecord ==
  ASSUME config \in Configs, NEW r \in Records
  PROVE  /\ Succeeded(r) \in Records /\ Succeeded(r).pending = r.pending
         /\ Succeeded(r).token = r.token /\ Succeeded(r).uploads = r.uploads
<1>1. PICK s : s = [r EXCEPT !.blocks = 0, !.timeouts = 0]
  OBVIOUS
<1>2. /\ s \in Records /\ s.pending = r.pending /\ s.token = r.token
      /\ s.uploads = r.uploads /\ s.quota = r.quota
      /\ r.quota \in 0 .. config.images
  BY <1>1, Zeros DEF Records
<1>4. PICK x : x = Succeeded(r)
  OBVIOUS
<1>5. CASE r.quota = 1
  <2>1. x = [s EXCEPT !.quota = 0, !.status = "limited"]
    BY <1>1, <1>4, <1>5 DEF Succeeded
  <2>2. 0 \in 0 .. config.images /\ "limited" \in Statuses
    BY Zeros DEF Statuses
  <2> QED  BY ZenonT(60), <1>2, <1>4, <2>1, <2>2 DEF Records
<1>6. CASE r.quota > 1
  <2>1. r.quota - 1 \in 0 .. config.images
    <3>1. config.images \in Nat
      BY ConfigTypes
    <3> QED  BY <1>2, <1>6, <3>1
  <2>2. s.status \in Statuses /\ "normal" \in Statuses
    BY <1>2 DEF Records, Statuses
  <2>3. x = [s EXCEPT !.quota = r.quota - 1,
                      !.status = IF Limited(r) THEN "normal" ELSE s.status]
    BY <1>1, <1>2, <1>4, <1>6 DEF Succeeded
  <2>4. CASE Limited(r)
    <3>1. x = [s EXCEPT !.quota = r.quota - 1, !.status = "normal"]
      BY <2>3, <2>4
    <3> QED  BY ZenonT(60), <1>2, <1>4, <2>1, <2>2, <3>1 DEF Records
  <2>5. CASE ~Limited(r)
    <3>1. x = [s EXCEPT !.quota = r.quota - 1, !.status = s.status]
      BY <2>3, <2>5
    <3> QED  BY ZenonT(60), <1>2, <1>4, <2>1, <2>2, <3>1 DEF Records
  <2> QED  BY <2>4, <2>5
<1>7. CASE r.quota # 1 /\ ~(r.quota > 1)
  BY <1>1, <1>2, <1>4, <1>7 DEF Succeeded
<1> QED  BY <1>5, <1>6, <1>7

LEMMA StruckRecord ==
  ASSUME config \in Configs, NEW r \in Records, NEW c
  PROVE  /\ Struck(r, c) \in Records /\ Struck(r, c).pending = r.pending
         /\ Struck(r, c).uploads = r.uploads /\ Struck(r, c).token = r.token
<1> DEFINE up(n) == IF n < Strikes THEN n + 1 ELSE n
<1>1. \A n \in 0 .. Strikes : up(n) \in 0 .. Strikes
  BY ConfigTypes
<1>3. 0 \in 0 .. Strikes /\ r.blocks \in 0 .. Strikes /\ r.timeouts \in 0 .. Strikes
  BY ConfigTypes DEF Records
<1>4. [r EXCEPT !.timeouts = up(@), !.blocks = 0]
        = [r EXCEPT !.blocks = 0, !.timeouts = up(r.timeouts)]
  BY DEF Records
<1>5. \/ Struck(r, c) = r
      \/ \E m, n \in 0 .. Strikes :
           Struck(r, c) = [r EXCEPT !.blocks = m, !.timeouts = n]
  <2>1. CASE c = "upstream_403"
    <3>1. Struck(r, c) = [r EXCEPT !.blocks = up(r.blocks), !.timeouts = 0]
      BY <2>1 DEF Struck
    <3>2. up(r.blocks) \in 0 .. Strikes
      BY <1>1, <1>3
    <3> QED  BY <1>3, <3>1, <3>2, Zenon
  <2>2. CASE c = "temporary_timeout"
    <3>1. Struck(r, c) = [r EXCEPT !.blocks = 0, !.timeouts = up(r.timeouts)]
      BY <2>2, <1>4 DEF Struck
    <3>2. up(r.timeouts) \in 0 .. Strikes
      BY <1>1, <1>3
    <3> QED  BY <1>3, <3>1, <3>2, Zenon
  <2>3. CASE c = "other"
    BY <2>3 DEF Struck
  <2>4. CASE c \notin {"upstream_403", "temporary_timeout", "other"}
    <3>1. Struck(r, c) = [r EXCEPT !.blocks = 0, !.timeouts = 0]
      BY <2>4 DEF Struck
    <3> QED  BY <1>3, <3>1, Zenon
  <2> QED  BY <2>1, <2>2, <2>3, <2>4
<1> QED
  <2>1. CASE Struck(r, c) = r
    BY <2>1
  <2>2. ASSUME NEW m \in 0 .. Strikes, NEW n \in 0 .. Strikes,
               Struck(r, c) = [r EXCEPT !.blocks = m, !.timeouts = n]
        PROVE  /\ Struck(r, c) \in Records /\ Struck(r, c).pending = r.pending
               /\ Struck(r, c).uploads = r.uploads /\ Struck(r, c).token = r.token
    <3>1. PICK x : x = [r EXCEPT !.blocks = m, !.timeouts = n]
      OBVIOUS
    <3>2. x \in Records /\ x.pending = r.pending /\ x.uploads = r.uploads /\ x.token = r.token
      BY <3>1 DEF Records
    <3>3. Struck(r, c) = x
      BY <2>2, <3>1
    <3> QED  BY <3>2, <3>3
  <2> QED  BY <1>5, <2>1, <2>2

LEMMA FailedRecord ==
  ASSUME config \in Configs, NEW r \in Records, NEW c
  PROVE  /\ Failed(r, c) \in Records /\ Failed(r, c).pending = r.pending
         /\ Failed(r, c).token = r.token
         /\ c # "upload_limited" => Failed(r, c).uploads = r.uploads
         /\ r.uploads # Unknown => Failed(r, c).uploads # Unknown
<1> DEFINE s == Struck(r, c)
           u == IF c = "upload_limited" THEN [s EXCEPT !.uploads = 0] ELSE s
<1>1. /\ s \in Records /\ s.pending = r.pending /\ s.uploads = r.uploads /\ s.token = r.token
  BY StruckRecord
<1> HIDE DEF s
<1>2. /\ u \in Records /\ u.pending = r.pending /\ u.token = r.token
      /\ c # "upload_limited" => u.uploads = r.uploads
      /\ r.uploads # Unknown => u.uploads # Unknown
  BY <1>1, Zeros DEF Records, Unknown
<1> HIDE DEF u
<1>3. /\ Invalid(u) \in Records /\ Invalid(u).pending = u.pending
      /\ Invalid(u).uploads = u.uploads /\ Invalid(u).token = u.token
  BY <1>2, InvalidRecord DEF Invalid, Records
<1>4. LET v == [u EXCEPT !.status = "cooling"]
      IN  /\ v \in Records /\ v.pending = u.pending /\ v.uploads = u.uploads
          /\ v.token = u.token
  BY <1>2 DEF Records, Statuses
<1> QED  BY <1>2, <1>3, <1>4 DEF Failed, s, u

LEMMA MergedRecord ==
  ASSUME config \in Configs, NEW r \in Records,
         NEW q \in Answers(config.images), NEW u \in Answers(config.uploads)
  PROVE  /\ Merged(r, q, u) \in Records /\ Merged(r, q, u).pending = r.pending
         /\ Merged(r, q, u).token = r.token
         /\ r.uploads # Unknown => Merged(r, q, u).uploads # Unknown
<1> DEFINE s == IF q = Unknown THEN r
                ELSE [r EXCEPT !.quota = q,
                               !.status = IF q > 0 THEN "normal" ELSE "limited"]
           v == IF u = Unknown THEN s ELSE [s EXCEPT !.uploads = u]
<1>1. /\ s \in Records /\ s.pending = r.pending /\ s.token = r.token
      /\ s.uploads = r.uploads
  <2>1. q # Unknown => q \in 0 .. config.images
    BY ConfigTypes DEF Answers
  <2>2. (IF q > 0 THEN "normal" ELSE "limited") \in Statuses
    BY DEF Statuses
  <2>3. \A n \in 0 .. config.images, st \in Statuses :
          LET x == [r EXCEPT !.quota = n, !.status = st]
          IN  /\ x \in Records /\ x.pending = r.pending /\ x.token = r.token
              /\ x.uploads = r.uploads
    BY DEF Records
  <2> QED  BY <2>1, <2>2, <2>3
<1> HIDE DEF s
<1>2. /\ v \in Records /\ v.pending = r.pending /\ v.token = r.token
      /\ r.uploads # Unknown => v.uploads # Unknown
  <2>1. u # Unknown => u \in 0 .. config.uploads
    BY ConfigTypes DEF Answers
  <2> QED  BY <1>1, <2>1 DEF Records
<1> HIDE DEF v
<1>3. LET x == [v EXCEPT !.unrefreshed = FALSE]
      IN  /\ x \in Records /\ x.pending = v.pending /\ x.token = v.token
          /\ x.uploads = v.uploads
  BY <1>2 DEF Records
<1> QED  BY <1>2, <1>3 DEF Merged, s, v

-----------------------------------------------------------------------------
(* What a request holds where it is.                                       *)

Bare == {"start", "sweeping", "ready", "picking", "returned", "images",
         "canceled", "failed"}
SettingUp == {"setup", "rotating", "waiting", "aliasing"}

JobOK(j) ==
  LET place == job[j].place IN
  /\ job[j].routes # <<>>
  /\ place \in Bare => job[j].picked = None /\ job[j].token = None
  /\ place \in SettingUp => job[j].picked \in Tokens /\ job[j].token = None
  /\ place \in {"leasing", "generating"} =>
       job[j].picked \in Tokens /\ job[j].token \in Tokens
  /\ place \in {"marking", "releasing"} => job[j].picked \in Tokens
  /\ place = "unleasing" => job[j].picked = None
  /\ place \in SettingUp \cup {"leasing"} =>
       job[j].view[Account(j)] # Gone /\ job[j].used # 0
  /\ place = "picking" => job[j].used < config.attempts
  /\ place \in {"sweeping", "marking", "releasing", "unleasing"} =>
       job[j].next \in {"ready", "returned", "images", "canceled"}
  /\ place # "start" => j \in config.actors

(* A refresh has read one record.                                          *)
KeeperOK(k) ==
  keeper[k].place \in {"rotating", "asking"} =>
    \E a \in Accounts :
      /\ keeper[k].view[a] # Gone
      /\ \A b \in Accounts \ {a} : keeper[k].view[b] = Gone
      /\ keeper[k].place = "rotating" => a \in config.codex

PlacesMatch == /\ \A j \in Jobs : JobOK(j)
           /\ \A k \in Keepers : KeeperOK(k)

LEMMA SameTypes ==
  ASSUME config' = config
  PROVE  /\ Records' = Records /\ Views' = Views /\ Leases' = Leases
         /\ JobRecords' = JobRecords
  BY DEF Records, Views, Leases, JobRecords, Strikes

LEMMA ViewTypes ==
  ASSUME config \in Configs
  PROVE  /\ Nothing \in Views
         /\ \A v \in Views, a \in Accounts : v[a] \in Records \/ v[a] = Gone
         /\ \A v \in Views, a \in Accounts, r \in Records \cup {Gone} :
              [v EXCEPT ![a] = r] \in Views
  BY DEF Views, Nothing

LEMMA JobFields ==
  ASSUME TypeOK, NEW j \in Jobs
  PROVE  /\ job[j] \in JobRecords
         /\ job[j].place \in Places /\ job[j].next \in Places
         /\ job[j].routes \in Seq({"web", "codex"}) /\ job[j].used \in 0 .. config.attempts
         /\ job[j].tried \subseteq Tokens /\ job[j].view \in Views
         /\ job[j].picked \in Tokens \cup {None} /\ job[j].token \in Tokens \cup {None}
         /\ job[j].sent \in Nat /\ job[j].err \in {"none", "soft", "hard"}
  BY DEF TypeOK, JobRecords

LEMMA InitTypes == Init => TypeOK /\ PlacesMatch
<1> SUFFICES ASSUME Init  PROVE TypeOK /\ PlacesMatch
  OBVIOUS
<1>0. config \in Configs
  BY DEF Init
<1>1. file \in Views
  BY <1>0, FreshRecord, ConfigTypes DEF Init, Views
<1>2. job \in [Jobs -> JobRecords]
  <2>1. Nothing \in Views
    BY <1>0, ViewTypes
  <2> QED  BY <2>1, <1>0, ConfigTypes DEF Init, JobRecords, Places
<1>3. TypeOK
  <2>1. minted \in [Accounts -> 0 .. MaxTokens]
    BY PoolAssumption DEF Init
  <2>2. keeper \in [Keepers -> [place : {"idle", "rotating", "asking", "sweeping"}, view : Views]]
    BY <1>0, ViewTypes DEF Init
  <2>3. /\ refreshes \in 0 .. config.refreshes /\ faults \in 0 .. config.faults
        /\ lapses \in 0 .. config.lapses
    BY <1>0, ConfigTypes DEF Init
  <2> QED  BY <1>0, <1>1, <1>2, <2>1, <2>2, <2>3 DEF Init, TypeOK, Swept
<1>4. PlacesMatch
  BY <1>0, ConfigTypes DEF Init, PlacesMatch, JobOK, KeeperOK, Bare, SettingUp
<1> QED  BY <1>3, <1>4

LEMMA KeeperViews ==
  ASSUME NEW k \in Keepers, KeeperOK(k), keeper[k].place \in {"rotating", "asking"}
  PROVE  /\ Viewed(k) \in Accounts /\ keeper[k].view[Viewed(k)] # Gone
         /\ \A b \in Accounts \ {Viewed(k)} : keeper[k].view[b] = Gone
         /\ keeper[k].place = "rotating" => Viewed(k) \in Codex
<1>1. PICK a \in Accounts :
        /\ keeper[k].view[a] # Gone
        /\ \A b \in Accounts \ {a} : keeper[k].view[b] = Gone
        /\ keeper[k].place = "rotating" => a \in config.codex
  BY DEF KeeperOK
<1>2. Viewed(k) = a
  BY <1>1 DEF Viewed
<1> QED  BY <1>1, <1>2 DEF Codex

Shaped(r) ==
  r = [place |-> r.place, next |-> r.next, routes |-> r.routes, used |-> r.used,
       tried |-> r.tried, view |-> r.view, picked |-> r.picked, token |-> r.token,
       sent |-> r.sent, err |-> r.err]
FieldsOK(r) ==
  /\ r.place \in Places /\ r.next \in Places /\ r.routes \in Seq({"web", "codex"})
  /\ r.used \in 0 .. config.attempts /\ r.tried \subseteq Tokens
  /\ r.picked \in Tokens \cup {None} /\ r.token \in Tokens \cup {None}
  /\ r.sent \in Nat /\ r.err \in {"none", "soft", "hard"}
JobMoved(j) ==
  job' \in [Jobs -> JobRecords] /\ \A i \in Jobs \ {j} : job'[i] = job[i]
LEMMA JobUpdate ==
  ASSUME NEW j \in Jobs, job \in [Jobs -> JobRecords], job' = [job EXCEPT ![j] = job'[j]],
         Shaped(job'[j]), FieldsOK(job'[j]), job'[j].view \in Views
  PROVE  JobMoved(j)
<1>1. job'[j] \in JobRecords
  BY DEF Shaped, FieldsOK, JobRecords
<1> QED  BY <1>1 DEF JobMoved

LEMMA MintedRecord ==
  ASSUME NEW r \in Records, NEW n \in 0 .. MaxTokens
  PROVE  [r EXCEPT !.token = n] \in Records
  BY DEF Records

(* A token of accounts.json is that of a record.                          *)
LEMMA ListedIs ==
  ASSUME TypeOK, NEW t \in Tokens, Listed(t)
  PROVE  /\ t[1] \in Accounts /\ file[t[1]] \in Records /\ file[t[1]] # Gone
         /\ file[t[1]].token = t[2] /\ t = TokenOf(t[1], file[t[1]])
<1>1. t[1] \in Accounts /\ t[2] \in 0 .. MaxTokens /\ t = <<t[1], t[2]>>
  BY TokenIs
<1>2. file[t[1]].token = t[2] /\ t[2] # -1
  BY <1>1, PoolAssumption DEF Listed
<1>3. file[t[1]] # Gone
  BY <1>2, GoneIs
<1>4. file[t[1]] \in Records
  BY <1>1, <1>3 DEF TypeOK, Views
<1> QED  BY <1>1, <1>2, <1>3, <1>4 DEF TokenOf

(* What a request knows of the account it has picked.                      *)
LEMMA HoldsRecord ==
  ASSUME TypeOK, PlacesMatch, NEW j \in Jobs, job[j].place \in SettingUp \cup {"leasing"}
  PROVE  /\ Account(j) \in Accounts /\ file \in Views /\ config \in Configs
         /\ job[j].picked \in Tokens
         /\ job[j].view \in Views /\ job[j].view[Account(j)] \in Records
<1>1. job[j].picked \in Tokens /\ job[j].view[Account(j)] # Gone
  BY DEF PlacesMatch, JobOK, SettingUp
<1>2. Account(j) \in Accounts
  BY <1>1, TokenIs DEF Account
<1> QED  BY <1>1, <1>2, JobFields, ViewTypes DEF TypeOK

LEMMA ReturnJob ==
  ASSUME TypeOK, PlacesMatch, NEW j \in Jobs, At(j, "ready") \/ At(j, "picking"), Return(j), UNCHANGED config
  PROVE  JobMoved(j) /\ JobOK(j)'
<1> USE DEF Becomes, Return
<1>0. job \in [Jobs -> JobRecords] /\ Shaped(job[j]) /\ Nothing \in Views /\ JobOK(j)
  BY JobFields, ViewTypes DEF TypeOK, JobRecords, Shaped, PlacesMatch
<1>1. job' = [job EXCEPT ![j] = job'[j]]
  BY <1>0
<1>2. Shaped(job'[j])
  BY <1>0 DEF Shaped
<1>3. FieldsOK(job'[j])
  BY <1>0, JobFields DEF Shaped, FieldsOK, Places
<1>4. job'[j].view \in Views
  BY <1>0, JobFields DEF Shaped
<1>5. JobOK(j)'
  BY <1>0, JobFields DEF Shaped, JobOK, At, Account, Bare, SettingUp
<1> QED  BY <1>0, <1>1, <1>2, <1>3, <1>4, <1>5, JobUpdate

LEMMA IdleJob ==
  ASSUME TypeOK, PlacesMatch, NEW j \in Jobs, NEW p \in {"ready", "canceled"},
         NEW e \in {"none", "soft", "hard"}, At(j, "leasing"), Idle(j, p, e), UNCHANGED config
  PROVE  JobMoved(j) /\ JobOK(j)'
<1> USE DEF Becomes, Idle
<1>0. job \in [Jobs -> JobRecords] /\ Shaped(job[j]) /\ Nothing \in Views /\ JobOK(j)
  BY JobFields, ViewTypes DEF TypeOK, JobRecords, Shaped, PlacesMatch
<1>1. job' = [job EXCEPT ![j] = job'[j]]
  BY <1>0
<1>2. Shaped(job'[j])
  BY <1>0 DEF Shaped
<1>3. FieldsOK(job'[j])
  BY <1>0, JobFields DEF Shaped, FieldsOK, Places
<1>4. job'[j].view \in Views
  BY <1>0, JobFields DEF Shaped
<1>5. JobOK(j)'
  BY <1>0, JobFields DEF Shaped, JobOK, At, Account, Bare, SettingUp
<1> QED  BY <1>0, <1>1, <1>2, <1>3, <1>4, <1>5, JobUpdate

LEMMA FailJob ==
  ASSUME TypeOK, PlacesMatch, NEW j \in Jobs, NEW t, NEW c, Fail(j, t, c),
         job[j].place \in {"setup", "rotating", "generating"}
  PROVE  JobMoved(j) /\ JobOK(j)'
<1> USE DEF Becomes, Fail, Fault
<1>0. job \in [Jobs -> JobRecords] /\ Shaped(job[j]) /\ Nothing \in Views /\ JobOK(j)
  BY JobFields, ViewTypes DEF TypeOK, JobRecords, Shaped, PlacesMatch
<1>1. job' = [job EXCEPT ![j] = job'[j]]
  BY <1>0
<1>2. Shaped(job'[j])
  BY <1>0 DEF Shaped
<1>3. FieldsOK(job'[j])
  BY <1>0, JobFields DEF Shaped, FieldsOK, Places
<1>4. job'[j].view \in Views
  BY <1>0, JobFields DEF Shaped
<1>5. JobOK(j)'
  BY <1>0, JobFields DEF Shaped, JobOK, At, Account, Bare, SettingUp
<1> QED  BY <1>0, <1>1, <1>2, <1>3, <1>4, <1>5, JobUpdate

LEMMA StartJob ==
  ASSUME TypeOK, PlacesMatch, NEW j \in Jobs, Start(j)
  PROVE  JobMoved(j) /\ JobOK(j)'
<1> USE DEF Becomes, Start
<1>0. job \in [Jobs -> JobRecords] /\ Shaped(job[j]) /\ Nothing \in Views /\ JobOK(j)
  BY JobFields, ViewTypes DEF TypeOK, JobRecords, Shaped, PlacesMatch
<1>1. job' = [job EXCEPT ![j] = job'[j]]
  BY <1>0
<1>2. Shaped(job'[j])
  BY <1>0 DEF Shaped
<1>3. FieldsOK(job'[j])
  BY <1>0, JobFields DEF Shaped, FieldsOK, Places
<1>4. job'[j].view \in Views
  BY <1>0, JobFields DEF Shaped
<1>5. JobOK(j)'
  BY <1>0, JobFields DEF Shaped, JobOK, At, Account, Bare, SettingUp
<1> QED  BY <1>0, <1>1, <1>2, <1>3, <1>4, <1>5, JobUpdate

LEMMA WaitTimesOutJob ==
  ASSUME TypeOK, PlacesMatch, NEW j \in Jobs, WaitTimesOut(j)
  PROVE  JobMoved(j) /\ JobOK(j)'
<1> USE DEF Becomes, WaitTimesOut
<1>0. job \in [Jobs -> JobRecords] /\ Shaped(job[j]) /\ Nothing \in Views /\ JobOK(j)
  BY JobFields, ViewTypes DEF TypeOK, JobRecords, Shaped, PlacesMatch
<1>1. job' = [job EXCEPT ![j] = job'[j]]
  BY <1>0
<1>2. Shaped(job'[j])
  BY <1>0 DEF Shaped
<1>3. FieldsOK(job'[j])
  BY <1>0, JobFields DEF Shaped, FieldsOK, Places
<1>4. job'[j].view \in Views
  BY <1>0, JobFields DEF Shaped
<1>5. JobOK(j)'
  BY <1>0, JobFields DEF Shaped, JobOK, At, Account, Bare, SettingUp
<1> QED  BY <1>0, <1>1, <1>2, <1>3, <1>4, <1>5, JobUpdate

LEMMA UploadJob ==
  ASSUME TypeOK, PlacesMatch, NEW j \in Jobs, Upload(j)
  PROVE  JobMoved(j) /\ JobOK(j)'
<1> USE DEF Becomes, Upload
<1>0. job \in [Jobs -> JobRecords] /\ Shaped(job[j]) /\ Nothing \in Views /\ JobOK(j)
  BY JobFields, ViewTypes DEF TypeOK, JobRecords, Shaped, PlacesMatch
<1>1. job' = [job EXCEPT ![j] = job'[j]]
  BY <1>0
<1>2. Shaped(job'[j])
  BY <1>0 DEF Shaped
<1>3. FieldsOK(job'[j])
  BY <1>0, JobFields DEF Shaped, FieldsOK, Places
<1>4. job'[j].view \in Views
  BY <1>0, JobFields DEF Shaped
<1>5. JobOK(j)'
  BY <1>0, JobFields DEF Shaped, JobOK, At, Account, Bare, SettingUp
<1> QED  BY <1>0, <1>1, <1>2, <1>3, <1>4, <1>5, JobUpdate

LEMMA GenerateJob ==
  ASSUME TypeOK, PlacesMatch, NEW j \in Jobs, Generate(j)
  PROVE  JobMoved(j) /\ JobOK(j)'
<1> USE DEF Becomes, Generate
<1>0. job \in [Jobs -> JobRecords] /\ Shaped(job[j]) /\ Nothing \in Views /\ JobOK(j)
  BY JobFields, ViewTypes DEF TypeOK, JobRecords, Shaped, PlacesMatch
<1>1. job' = [job EXCEPT ![j] = job'[j]]
  BY <1>0
<1>2. Shaped(job'[j])
  BY <1>0 DEF Shaped
<1>3. FieldsOK(job'[j])
  BY <1>0, JobFields DEF Shaped, FieldsOK, Places
<1>4. job'[j].view \in Views
  BY <1>0, JobFields DEF Shaped
<1>5. JobOK(j)'
  BY <1>0, JobFields DEF Shaped, JobOK, At, Account, Bare, SettingUp
<1> QED  BY <1>0, <1>1, <1>2, <1>3, <1>4, <1>5, JobUpdate

LEMMA ReleaseLeaseJob ==
  ASSUME TypeOK, PlacesMatch, NEW j \in Jobs, ReleaseLease(j)
  PROVE  JobMoved(j) /\ JobOK(j)'
<1> USE DEF Becomes, ReleaseLease
<1>0. job \in [Jobs -> JobRecords] /\ Shaped(job[j]) /\ Nothing \in Views /\ JobOK(j)
  BY JobFields, ViewTypes DEF TypeOK, JobRecords, Shaped, PlacesMatch
<1>1. job' = [job EXCEPT ![j] = job'[j]]
  BY <1>0
<1>2. Shaped(job'[j])
  BY <1>0 DEF Shaped
<1>3. FieldsOK(job'[j])
  BY <1>0, JobFields DEF Shaped, FieldsOK, Places
<1>4. job'[j].view \in Views
  BY <1>0, JobFields DEF Shaped
<1>5. JobOK(j)'
  BY <1>0, JobFields DEF Shaped, JobOK, At, Account, Bare, SettingUp
<1> QED  BY <1>0, <1>1, <1>2, <1>3, <1>4, <1>5, JobUpdate

LEMMA NextRouteJob ==
  ASSUME TypeOK, PlacesMatch, NEW j \in Jobs, NextRoute(j)
  PROVE  JobMoved(j) /\ JobOK(j)'
<1> USE DEF Becomes, NextRoute
<1>0. job \in [Jobs -> JobRecords] /\ Shaped(job[j]) /\ Nothing \in Views /\ JobOK(j)
  BY JobFields, ViewTypes DEF TypeOK, JobRecords, Shaped, PlacesMatch
<1>1. job' = [job EXCEPT ![j] = job'[j]]
  BY <1>0
<1>2. Shaped(job'[j])
  BY <1>0 DEF Shaped
<1>3. FieldsOK(job'[j])
  BY <1>0, JobFields DEF Shaped, FieldsOK, Places
<1>4. job'[j].view \in Views
  BY <1>0, JobFields DEF Shaped
<1>5. JobOK(j)'
  BY <1>0, JobFields DEF Shaped, JobOK, At, Account, Bare, SettingUp
<1> QED  BY <1>0, <1>1, <1>2, <1>3, <1>4, <1>5, JobUpdate

LEMMA AcquireLeaseJob ==
  ASSUME TypeOK, PlacesMatch, NEW j \in Jobs, AcquireLease(j)
  PROVE  JobMoved(j) /\ JobOK(j)'
<1> USE DEF Becomes, AcquireLease
<1>0. job \in [Jobs -> JobRecords] /\ Shaped(job[j]) /\ Nothing \in Views /\ JobOK(j)
  BY JobFields, ViewTypes DEF TypeOK, JobRecords, Shaped, PlacesMatch
<1>1. job' = [job EXCEPT ![j] = job'[j]]
  BY <1>0
<1>2. Shaped(job'[j])
  BY <1>0 DEF Shaped
<1>3. FieldsOK(job'[j])
  BY <1>0, JobFields DEF Shaped, FieldsOK, Places
<1>4. job'[j].view \in Views
  BY <1>0, JobFields DEF Shaped
<1>5. JobOK(j)'
  BY <1>0, JobFields DEF Shaped, JobOK, At, Account, Bare, SettingUp
<1> QED  BY <1>0, <1>1, <1>2, <1>3, <1>4, <1>5, JobUpdate

LEMMA ReleaseSelectedJob ==
  ASSUME TypeOK, PlacesMatch, NEW j \in Jobs, ReleaseSelected(j)
  PROVE  JobMoved(j) /\ JobOK(j)'
<1> USE DEF Becomes, ReleaseSelected
<1>0. job \in [Jobs -> JobRecords] /\ Shaped(job[j]) /\ Nothing \in Views /\ JobOK(j)
  BY JobFields, ViewTypes DEF TypeOK, JobRecords, Shaped, PlacesMatch
<1>1. job' = [job EXCEPT ![j] = job'[j]]
  BY <1>0
<1>2. Shaped(job'[j])
  BY <1>0 DEF Shaped
<1>3. FieldsOK(job'[j])
  BY <1>0, JobFields DEF Shaped, FieldsOK, Places
<1>4. job'[j].view \in Views
  BY <1>0, JobFields DEF Shaped
<1>5. JobOK(j)'
  BY <1>0, JobFields DEF Shaped, JobOK, At, Account, Bare, SettingUp
<1> QED  BY <1>0, <1>1, <1>2, <1>3, <1>4, <1>5, JobUpdate

LEMMA CancelJob ==
  ASSUME TypeOK, PlacesMatch, NEW j \in Jobs, Cancel(j)
  PROVE  JobMoved(j) /\ JobOK(j)'
<1> USE DEF Becomes, Cancel
<1>0. job \in [Jobs -> JobRecords] /\ Shaped(job[j]) /\ Nothing \in Views /\ JobOK(j)
  BY JobFields, ViewTypes DEF TypeOK, JobRecords, Shaped, PlacesMatch
<1>1. job' = [job EXCEPT ![j] = job'[j]]
  BY <1>0
<1>2. Shaped(job'[j])
  BY ZenonT(60), <1>0 DEF Shaped
<1>3. FieldsOK(job'[j])
  BY ZenonT(60), <1>0, JobFields DEF Shaped, FieldsOK, Places
<1>4. job'[j].view \in Views
  BY <1>0, JobFields DEF Shaped
<1>5. JobOK(j)'
  <2> USE DEF Shaped, JobOK, At, Account, Bare, SettingUp
  <2>1. CASE At(j, "ready") /\ job' = [job EXCEPT ![j].place = "canceled"]
    BY <1>0, <2>1, JobFields
  <2>2. CASE /\ job[j].place \in {"setup", "rotating", "waiting", "generating"}
             /\ Becomes(j, [job[j] EXCEPT !.place = "releasing", !.next = "canceled"])
    BY <1>0, <2>2, JobFields
  <2> QED  BY <2>1, <2>2
<1> QED  BY <1>0, <1>1, <1>2, <1>3, <1>4, <1>5, JobUpdate

LEMMA AliasJob ==
  ASSUME TypeOK, PlacesMatch, NEW j \in Jobs, Alias(j)
  PROVE  JobMoved(j) /\ JobOK(j)'
<1> USE DEF Becomes, Alias
<1>0. job \in [Jobs -> JobRecords] /\ Shaped(job[j]) /\ Nothing \in Views /\ JobOK(j)
  BY JobFields, ViewTypes DEF TypeOK, JobRecords, Shaped, PlacesMatch
<1>a. /\ Account(j) \in Accounts /\ file \in Views /\ config \in Configs
      /\ job[j].view \in Views /\ job[j].view[Account(j)] \in Records
  BY HoldsRecord DEF Alias, At, SettingUp
<1>b. \A r \in Records \cup {Gone} : [Nothing EXCEPT ![Account(j)] = r] \in Views
  BY <1>0, <1>a, ViewTypes
<1>c. file[Account(j)] \in Records \cup {Gone}
  BY <1>a, ViewTypes
<1>d. TokenOf(Account(j), job[j].view[Account(j)]) \in Tokens
  BY <1>a, TokenIs DEF TokenOf, Records
<1>1. job' = [job EXCEPT ![j] = job'[j]]
  BY <1>0
<1>2. Shaped(job'[j])
  BY <1>0 DEF Shaped
<1>3. FieldsOK(job'[j])
  BY <1>0, JobFields, <1>d DEF Shaped, FieldsOK, Places
<1>4. job'[j].view \in Views
  BY <1>0, JobFields DEF Shaped
<1>5. JobOK(j)'
  BY <1>0, JobFields, <1>d DEF Shaped, JobOK, At, Account, Bare, SettingUp
<1> QED  BY <1>0, <1>1, <1>2, <1>3, <1>4, <1>5, JobUpdate

LEMMA SetUpJob ==
  ASSUME TypeOK, PlacesMatch, NEW j \in Jobs, SetUp(j)
  PROVE  JobMoved(j) /\ JobOK(j)'
<1> USE DEF Becomes, SetUp
<1>0. job \in [Jobs -> JobRecords] /\ Shaped(job[j]) /\ Nothing \in Views /\ JobOK(j)
  BY JobFields, ViewTypes DEF TypeOK, JobRecords, Shaped, PlacesMatch
<1>a. /\ Account(j) \in Accounts /\ file \in Views /\ config \in Configs
      /\ job[j].view \in Views /\ job[j].view[Account(j)] \in Records
  BY HoldsRecord DEF SetUp, At, SettingUp
<1>b. \A r \in Records \cup {Gone} : [Nothing EXCEPT ![Account(j)] = r] \in Views
  BY <1>0, <1>a, ViewTypes
<1>c. file[Account(j)] \in Records \cup {Gone}
  BY <1>a, ViewTypes
<1>n. \A r : [Nothing EXCEPT ![Account(j)] = r][Account(j)] = r
  BY <1>a DEF Nothing
<1>l. Listed(job[j].picked) => file[Account(j)] # Gone
  BY HoldsRecord, ListedIs DEF SetUp, At, SettingUp, Account
<1>1. job' = [job EXCEPT ![j] = job'[j]]
  BY <1>0
<1>2. Shaped(job'[j])
  BY <1>0 DEF Shaped
<1>3. FieldsOK(job'[j])
  BY <1>0, JobFields DEF Shaped, FieldsOK, Places
<1>4. job'[j].view \in Views
  BY <1>0, JobFields, <1>a, <1>b, <1>c DEF Shaped
<1>5. JobOK(j)'
  <2>1. /\ job'[j].picked = job[j].picked /\ job'[j].token = job[j].token
        /\ job'[j].routes = job[j].routes /\ job'[j].used = job[j].used
        /\ job'[j].place \in {"aliasing", "waiting", "rotating"}
    BY <1>0 DEF Shaped
  <2>2. job'[j].view[Account(j)] # Gone
    BY <1>0, <1>a, <1>c, <1>n, GoneIs, <1>l DEF Shaped, At, TokenOf
  <2>3. job'[j].view[Account(j)'] # Gone
    BY <2>1, <2>2 DEF Account
  <2> QED  BY <1>0, <2>1, <2>3 DEF JobOK, At, Bare, SettingUp
<1> QED  BY <1>0, <1>1, <1>2, <1>3, <1>4, <1>5, JobUpdate

LEMMA WaitJob ==
  ASSUME TypeOK, PlacesMatch, NEW j \in Jobs, Wait(j)
  PROVE  JobMoved(j) /\ JobOK(j)'
<1> USE DEF Becomes, Wait
<1>0. job \in [Jobs -> JobRecords] /\ Shaped(job[j]) /\ Nothing \in Views /\ JobOK(j)
  BY JobFields, ViewTypes DEF TypeOK, JobRecords, Shaped, PlacesMatch
<1>a. /\ Account(j) \in Accounts /\ file \in Views /\ config \in Configs
      /\ job[j].view \in Views /\ job[j].view[Account(j)] \in Records
  BY HoldsRecord DEF Wait, At, SettingUp
<1>b. \A r \in Records \cup {Gone} : [Nothing EXCEPT ![Account(j)] = r] \in Views
  BY <1>0, <1>a, ViewTypes
<1>c. file[Account(j)] \in Records \cup {Gone}
  BY <1>a, ViewTypes
<1>n. \A r : [Nothing EXCEPT ![Account(j)] = r][Account(j)] = r
  BY <1>a DEF Nothing
<1>1. job' = [job EXCEPT ![j] = job'[j]]
  BY <1>0
<1>2. Shaped(job'[j])
  BY <1>0 DEF Shaped
<1>3. FieldsOK(job'[j])
  BY <1>0, JobFields DEF Shaped, FieldsOK, Places
<1>4. job'[j].view \in Views
  BY <1>0, JobFields, <1>a, <1>b, <1>c DEF Shaped
<1>5. JobOK(j)'
  <2>1. /\ job'[j].picked = job[j].picked /\ job'[j].token = job[j].token
        /\ job'[j].routes = job[j].routes /\ job'[j].used = job[j].used
        /\ job'[j].place \in {"aliasing"}
    BY <1>0 DEF Shaped
  <2>2. job'[j].view[Account(j)] # Gone
    BY <1>0, <1>a, <1>c, <1>n, GoneIs DEF Shaped, At, TokenOf
  <2>3. job'[j].view[Account(j)'] # Gone
    BY <2>1, <2>2 DEF Account
  <2> QED  BY <1>0, <2>1, <2>3 DEF JobOK, At, Bare, SettingUp
<1> QED  BY <1>0, <1>1, <1>2, <1>3, <1>4, <1>5, JobUpdate

LEMMA RotateJob ==
  ASSUME TypeOK, PlacesMatch, NEW j \in Jobs, Rotate(j)
  PROVE  JobMoved(j) /\ JobOK(j)'
<1> USE DEF Becomes, Rotate
<1>0. job \in [Jobs -> JobRecords] /\ Shaped(job[j]) /\ Nothing \in Views /\ JobOK(j)
  BY JobFields, ViewTypes DEF TypeOK, JobRecords, Shaped, PlacesMatch
<1>a. /\ Account(j) \in Accounts /\ file \in Views /\ config \in Configs
      /\ job[j].view \in Views /\ job[j].view[Account(j)] \in Records
  BY HoldsRecord DEF Rotate, At, SettingUp
<1>b. \A r \in Records \cup {Gone} : [Nothing EXCEPT ![Account(j)] = r] \in Views
  BY <1>0, <1>a, ViewTypes
<1>c. file[Account(j)] \in Records \cup {Gone}
  BY <1>a, ViewTypes
<1>d. file'[Account(j)] \in Records
  <2>1. minted[Account(j)] \in 0 .. MaxTokens /\ minted[Account(j)] < config.tokens
    BY <1>a DEF Rotate, Minted, TypeOK
  <2>2. minted[Account(j)] + 1 \in 0 .. MaxTokens
    BY SMTT(30), <1>a, <2>1, ConfigTypes
  <2>3. minted'[Account(j)] = minted[Account(j)] + 1
    BY <1>a DEF Rotate, Minted, TypeOK
  <2>4. file' = [file EXCEPT ![Account(j)] =
                   [job[j].view[Account(j)] EXCEPT !.token = minted'[Account(j)]]]
    BY DEF Rotate, Minted
  <2> QED  BY <1>a, <2>2, <2>3, <2>4, MintedRecord DEF Views
<1>n. \A r : [Nothing EXCEPT ![Account(j)] = r][Account(j)] = r
  BY <1>a DEF Nothing
<1>1. job' = [job EXCEPT ![j] = job'[j]]
  BY <1>0
<1>2. Shaped(job'[j])
  BY <1>0 DEF Shaped
<1>3. FieldsOK(job'[j])
  BY <1>0, JobFields DEF Shaped, FieldsOK, Places
<1>4. job'[j].view \in Views
  BY <1>0, JobFields, <1>b, <1>d DEF Shaped
<1>5. JobOK(j)'
  <2>1. /\ job'[j].picked = job[j].picked /\ job'[j].token = job[j].token
        /\ job'[j].routes = job[j].routes /\ job'[j].used = job[j].used
        /\ job'[j].place \in {"aliasing"}
    BY <1>0 DEF Shaped
  <2>2. job'[j].view[Account(j)] # Gone
    BY <1>0, <1>a, <1>c, <1>n, GoneIs, <1>d DEF Shaped, At, TokenOf
  <2>3. job'[j].view[Account(j)'] # Gone
    BY <2>1, <2>2 DEF Account
  <2> QED  BY <1>0, <2>1, <2>3 DEF JobOK, At, Bare, SettingUp
<1> QED  BY <1>0, <1>1, <1>2, <1>3, <1>4, <1>5, JobUpdate

LEMMA LoadAccountsJob ==
  ASSUME TypeOK, PlacesMatch, NEW j \in Jobs, LoadAccounts(j)
  PROVE  JobMoved(j) /\ JobOK(j)'
<1>0. At(j, "ready") /\ UNCHANGED config
  BY DEF LoadAccounts
<1>1. CASE Return(j)
  BY <1>0, <1>1, ReturnJob
<1>2. CASE /\ job[j].used < config.attempts
           /\ Becomes(j, [job[j] EXCEPT !.place = "picking", !.view = file])
  <2> USE DEF Becomes
  <2>1. job \in [Jobs -> JobRecords] /\ Shaped(job[j]) /\ file \in Views /\ JobOK(j)
    BY JobFields DEF TypeOK, JobRecords, Shaped, PlacesMatch
  <2>2. job' = [job EXCEPT ![j] = job'[j]]
    BY <1>2, <2>1
  <2>3. Shaped(job'[j])
    BY <1>2, <2>1 DEF Shaped
  <2>4. FieldsOK(job'[j])
    BY <1>2, <2>1, JobFields DEF Shaped, FieldsOK, Places
  <2>5. job'[j].view \in Views
    BY <1>2, <2>1 DEF Shaped
  <2>6. JobOK(j)'
    BY <1>0, <1>2, <2>1 DEF Shaped, JobOK, At, Bare, SettingUp
  <2> QED  BY <2>1, <2>2, <2>3, <2>4, <2>5, <2>6, JobUpdate
<1> QED  BY <1>1, <1>2 DEF LoadAccounts

LEMMA PickJob ==
  ASSUME TypeOK, PlacesMatch, NEW j \in Jobs, Pick(j)
  PROVE  JobMoved(j) /\ JobOK(j)'
<1>0. At(j, "picking") /\ UNCHANGED config
  BY DEF Pick
<1>1. CASE Return(j)
  BY <1>0, <1>1, ReturnJob
<1>2. ASSUME NEW a \in Accounts, Usable(j, a),
             LET r == job[j].view[a]
                 t == TokenOf(a, r)
             IN  Becomes(j, [job[j] EXCEPT !.place = "setup", !.picked = t,
                               !.view = [Nothing EXCEPT ![a] = r],
                               !.used = @ + 1, !.tried = @ \cup {t}, !.sent = 0])
      PROVE  JobMoved(j) /\ JobOK(j)'
  <2> DEFINE r == job[j].view[a]
             t == TokenOf(a, r)
  <2>1. job \in [Jobs -> JobRecords] /\ Shaped(job[j]) /\ r \in Records /\ JobOK(j)
    BY <1>2, JobFields, ViewTypes DEF TypeOK, JobRecords, Shaped, Usable, PlacesMatch
  <2>2. t \in Tokens /\ t[1] = a /\ [Nothing EXCEPT ![a] = r] \in Views
    BY <2>1, TokenIs, ViewTypes DEF TokenOf, Records, TypeOK
  <2>3. job[j].used + 1 \in 0 .. config.attempts
    <3>1. job[j].used < config.attempts
      BY <1>0, <2>1 DEF At, JobOK
    <3>2. job[j].used \in 0 .. config.attempts /\ config.attempts \in Nat
      BY JobFields, ConfigTypes DEF TypeOK
    <3> QED  BY <3>1, <3>2
  <2>0. job[j].used + 1 # 0
    BY JobFields
  <2> HIDE DEF r, t
  <2>4. job' = [job EXCEPT ![j] = job'[j]]
    BY <1>2, <2>1 DEF Becomes, r, t
  <2>5. Shaped(job'[j])
    BY <1>2, <2>1 DEF Becomes, Shaped, r, t
  <2>6. /\ job'[j].place = "setup" /\ job'[j].picked = t
        /\ job'[j].view = [Nothing EXCEPT ![a] = r] /\ job'[j].used = job[j].used + 1
        /\ job'[j].tried = job[j].tried \cup {t} /\ job'[j].sent = 0
        /\ job'[j].next = job[j].next /\ job'[j].routes = job[j].routes
        /\ job'[j].token = job[j].token /\ job'[j].err = job[j].err
    BY <1>2, <2>1 DEF Becomes, Shaped, r, t
  <2>7. FieldsOK(job'[j]) /\ job'[j].view \in Views
    BY <2>2, <2>3, <2>6, JobFields DEF FieldsOK, Places
  <2>8. job'[j].view[job'[j].picked[1]] # Gone
    BY <2>1, <2>2, <2>6, GoneIs DEF Nothing
  <2>9. JobOK(j)'
    BY <1>0, <2>0, <2>1, <2>2, <2>6, <2>8 DEF JobOK, At, Account, Bare, SettingUp
  <2> QED  BY <2>1, <2>4, <2>5, <2>7, <2>9, JobUpdate
<1> QED  BY <1>1, <1>2 DEF Pick

LEMMA FailsJob ==
  ASSUME TypeOK, PlacesMatch, NEW j \in Jobs, SetUpFails(j) \/ GenerateFails(j)
  PROVE  JobMoved(j) /\ JobOK(j)'
<1>1. \E t, c : Fail(j, t, c)
  BY DEF SetUpFails, GenerateFails
<1>2. job[j].place \in {"setup", "rotating", "generating"}
  BY DEF SetUpFails, GenerateFails, At
<1> QED  BY <1>1, <1>2, FailJob

LEMMA LeaseRefusedJob ==
  ASSUME TypeOK, PlacesMatch, NEW j \in Jobs, LeaseRefused(j)
  PROVE  JobMoved(j) /\ JobOK(j)'
<1>1. \E p \in {"ready", "canceled"}, e \in {"none", "soft", "hard"} : Idle(j, p, e)
  BY JobFields DEF LeaseRefused
<1>2. At(j, "leasing") /\ UNCHANGED config
  BY DEF LeaseRefused
<1> QED  BY <1>1, <1>2, IdleJob

LEMMA AttemptJob ==
  ASSUME TypeOK, PlacesMatch, NEW j \in Jobs, Attempt(j)
  PROVE  JobMoved(j) /\ JobOK(j)'
BY StartJob, LoadAccountsJob, PickJob, SetUpJob, RotateJob, WaitJob,
   WaitTimesOutJob, FailsJob, AliasJob, AcquireLeaseJob, LeaseRefusedJob,
   UploadJob, GenerateJob, CancelJob, ReleaseSelectedJob, ReleaseLeaseJob,
   NextRouteJob DEF Attempt

-----------------------------------------------------------------------------
(* What a step makes of a record of accounts.json: nothing, it removes it, *)
(* it changes it in place, or a refresh writes back an older copy.         *)
Known(a) ==
  /\ file[a] # Gone => file[a].uploads # Unknown
  /\ \A k \in Keepers :
       keeper[k].view[a] # Gone => keeper[k].view[a].uploads # Unknown
Uploaded(a) ==
  \E j \in Jobs :
    /\ Upload(j) /\ job[j].token[1] = a
    /\ file'[a].uploads = IF file[a].uploads > 0 THEN file[a].uploads - 1
                          ELSE file[a].uploads
Touched(a) ==
  /\ file[a] # Gone /\ file'[a] \in Records
  /\ file'[a].token = file[a].token
  /\ file[a].pending => file'[a].pending \/ Stale(a)
  /\ a \in overtaken' \/ file'[a].uploads = file[a].uploads \/ Uploaded(a)
  /\ Known(a) => file'[a].uploads # Unknown
Rewritten(a) ==
  \E v \in Records, n \in 0 .. MaxTokens :
    /\ file'[a] = [v EXCEPT !.token = n]
    /\ \/ \E j \in Jobs :
            Rotate(j) /\ a = Account(j) /\ v = job[j].view[a]
       \/ \E k \in Keepers :
            KeeperRotates(k) /\ a = Viewed(k) /\ v = keeper[k].view[a]
FileMoved ==
  /\ file' \in Views
  /\ \A a \in Accounts :
       file'[a] = file[a] \/ file'[a] = Gone \/ Touched(a) \/ Rewritten(a)

LEMMA SameFile == TypeOK /\ file' = file /\ config' = config => FileMoved
BY SameTypes DEF TypeOK, FileMoved

LEMMA OneRecord ==
  ASSUME TypeOK, NEW a \in Accounts, NEW r \in Records \cup {Gone},
         file' = [file EXCEPT ![a] = r],
         r = Gone \/ Rewritten(a) \/
           (/\ file[a] # Gone /\ r.token = file[a].token
            /\ file[a].pending => r.pending \/ Stale(a)
            /\ a \in overtaken' \/ r.uploads = file[a].uploads \/ Uploaded(a)
            /\ \/ file[a].uploads # Unknown => r.uploads # Unknown
               \/ Known(a) => r.uploads # Unknown)
  PROVE  FileMoved
<1>1. file' \in Views /\ file'[a] = r /\ \A b \in Accounts \ {a} : file'[b] = file[b]
  BY DEF TypeOK, Views
<1>2. r # Gone => r \in Records
  OBVIOUS
<1>3. file[a] # Gone /\ Known(a) => file[a].uploads # Unknown
  BY DEF Known
<1> QED  BY <1>1, <1>2, <1>3 DEF FileMoved, Touched

LEMMA MintsRecord ==
  ASSUME TypeOK, NEW a \in Accounts, NEW r \in Records, Minted(a, r)
  PROVE  /\ minted' \in [Accounts -> 0 .. MaxTokens]
         /\ minted'[a] \in 0 .. MaxTokens
         /\ file' = [file EXCEPT ![a] = [r EXCEPT !.token = minted'[a]]]
         /\ [r EXCEPT !.token = minted'[a]] \in Records
<1>1. minted[a] \in 0 .. MaxTokens /\ minted[a] < config.tokens
  BY DEF Minted, TypeOK
<1>2. minted[a] + 1 \in 0 .. MaxTokens
  BY SMTT(30), <1>1, ConfigTypes DEF TypeOK
<1>3. minted' = [minted EXCEPT ![a] = minted[a] + 1]
  BY DEF Minted
<1>4. /\ minted' \in [Accounts -> 0 .. MaxTokens]
      /\ minted'[a] \in 0 .. MaxTokens
  BY <1>2, <1>3 DEF TypeOK
<1> QED  BY <1>4, MintedRecord DEF Minted

LEMMA RotateFile ==
  ASSUME TypeOK, PlacesMatch, NEW j \in Jobs, Rotate(j)  PROVE FileMoved
<1> DEFINE a == Account(j)
           r == job[j].view[a]
<1>1. a \in Accounts /\ r \in Records /\ Minted(a, r)
  BY HoldsRecord DEF Rotate, At, SettingUp
<1>2. PICK n : n = minted'[a]
  OBVIOUS
<1>3. /\ n \in 0 .. MaxTokens /\ file' = [file EXCEPT ![a] = [r EXCEPT !.token = n]]
      /\ [r EXCEPT !.token = n] \in Records
  BY <1>1, <1>2, MintsRecord
<1>4. file'[a] = [r EXCEPT !.token = n]
  BY <1>1, <1>3 DEF TypeOK, Views
<1>5. Rewritten(a)
  BY <1>1, <1>3, <1>4 DEF Rewritten
<1> QED  BY <1>1, <1>3, <1>5, OneRecord

LEMMA KeeperRead ==
  ASSUME TypeOK, PlacesMatch, NEW k \in Keepers,
         keeper[k].place \in {"rotating", "asking"}
  PROVE  /\ Viewed(k) \in Accounts /\ keeper[k].view \in Views
         /\ keeper[k].view[Viewed(k)] \in Records
         /\ TokenOf(Viewed(k), keeper[k].view[Viewed(k)]) \in Tokens
         /\ TokenOf(Viewed(k), keeper[k].view[Viewed(k)])[1] = Viewed(k)
<1>1. keeper[k].view \in Views /\ config \in Configs
  BY DEF TypeOK
<1>2. Viewed(k) \in Accounts /\ keeper[k].view[Viewed(k)] # Gone
  BY KeeperViews DEF PlacesMatch
<1>3. keeper[k].view[Viewed(k)] \in Records
  BY <1>1, <1>2, ViewTypes
<1> QED  BY <1>1, <1>2, <1>3, TokenIs DEF TokenOf, Records

LEMMA KeeperRotatesFile ==
  ASSUME TypeOK, PlacesMatch, NEW k \in Keepers, KeeperRotates(k)  PROVE FileMoved
<1> DEFINE a == Viewed(k)
           r == keeper[k].view[a]
<1>1. a \in Accounts /\ r \in Records /\ Minted(a, r)
  BY KeeperRead DEF KeeperRotates
<1>2. PICK n : n = minted'[a]
  OBVIOUS
<1>3. /\ n \in 0 .. MaxTokens /\ file' = [file EXCEPT ![a] = [r EXCEPT !.token = n]]
      /\ [r EXCEPT !.token = n] \in Records
  BY <1>1, <1>2, MintsRecord
<1>4. file'[a] = [r EXCEPT !.token = n]
  BY <1>1, <1>3 DEF TypeOK, Views
<1>5. Rewritten(a)
  BY <1>1, <1>3, <1>4 DEF Rewritten
<1> QED  BY <1>1, <1>3, <1>5, OneRecord

LEMMA FailFile ==
  ASSUME TypeOK, NEW j \in Jobs, NEW t \in Tokens, NEW c, Fail(j, t, c)
  PROVE  FileMoved
<1>1. config' = config
  BY DEF Fail
<1>2. CASE file' = file
  BY <1>1, <1>2, SameFile
<1>3. CASE /\ Listed(t) /\ file' = [file EXCEPT ![t[1]] = Failed(file[t[1]], c)]
           /\ c = "upload_limited" => t[1] \in overtaken'
  BY <1>3, ListedIs, FailedRecord, OneRecord DEF TypeOK
<1>4. /\ file' = file \/ (Listed(t) /\ file' = [file EXCEPT ![t[1]] = Failed(@, c)])
      /\ file' = file \/ (c = "upload_limited" /\ Listed(t) => t[1] \in overtaken')
  BY DEF Fail
<1> QED  BY <1>2, <1>3, <1>4

LEMMA UploadFile ==
  ASSUME TypeOK, PlacesMatch, NEW j \in Jobs, Upload(j)  PROVE FileMoved
<1> DEFINE t == job[j].token
           a == t[1]
           n == IF file[a].uploads > 0 THEN file[a].uploads - 1 ELSE file[a].uploads
           r == [file[a] EXCEPT !.uploads = n]
<1>1. t \in Tokens /\ config' = config
  BY DEF Upload, At, PlacesMatch, JobOK
<1>2. CASE file' = file
  BY <1>1, <1>2, SameFile
<1>3. CASE Listed(t) /\ file' = [file EXCEPT ![a] = r]
  <2>1. a \in Accounts /\ file[a] \in Records /\ file[a] # Gone
    BY <1>1, <1>3, ListedIs
  <2>2. file[a].uploads \in {Unknown} \cup (0 .. config.uploads)
    BY <2>1 DEF Records
  <2>3. n \in {Unknown} \cup (0 .. config.uploads)
    <3>1. config.uploads \in Nat
      BY ConfigTypes DEF TypeOK
    <3> QED  BY <2>2, <3>1 DEF Unknown
  <2> HIDE DEF n
  <2>4. /\ r \in Records /\ r.token = file[a].token
        /\ r.pending = file[a].pending /\ r.uploads = n
        /\ file[a].uploads # Unknown => n # Unknown
    <3>1. file[a].uploads # Unknown => n # Unknown
      <4>1. file[a].uploads \in Int
        BY <2>2 DEF Unknown
      <4> QED  BY <4>1 DEF n, Unknown
    <3> QED  BY <2>1, <2>3, <3>1 DEF Records
  <2>5. file'[a].uploads = n
    BY <1>3, <2>1, <2>4 DEF TypeOK, Views
  <2>6. Uploaded(a)
    BY <2>5 DEF Uploaded, n
  <2> QED  BY <1>3, <2>1, <2>4, <2>6, OneRecord
<1>4. file' = file \/ (Listed(t) /\ file' = [file EXCEPT ![a] = r])
  BY DEF Upload
<1> QED  BY <1>2, <1>3, <1>4

LEMMA GenerateFile ==
  ASSUME TypeOK, PlacesMatch, NEW j \in Jobs, Generate(j)  PROVE FileMoved
<1> DEFINE t == job[j].token
<1>1. t \in Tokens /\ config' = config
  BY DEF Generate, At, PlacesMatch, JobOK
<1>2. CASE file' = file
  BY <1>1, <1>2, SameFile
<1>3. CASE Listed(t) /\ file' = [file EXCEPT ![t[1]] = Succeeded(@)]
  BY <1>1, <1>3, ListedIs, SucceededRecord, OneRecord DEF TypeOK
<1>4. file' = file \/ (Listed(t) /\ file' = [file EXCEPT ![t[1]] = Succeeded(@)])
  BY DEF Generate
<1> QED  BY <1>2, <1>3, <1>4

LEMMA AttemptFile ==
  ASSUME TypeOK, PlacesMatch, NEW j \in Jobs, Attempt(j)  PROVE FileMoved
<1>1. ASSUME SetUpFails(j) \/ GenerateFails(j)  PROVE FileMoved
  <2>1. \E t, c : t \in Tokens /\ Fail(j, t, c)
    BY <1>1 DEF SetUpFails, GenerateFails, At, PlacesMatch, JobOK, SettingUp
  <2> QED  BY <2>1, FailFile
<1>2. ASSUME file' = file /\ config' = config  PROVE FileMoved
  BY <1>2, SameFile
<1>3. \/ Rotate(j) \/ Upload(j) \/ Generate(j) \/ SetUpFails(j) \/ GenerateFails(j)
      \/ file' = file /\ config' = config
  BY DEF Attempt, Start, LoadAccounts, Pick, SetUp, Wait, WaitTimesOut, Alias,
         AcquireLease, LeaseRefused, Cancel, ReleaseSelected, ReleaseLease,
         NextRoute
<1> QED  BY <1>1, <1>2, <1>3, RotateFile, UploadFile, GenerateFile

LEMMA CleanUpFile ==
  ASSUME TypeOK, NEW x \in Actors, CleanUp(x)  PROVE FileMoved
<1> DEFINE t == sweep[x].token
<1>1. CASE file' = file /\ config' = config
  BY <1>1, SameFile
<1>2. CASE /\ t # None /\ Listed(t)
           /\ file' = [file EXCEPT ![t[1]] = IF sweep[x].active THEN Marked(@) ELSE Gone]
  <2>1. t \in Tokens
    BY <1>2 DEF TypeOK
  <2>2. t[1] \in Accounts /\ file[t[1]] \in Records /\ file[t[1]] # Gone
    BY <1>2, <2>1, ListedIs
  <2>3. CASE sweep[x].active
    <3>1. PICK r : r = Marked(file[t[1]])
      OBVIOUS
    <3>2. /\ r \in Records /\ r.token = file[t[1]].token /\ r.pending
          /\ r.uploads = file[t[1]].uploads
      BY <2>2, <3>1, InvalidRecord DEF TypeOK
    <3>3. file' = [file EXCEPT ![t[1]] = r]
      BY <1>2, <2>3, <3>1
    <3> QED  BY <2>2, <3>2, <3>3, OneRecord
  <2>4. CASE ~sweep[x].active
    BY <1>2, <2>2, <2>4, OneRecord
  <2> QED  BY <2>3, <2>4
<1> QED  BY <1>1, <1>2 DEF CleanUp, CheckActive, RemoveOrMark, EndSweep

LEMMA KeepFile ==
  ASSUME TypeOK, PlacesMatch, NEW k \in Keepers, Keep(k)  PROVE FileMoved
<1>1. CASE file' = file /\ config' = config
  BY <1>1, SameFile
<1>2. CASE Answer(k)
  <2> DEFINE a == Viewed(k)
             t == TokenOf(a, keeper[k].view[a])
  <2>1. t \in Tokens /\ t[1] = a /\ a \in Accounts
    BY <1>2, KeeperRead DEF Answer
  <2>2. CASE Listed(t) /\ overtaken' = overtaken \cup {a}
             /\ \E q \in Answers(config.images), u \in Answers(config.uploads) :
                  file' = [file EXCEPT ![a] = Merged(keeper[k].view[a], q, u)]
    <3>1. PICK q \in Answers(config.images), u \in Answers(config.uploads) :
            file' = [file EXCEPT ![a] = Merged(keeper[k].view[a], q, u)]
      BY <2>2
    <3>2. PICK r : r = Merged(keeper[k].view[a], q, u)
      OBVIOUS
    <3>3. keeper[k].view[a] \in Records /\ keeper[k].view[a] # Gone
      BY <1>2, KeeperRead, GoneIs DEF Answer
    <3>4. /\ r \in Records /\ r.token = keeper[k].view[a].token
          /\ r.pending = keeper[k].view[a].pending
      BY <3>2, <3>3, MergedRecord DEF TypeOK
    <3>5. file[a] # Gone /\ file[a].token = keeper[k].view[a].token
      BY <2>1, <2>2, ListedIs, <3>3, TokenIs DEF TokenOf, Records, Listed
    <3>6. /\ r.pending \/ Stale(a)
          /\ Known(a) => r.uploads # Unknown
      BY <3>2, <3>3, <3>4, MergedRecord DEF Stale, Known, TypeOK
    <3> QED  BY <2>1, <2>2, <3>1, <3>2, <3>4, <3>5, <3>6, OneRecord
  <2> QED  BY <1>1, <1>2, <2>2 DEF Answer
<1>3. CASE RefreshFails(k)
  <2> DEFINE a == Viewed(k)
             t == TokenOf(a, keeper[k].view[a])
  <2>1. t \in Tokens /\ t[1] = a /\ a \in Accounts
    BY <1>3, KeeperRead DEF RefreshFails
  <2>2. CASE Listed(t) /\ file' = [file EXCEPT ![a].unrefreshed = TRUE]
    <3>1. file[a] \in Records /\ file[a] # Gone
      BY <2>1, <2>2, ListedIs
    <3>2. PICK r : r = [file[a] EXCEPT !.unrefreshed = TRUE]
      OBVIOUS
    <3>3. /\ r \in Records /\ r.token = file[a].token
          /\ r.pending = file[a].pending /\ r.uploads = file[a].uploads
      BY <3>1, <3>2 DEF Records
    <3>4. file' = [file EXCEPT ![a] = r]
      BY <2>2, <3>2
    <3> QED  BY <2>1, <3>1, <3>3, <3>4, OneRecord
  <2> QED  BY <1>1, <1>3, <2>2 DEF RefreshFails
<1>4. CASE RefreshLimited(k)
  <2>1. PICK a \in Accounts, q \in Answers(config.images),
             u \in Answers(config.uploads) :
          /\ file[a] # Gone /\ file' = [file EXCEPT ![a] = Merged(@, q, u)]
          /\ overtaken' = overtaken \cup {a}
    BY <1>4 DEF RefreshLimited
  <2>2. file[a] \in Records
    BY <2>1, ViewTypes DEF TypeOK
  <2>3. PICK r : r = Merged(file[a], q, u)
    OBVIOUS
  <2>4. /\ r \in Records /\ r.token = file[a].token
        /\ r.pending = file[a].pending
        /\ file[a].uploads # Unknown => r.uploads # Unknown
    BY <2>2, <2>3, MergedRecord DEF TypeOK
  <2> QED  BY <2>1, <2>3, <2>4, OneRecord
<1> QED  BY <1>1, <1>2, <1>3, <1>4, KeeperRotatesFile
         DEF Keep, Watch, Refresh, Answer, RefreshFails

LEMMA WindowEndsFile ==
  ASSUME TypeOK, NEW a \in Accounts, WindowEnds(a)  PROVE FileMoved
<1>1. file[a] # Gone /\ file[a] \in Records /\ file' = [file EXCEPT ![a].status = "cooled"]
  BY ViewTypes DEF WindowEnds, TypeOK
<1>2. PICK r : r = [file[a] EXCEPT !.status = "cooled"]
  OBVIOUS
<1>3. /\ r \in Records /\ r.token = file[a].token
      /\ r.pending = file[a].pending /\ r.uploads = file[a].uploads
  BY <1>1, <1>2 DEF Records, Statuses
<1> QED  BY <1>1, <1>2, <1>3, OneRecord

LEMMA NextFile ==
  ASSUME TypeOK, PlacesMatch, Next  PROVE FileMoved
<1>1. ASSUME NEW l \in leases, Expire(l)  PROVE FileMoved
  BY <1>1, SameFile DEF Expire
<1> QED  BY <1>1, AttemptFile, CleanUpFile, KeepFile, WindowEndsFile DEF Next

-----------------------------------------------------------------------------
(* Which steps change what.                                                *)
LEMMA SameConfig == Next => config' = config
BY ZenonT(60) DEF Next, Attempt, CleanUp, Keep, Start, LoadAccounts, Pick, SetUp, Rotate,
       Wait, WaitTimesOut, SetUpFails, GenerateFails, Fail, Alias,
       AcquireLease, LeaseRefused, Upload, Generate, Cancel, ReleaseSelected,
       ReleaseLease, NextRoute, CheckActive, RemoveOrMark, EndSweep, Watch,
       Refresh, KeeperRotates, Answer, RefreshFails, RefreshLimited,
       WindowEnds, Expire

LEMMA PoolSteps ==
  Next => \/ inflight' = inflight /\ reserved' = reserved
          \/ \E j \in Jobs : \/ Pick(j) \/ Alias(j)
                             \/ ReleaseSelected(j) \/ LeaseRefused(j)
BY ZenonT(60) DEF pool, Next, Attempt, CleanUp, Keep, Start, LoadAccounts, SetUp, Rotate,
       Wait, WaitTimesOut, SetUpFails, GenerateFails, Fail,
       AcquireLease, Upload, Generate, Cancel,
       ReleaseLease, NextRoute, CheckActive, RemoveOrMark, EndSweep, Watch,
       Refresh, KeeperRotates, Answer, RefreshFails, RefreshLimited,
       WindowEnds, Expire

LEMMA LeaseSteps ==
  Next => \/ leases' = leases
          \/ \E j \in Jobs : AcquireLease(j) \/ LeaseRefused(j) \/ ReleaseLease(j)
          \/ \E l \in leases : Expire(l)
BY ZenonT(60) DEF Next, Attempt, CleanUp, Keep, Start, LoadAccounts, Pick, SetUp, Rotate,
       Wait, WaitTimesOut, SetUpFails, GenerateFails, Fail, Alias,
       Upload, Generate, Cancel, ReleaseSelected,
       NextRoute, CheckActive, RemoveOrMark, EndSweep, Watch,
       Refresh, KeeperRotates, Answer, RefreshFails, RefreshLimited,
       WindowEnds

LEMMA MintSteps ==
  Next => \/ minted' = minted
          \/ \E j \in Jobs : Rotate(j)
          \/ \E k \in Keepers : KeeperRotates(k)
BY ZenonT(60) DEF Next, Attempt, CleanUp, Keep, Start, LoadAccounts, Pick, SetUp,
       Wait, WaitTimesOut, SetUpFails, GenerateFails, Fail, Alias,
       AcquireLease, LeaseRefused, Upload, Generate, Cancel, ReleaseSelected,
       ReleaseLease, NextRoute, CheckActive, RemoveOrMark, EndSweep, Watch,
       Refresh, Answer, RefreshFails, RefreshLimited, WindowEnds, Expire

LEMMA RotatorSteps ==
  Next => \/ rotator' = rotator
          \/ \E j \in Jobs : SetUp(j)
          \/ \E j \in Jobs : rotator' = Unrotated(j)
BY ZenonT(60) DEF Next, Attempt, CleanUp, Keep, Start, LoadAccounts, Pick, Rotate,
       Wait, WaitTimesOut, SetUpFails, GenerateFails, Fail, Alias,
       AcquireLease, LeaseRefused, Upload, Generate, Cancel, ReleaseSelected,
       ReleaseLease, NextRoute, CheckActive, RemoveOrMark, EndSweep, Watch,
       Refresh, KeeperRotates, Answer, RefreshFails, RefreshLimited,
       WindowEnds, Expire

LEMMA JobSteps ==
  Next => \/ job' = job
          \/ \E j \in Jobs : Attempt(j)
          \/ \E x \in Jobs : EndSweep(x)
BY DEF Next, CleanUp, Keep, CheckActive, RemoveOrMark, EndSweep, Watch,
       Refresh, KeeperRotates, Answer, RefreshFails, RefreshLimited,
       WindowEnds, Expire

LEMMA KeeperSteps ==
  Next => \/ keeper' = keeper
          \/ \E k \in Keepers : Keep(k)
          \/ \E x \in Actors : EndSweep(x)
BY ZenonT(60) DEF Next, Attempt, CleanUp, Start, LoadAccounts, Pick, SetUp, Rotate,
       Wait, WaitTimesOut, SetUpFails, GenerateFails, Fail, Alias,
       AcquireLease, LeaseRefused, Upload, Generate, Cancel, ReleaseSelected,
       ReleaseLease, NextRoute, CheckActive, RemoveOrMark, WindowEnds, Expire

-----------------------------------------------------------------------------
(* The types of the other variables.                                       *)
LEMMA WeightIs ==
  ASSUME config \in Configs, NEW j \in Jobs
  PROVE  Weight(j) \in Nat /\ ProcOf[j] \in Procs
BY ConfigTypes DEF Weight, Actors

LEMMA MinusIs ==
  ASSUME NEW n \in Nat, NEW m \in Nat
  PROVE  Minus(n, m) \in Nat /\ (m <= n => Minus(n, m) = n - m)
BY DEF Minus

LEMMA ReleaseTypes ==
  ASSUME TypeOK, NEW j \in Jobs, Release(j)
  PROVE  /\ inflight' \in [Procs -> [Tokens -> Nat]]
         /\ reserved' \in [Procs -> [Tokens -> Nat]]
<1> DEFINE p == ProcOf[j]
<1>0. /\ Weight(j) \in Nat /\ p \in Procs
      /\ inflight[p] \in [Tokens -> Nat] /\ reserved[p] \in [Tokens -> Nat]
  BY WeightIs DEF TypeOK
<1>1. [t \in Tokens |-> Minus(inflight[p][t], IF t \in Selected(j) THEN 1 ELSE 0)]
        \in [Tokens -> Nat]
  BY <1>0, MinusIs
<1>2. inflight' = [inflight EXCEPT ![p] =
        [t \in Tokens |-> Minus(inflight[p][t], IF t \in Selected(j) THEN 1 ELSE 0)]]
  BY <1>0 DEF Release, TypeOK
<1>3. \A t \in Tokens : Minus(reserved[p][t], Weight(j)) \in Nat
  BY <1>0, MinusIs
<1>4. reserved' \in [Procs -> [Tokens -> Nat]]
  BY <1>0, <1>3 DEF Release, TypeOK
<1> QED  BY <1>0, <1>1, <1>2, <1>4 DEF TypeOK

LEMMA CounterSet ==
  ASSUME NEW f \in [Procs -> [Tokens -> Nat]], NEW p \in Procs,
         NEW t \in Tokens, NEW n \in Nat
  PROVE  LET g == [f EXCEPT ![p][t] = n]
         IN  /\ g \in [Procs -> [Tokens -> Nat]] /\ g[p][t] = n
             /\ \A q \in Procs, u \in Tokens :
                  q # p \/ u # t => g[q][u] = f[q][u]
OBVIOUS

(* The account that Pick takes.                                            *)
Takes(j, a) ==
  LET r == job[j].view[a]
      t == TokenOf(a, r)
  IN
  /\ Usable(j, a)
  /\ inflight' = [inflight EXCEPT ![ProcOf[j]][t] = @ + 1]
  /\ reserved' = [reserved EXCEPT ![ProcOf[j]][t] = @ + Weight(j)]
  /\ Becomes(j, [job[j] EXCEPT !.place = "setup", !.picked = t,
                   !.view = [Nothing EXCEPT ![a] = r],
                   !.used = @ + 1, !.tried = @ \cup {t}, !.sent = 0])
  /\ overtaken' = IF Weight(j) > 0 /\ ~UsePG /\ r # file[a]
                  THEN overtaken \cup {a} ELSE overtaken

LEMMA PickTakes ==
  ASSUME NEW j \in Jobs, Pick(j)
  PROVE  \/ \E a \in Accounts : Takes(j, a)
         \/ /\ Return(j) /\ inflight' = inflight /\ reserved' = reserved
            /\ overtaken' = overtaken
BY DEF Pick, Takes, pool

LEMMA TakesToken ==
  ASSUME TypeOK, NEW j \in Jobs, NEW a \in Accounts, Takes(j, a)
  PROVE  LET t == TokenOf(a, job[j].view[a]) IN
         /\ job[j].view[a] \in Records /\ t \in Tokens /\ t[1] = a
         /\ inflight' = [inflight EXCEPT ![ProcOf[j]][t] = inflight[ProcOf[j]][t] + 1]
         /\ reserved' = [reserved EXCEPT ![ProcOf[j]][t] =
                           reserved[ProcOf[j]][t] + Weight(j)]
<1>1. job[j].view[a] \in Records
  BY JobFields, ViewTypes DEF TypeOK, Takes, Usable
<1>2. LET t == TokenOf(a, job[j].view[a]) IN t \in Tokens /\ t[1] = a
  BY <1>1, TokenIs DEF TokenOf, Records
<1>3. ProcOf[j] \in Procs
  BY WeightIs DEF TypeOK
<1> QED  BY <1>1, <1>2, <1>3 DEF Takes, TypeOK

LEMMA PoolTypes ==
  ASSUME TypeOK, PlacesMatch, Next
  PROVE  /\ inflight' \in [Procs -> [Tokens -> Nat]]
         /\ reserved' \in [Procs -> [Tokens -> Nat]]
<1>1. CASE inflight' = inflight /\ reserved' = reserved
  BY <1>1 DEF TypeOK
<1>2. ASSUME NEW j \in Jobs, Pick(j)
      PROVE  /\ inflight' \in [Procs -> [Tokens -> Nat]]
             /\ reserved' \in [Procs -> [Tokens -> Nat]]
  <2>1. ASSUME NEW a \in Accounts, Takes(j, a)
        PROVE  /\ inflight' \in [Procs -> [Tokens -> Nat]]
               /\ reserved' \in [Procs -> [Tokens -> Nat]]
    <3>1. PICK t \in Tokens :
            /\ inflight' = [inflight EXCEPT ![ProcOf[j]][t] = inflight[ProcOf[j]][t] + 1]
            /\ reserved' = [reserved EXCEPT ![ProcOf[j]][t] =
                              reserved[ProcOf[j]][t] + Weight(j)]
      BY <2>1, TakesToken
    <3>2. /\ Weight(j) \in Nat /\ ProcOf[j] \in Procs
          /\ inflight \in [Procs -> [Tokens -> Nat]]
          /\ reserved \in [Procs -> [Tokens -> Nat]]
      BY WeightIs DEF TypeOK
    <3>3. inflight[ProcOf[j]][t] + 1 \in Nat /\ reserved[ProcOf[j]][t] + Weight(j) \in Nat
      BY <3>2
    <3> QED  BY <3>1, <3>2, <3>3, CounterSet
  <2> QED  BY <1>1, <1>2, <2>1, PickTakes
<1>3. ASSUME NEW j \in Jobs, Alias(j)
      PROVE  /\ inflight' \in [Procs -> [Tokens -> Nat]]
             /\ reserved' \in [Procs -> [Tokens -> Nat]]
  <2>1. /\ ProcOf[j] \in Procs /\ inflight \in [Procs -> [Tokens -> Nat]]
        /\ reserved \in [Procs -> [Tokens -> Nat]]
    BY WeightIs DEF TypeOK
  <2>2. PICK t, n : /\ inflight' = [inflight EXCEPT ![ProcOf[j]][t] = n]
                    /\ n = inflight[ProcOf[j]][t] \/ n = inflight[ProcOf[j]][t] + 1
    BY <1>3, <2>1 DEF Alias
  <2>3. reserved' = reserved
    BY <1>3 DEF Alias
  <2>4. CASE t \in Tokens
    <3>1. n \in Nat
      BY <2>1, <2>2, <2>4
    <3> QED  BY <2>1, <2>2, <2>3, <3>1
  <2>5. CASE t \notin Tokens
    BY <2>1, <2>2, <2>3, <2>5
  <2> QED  BY <2>4, <2>5
<1>4. ASSUME NEW j \in Jobs, ReleaseSelected(j) \/ LeaseRefused(j)
      PROVE  /\ inflight' \in [Procs -> [Tokens -> Nat]]
             /\ reserved' \in [Procs -> [Tokens -> Nat]]
  BY <1>4, ReleaseTypes DEF ReleaseSelected, LeaseRefused
<1> QED  BY <1>1, <1>2, <1>3, <1>4, PoolSteps

LEMMA LeaseIs ==
  ASSUME TypeOK, PlacesMatch, NEW j \in Jobs, At(j, "leasing")
  PROVE  LeaseOf(j) \in Leases
<1>1. job[j].used \in 0 .. config.attempts /\ job[j].token \in Tokens /\ Weight(j) \in Nat
  BY JobFields, WeightIs DEF TypeOK, PlacesMatch, JobOK, At
<1>2. job[j].used \in 1 .. config.attempts
  <2>1. job[j].used # 0
    BY DEF PlacesMatch, JobOK, At
  <2> QED  BY <1>1, <2>1
<1> QED  BY <1>1, <1>2 DEF LeaseOf, Leases

LEMMA LeaseTypes ==
  ASSUME TypeOK, PlacesMatch, Next
  PROVE  leases' \subseteq Leases
<1>1. ASSUME NEW j \in Jobs, AcquireLease(j) \/ LeaseRefused(j) \/ ReleaseLease(j)
      PROVE  leases' \subseteq leases \cup {LeaseOf(j)} /\ (leases' \subseteq leases \/ At(j, "leasing"))
  BY <1>1 DEF AcquireLease, LeaseRefused, ReleaseLease
<1>2. ASSUME NEW l \in leases, Expire(l)  PROVE leases' \subseteq leases
  BY <1>2 DEF Expire
<1>3. leases \subseteq Leases
  BY DEF TypeOK
<1> QED  BY <1>1, <1>2, <1>3, LeaseIs, LeaseSteps

LEMMA MintTypes ==
  ASSUME TypeOK, PlacesMatch, Next
  PROVE  minted' \in [Accounts -> 0 .. MaxTokens]
<1>1. ASSUME NEW j \in Jobs, Rotate(j)  PROVE minted' \in [Accounts -> 0 .. MaxTokens]
  <2>1. /\ Account(j) \in Accounts /\ job[j].view[Account(j)] \in Records
        /\ Minted(Account(j), job[j].view[Account(j)])
    BY <1>1, HoldsRecord DEF Rotate, At, SettingUp
  <2> QED  BY <2>1, MintsRecord
<1>2. ASSUME NEW k \in Keepers, KeeperRotates(k)
      PROVE  minted' \in [Accounts -> 0 .. MaxTokens]
  <2>1. /\ Viewed(k) \in Accounts /\ keeper[k].view[Viewed(k)] \in Records
        /\ Minted(Viewed(k), keeper[k].view[Viewed(k)])
    BY <1>2, KeeperRead DEF KeeperRotates
  <2> QED  BY <2>1, MintsRecord
<1>3. minted \in [Accounts -> 0 .. MaxTokens]
  BY DEF TypeOK
<1> QED  BY <1>1, <1>2, <1>3, MintSteps

LEMMA RotatorTypes ==
  ASSUME TypeOK, Next
  PROVE  rotator' \in [Accounts -> Jobs \cup {None}]
<1>1. rotator \in [Accounts -> Jobs \cup {None}]
  BY DEF TypeOK
<1> QED  BY <1>1, RotatorSteps DEF SetUp, Unrotated

LEMMA FaultSteps ==
  Next => faults' = faults \/ (faults < config.faults /\ faults' = faults + 1)
<1>1. ASSUME NEW j \in Jobs, Attempt(j)
      PROVE  faults' = faults \/ (faults < config.faults /\ faults' = faults + 1)
  <2>1. ASSUME NEW t, NEW c, Fail(j, t, c)
        PROVE  faults' = faults \/ (faults < config.faults /\ faults' = faults + 1)
    BY <2>1 DEF Fail, Fault
  <2> QED  BY <1>1, <2>1 DEF Fault, bounds, Attempt, Start, LoadAccounts,
         Pick, SetUp, Rotate, Wait, WaitTimesOut, SetUpFails, GenerateFails,
         Alias, AcquireLease, LeaseRefused, Upload, Generate, Cancel,
         ReleaseSelected, ReleaseLease, NextRoute
<1>2. ASSUME NEW x \in Actors, CleanUp(x)
      PROVE  faults' = faults \/ (faults < config.faults /\ faults' = faults + 1)
  BY <1>2 DEF Fault, bounds, CleanUp, CheckActive, RemoveOrMark, EndSweep
<1>3. ASSUME NEW k \in Keepers, Keep(k)
      PROVE  faults' = faults
  BY <1>3 DEF bounds, Keep, Watch, Refresh, KeeperRotates, Answer,
              RefreshFails, RefreshLimited
<1>4. ASSUME \/ \E a \in Accounts : WindowEnds(a)
             \/ \E l \in leases : Expire(l)
      PROVE  faults' = faults
  BY <1>4 DEF bounds, WindowEnds, Expire
<1> QED  BY <1>1, <1>2, <1>3, <1>4 DEF Next

LEMMA LapseStep ==
  Next => lapses' = lapses \/ (lapses < config.lapses /\ lapses' = lapses + 1)
BY ZenonT(60) DEF Fault, bounds, Next, Attempt, CleanUp, Keep, Start, LoadAccounts, Pick,
       SetUp, Rotate, Wait, WaitTimesOut, SetUpFails, GenerateFails, Fail,
       Alias, AcquireLease, LeaseRefused, Upload, Generate, Cancel,
       ReleaseSelected, ReleaseLease, NextRoute, CheckActive, RemoveOrMark,
       EndSweep, Watch, Refresh, KeeperRotates, Answer, RefreshFails,
       RefreshLimited, WindowEnds, Expire

LEMMA CountTypes ==
  ASSUME TypeOK, Next
  PROVE  /\ refreshes' \in 0 .. config.refreshes /\ faults' \in 0 .. config.faults
         /\ lapses' \in 0 .. config.lapses
<1>1. /\ refreshes \in 0 .. config.refreshes /\ faults \in 0 .. config.faults
      /\ lapses \in 0 .. config.lapses
  BY DEF TypeOK
<1>2. refreshes' = refreshes \/ (refreshes < config.refreshes /\ refreshes' = refreshes + 1)
  BY ZenonT(60) DEF Fault, bounds, Next, Attempt, CleanUp, Keep, Start, LoadAccounts, Pick,
       SetUp, Rotate, Wait, WaitTimesOut, SetUpFails, GenerateFails, Fail,
       Alias, AcquireLease, LeaseRefused, Upload, Generate, Cancel,
       ReleaseSelected, ReleaseLease, NextRoute, CheckActive, RemoveOrMark,
       EndSweep, Watch, Refresh, KeeperRotates, Answer, RefreshFails,
       RefreshLimited, WindowEnds, Expire
<1>5. faults' = faults \/ (faults < config.faults /\ faults' = faults + 1)
  BY FaultSteps
<1>6. lapses' = lapses \/ (lapses < config.lapses /\ lapses' = lapses + 1)
  BY LapseStep
<1>3. \A n \in Int : \A m \in 0 .. n : m < n => m + 1 \in 0 .. n
  OBVIOUS
<1>4. config.refreshes \in Int /\ config.faults \in Int /\ config.lapses \in Int
  BY ConfigTypes DEF TypeOK
<1> QED  BY <1>1, <1>2, <1>3, <1>4, <1>5, <1>6

(* The tokens that a clean-up looks at.                                    *)
LEMMA SweptTokens ==
  ASSUME NEW v \in Views, config \in Configs
  PROVE  \A a \in Accounts : v[a] # Gone => TokenOf(a, v[a]) \in Tokens
BY ViewTypes, TokenIs DEF TokenOf, Records

LEMMA SweepTypes ==
  ASSUME TypeOK, PlacesMatch, Next
  PROVE  sweep' \in [Actors -> [todo : SUBSET Tokens, token : Tokens \cup {None},
                                active : BOOLEAN]]
<1> DEFINE S == [todo : SUBSET Tokens, token : Tokens \cup {None}, active : BOOLEAN]
<1>0. /\ sweep \in [Actors -> S] /\ file \in Views /\ config \in Configs
      /\ Jobs \subseteq Actors /\ Keepers \subseteq Actors
  BY DEF TypeOK, Actors
<1>1. ASSUME NEW x \in Actors, NEW ts \in SUBSET Tokens,
             sweep' = [sweep EXCEPT ![x].todo = ts]
      PROVE  sweep' \in [Actors -> S]
  BY <1>0, <1>1
<1>2. ASSUME NEW x \in Actors, NEW s \in S, sweep' = [sweep EXCEPT ![x] = s]
      PROVE  sweep' \in [Actors -> S]
  BY <1>0, <1>2
<1>3. ASSUME NEW t \in Tokens, NEW x \in Jobs, NEW b \in BOOLEAN,
             sweep' = [sweep EXCEPT ![x].todo = IF b THEN {t} ELSE {}]
      PROVE  sweep' \in [Actors -> S]
  BY <1>0, <1>1, <1>3
<1>4. TokensWhere(Removable) \subseteq Tokens /\ TokensWhere(IsPending) \subseteq Tokens
  BY <1>0, SweptTokens DEF TokensWhere
<1>5. ASSUME NEW j \in Jobs, Attempt(j)  PROVE sweep' \in [Actors -> S]
  <2>1. CASE sweep' = sweep
    BY <1>0, <2>1
  <2>2. CASE Start(j) \/ ReleaseLease(j)
    BY <1>0, <1>1, <1>4, <2>2 DEF Start, ReleaseLease, BeginSweep
  <2>3. CASE SetUpFails(j) \/ GenerateFails(j)
    <3>1. PICK t \in Tokens : \E c : Fail(j, t, c)
      BY <2>3 DEF SetUpFails, GenerateFails, At, PlacesMatch, JobOK, SettingUp
    <3>2. \/ sweep' = sweep \/ sweep' = [sweep EXCEPT ![j].todo = {t}]
          \/ sweep' = [sweep EXCEPT ![j].todo = {}]
      BY <3>1 DEF Fail
    <3> QED  BY <1>0, <1>1, <3>2
  <2>4. CASE Generate(j)
    <3>1. \/ sweep' = sweep \/ sweep' = [sweep EXCEPT ![j].todo = {job[j].token}]
          \/ sweep' = [sweep EXCEPT ![j].todo = {}]
      BY <2>4 DEF Generate
    <3>2. job[j].token \in Tokens
      BY <2>4 DEF Generate, At, PlacesMatch, JobOK
    <3> QED  BY <1>0, <1>1, <3>1, <3>2
  <2> QED  BY <1>5, <2>1, <2>2, <2>3, <2>4 DEF Attempt, LoadAccounts, Pick, SetUp, Rotate,
         Wait, WaitTimesOut, Alias, AcquireLease, LeaseRefused, Upload,
         Cancel, ReleaseSelected, NextRoute
<1>6. ASSUME NEW x \in Actors, CleanUp(x)  PROVE sweep' \in [Actors -> S]
  <2>1. CASE sweep' = sweep
    BY <1>0, <2>1
  <2>2. CASE CheckActive(x)
    <3>1. PICK t \in sweep[x].todo : \E b :
            /\ b = Active(ProcOf[x], t)
            /\ sweep' = [sweep EXCEPT ![x] = [todo |-> sweep[x].todo \ {t}, token |-> t, active |-> b]]
      BY <1>0, <2>2 DEF CheckActive
    <3>2. PICK b \in BOOLEAN :
            sweep' = [sweep EXCEPT ![x] = [todo |-> sweep[x].todo \ {t}, token |-> t, active |-> b]]
      BY <3>1 DEF Active
    <3>3. t \in Tokens /\ sweep[x].todo \ {t} \in SUBSET Tokens
      BY <1>0
    <3>4. [todo |-> sweep[x].todo \ {t}, token |-> t, active |-> b] \in S
      BY <3>2, <3>3
    <3> QED  BY <1>2, <3>2, <3>4
  <2>3. CASE RemoveOrMark(x)
    BY <1>0, <2>3 DEF RemoveOrMark
  <2> QED  BY <1>6, <2>1, <2>2, <2>3 DEF CleanUp, EndSweep
<1>7. ASSUME NEW k \in Keepers, Keep(k)  PROVE sweep' \in [Actors -> S]
  <2>1. CASE sweep' = sweep
    BY <1>0, <2>1
  <2>2. CASE Watch(k)
    BY <1>0, <1>1, <1>4, <2>2 DEF Watch, BeginSweep
  <2>3. CASE SweepAfter(k) /\ config' = config
    <3>1. file' \in Views
      BY NextFile, <2>3, SameTypes DEF FileMoved
    <3>2. {TokenOf(a, file'[a]) : a \in {b \in Accounts : file'[b] # Gone /\ Removable(file'[b])}}
            \subseteq Tokens
      BY <1>0, <3>1, SweptTokens
    <3> QED  BY <1>0, <1>1, <2>3, <3>2 DEF SweepAfter
  <2> QED  BY <1>7, <2>1, <2>2, <2>3 DEF Keep, Refresh, KeeperRotates, Answer,
         RefreshFails, RefreshLimited
<1>8. ASSUME \/ \E a \in Accounts : WindowEnds(a)
             \/ \E l \in leases : Expire(l)
      PROVE  sweep' \in [Actors -> S]
  BY <1>0, <1>8 DEF WindowEnds, Expire
<1> QED  BY <1>5, <1>6, <1>7, <1>8 DEF Next

LEMMA OvertakenTypes ==
  ASSUME TypeOK, PlacesMatch, Next
  PROVE  overtaken' \subseteq Accounts
<1>0. overtaken \subseteq Accounts
  BY DEF TypeOK
<1>1. ASSUME NEW j \in Jobs, Attempt(j)  PROVE overtaken' \subseteq Accounts
  <2>1. CASE overtaken' = overtaken
    BY <1>0, <2>1
  <2>2. CASE Pick(j)
    BY <1>0, <2>2 DEF Pick
  <2>3. CASE AcquireLease(j)
    BY <1>0, <2>3, HoldsRecord DEF AcquireLease, At
  <2>4. CASE SetUpFails(j) \/ GenerateFails(j)
    <3>1. PICK t \in Tokens : \E c : Fail(j, t, c)
      BY <2>4 DEF SetUpFails, GenerateFails, At, PlacesMatch, JobOK, SettingUp
    <3> QED  BY <1>0, <3>1, TokenIs DEF Fail
  <2> QED  BY <1>1, <2>1, <2>2, <2>3, <2>4 DEF Attempt, Start, LoadAccounts, SetUp, Rotate,
         Wait, WaitTimesOut, Alias, LeaseRefused, Upload, Generate,
         Cancel, ReleaseSelected, ReleaseLease, NextRoute
<1>2. ASSUME NEW k \in Keepers, Keep(k)  PROVE overtaken' \subseteq Accounts
  BY <1>0, <1>2, KeeperRead DEF Keep, Watch, Refresh, KeeperRotates, Answer,
         RefreshFails, RefreshLimited
<1>3. ASSUME NEW x \in Actors, CleanUp(x)  PROVE overtaken' \subseteq Accounts
  BY <1>0, <1>3 DEF CleanUp, CheckActive, RemoveOrMark, EndSweep
<1>4. ASSUME \/ \E a \in Accounts : WindowEnds(a)
             \/ \E l \in leases : Expire(l)
      PROVE  overtaken' \subseteq Accounts
  BY <1>0, <1>4 DEF WindowEnds, Expire
<1> QED  BY <1>1, <1>2, <1>3, <1>4 DEF Next

-----------------------------------------------------------------------------
(* Keepers: what a refresh has read is one record.                         *)
KeeperStates == [place : {"idle", "rotating", "asking", "sweeping"}, view : Views]

LEMMA KeeperMoves ==
  ASSUME TypeOK, PlacesMatch, NEW k \in Keepers, Keep(k)
  PROVE  /\ \E s \in KeeperStates : keeper' = [keeper EXCEPT ![k] = s]
         /\ \/ keeper'[k].place \in {"idle", "sweeping"}
            \/ \E a \in Accounts, r \in Records :
                 /\ keeper'[k].view = [Nothing EXCEPT ![a] = r]
                 /\ keeper'[k].place = "rotating" => a \in Codex
<1>0. /\ keeper \in [Keepers -> KeeperStates] /\ config \in Configs
      /\ Nothing \in Views /\ file \in Views
  BY ViewTypes DEF TypeOK, KeeperStates
<1>1. CASE Watch(k)
  BY <1>0, <1>1 DEF Watch, KeeperStates
<1>2. CASE Refresh(k)
  <2>1. PICK a \in Accounts :
          /\ file[a] # Gone
          /\ keeper' = [keeper EXCEPT ![k] =
               [place |-> IF a \in Codex THEN "rotating" ELSE "asking",
                view |-> [Nothing EXCEPT ![a] = file[a]]]]
    BY <1>2 DEF Refresh
  <2>2. file[a] \in Records /\ [Nothing EXCEPT ![a] = file[a]] \in Views
    BY <1>0, <2>1, ViewTypes
  <2>3. PICK s : s = [place |-> IF a \in Codex THEN "rotating" ELSE "asking",
                      view |-> [Nothing EXCEPT ![a] = file[a]]]
    OBVIOUS
  <2>4. /\ s \in KeeperStates /\ s.view = [Nothing EXCEPT ![a] = file[a]]
        /\ s.place = "rotating" => a \in Codex
    BY <2>2, <2>3 DEF KeeperStates
  <2> QED  BY <1>0, <2>1, <2>2, <2>3, <2>4
<1>3. CASE KeeperRotates(k)
  <2> DEFINE a == Viewed(k)
             r == keeper[k].view[a]
  <2>1. a \in Accounts /\ r \in Records /\ Minted(a, r)
    BY <1>3, KeeperRead DEF KeeperRotates
  <2>2. PICK q : q = [r EXCEPT !.token = minted'[a]]
    OBVIOUS
  <2>3. q \in Records /\ file' = [file EXCEPT ![a] = q]
    BY <2>1, <2>2, MintsRecord
  <2>4. file'[a] = q
    BY <1>0, <2>1, <2>3 DEF Views
  <2>5. [Nothing EXCEPT ![a] = q] \in Views
    BY <1>0, <2>1, <2>3, ViewTypes
  <2>6. PICK s : s = [place |-> "asking", view |-> [Nothing EXCEPT ![a] = q]]
    OBVIOUS
  <2>7. /\ s \in KeeperStates /\ s.view = [Nothing EXCEPT ![a] = q]
        /\ s.place = "asking"
    BY <2>5, <2>6 DEF KeeperStates
  <2>8. keeper' = [keeper EXCEPT ![k] = s]
    BY <1>3, <2>4, <2>6 DEF KeeperRotates
  <2> QED  BY <1>0, <2>1, <2>3, <2>7, <2>8
<1>4. CASE SweepAfter(k)
  <2>1. [place |-> "sweeping", view |-> Nothing] \in KeeperStates
    BY <1>0 DEF KeeperStates
  <2>2. keeper' = [keeper EXCEPT ![k] = [place |-> "sweeping", view |-> Nothing]]
    BY <1>4 DEF SweepAfter
  <2> QED  BY <1>0, <2>1, <2>2
<1> QED  BY <1>1, <1>2, <1>3, <1>4 DEF Keep, Answer, RefreshFails, RefreshLimited

LEMMA KeeperStep ==
  ASSUME TypeOK, PlacesMatch, Next
  PROVE  /\ keeper' \in [Keepers -> KeeperStates]
         /\ \A k \in Keepers : KeeperOK(k)'
<1>0. /\ keeper \in [Keepers -> KeeperStates] /\ config \in Configs
      /\ config' = config /\ \A k \in Keepers : KeeperOK(k)
  BY SameConfig DEF TypeOK, KeeperStates, PlacesMatch
<1>1. ASSUME NEW k \in Keepers, keeper'[k] = keeper[k]  PROVE KeeperOK(k)'
  BY <1>0, <1>1 DEF KeeperOK
<1>2. CASE keeper' = keeper
  BY <1>0, <1>1, <1>2
<1>3. ASSUME NEW k \in Keepers, Keep(k)
      PROVE  /\ keeper' \in [Keepers -> KeeperStates]
             /\ \A i \in Keepers : KeeperOK(i)'
  <2>1. PICK s \in KeeperStates : keeper' = [keeper EXCEPT ![k] = s]
    BY <1>3, KeeperMoves
  <2>2. /\ keeper' \in [Keepers -> KeeperStates] /\ keeper'[k] = s
        /\ \A i \in Keepers \ {k} : keeper'[i] = keeper[i]
    BY <1>0, <2>1
  <2>3. ASSUME keeper'[k].place \in {"idle", "sweeping"}
        PROVE  KeeperOK(k)'
    BY <2>3 DEF KeeperOK
  <2>4. ASSUME \E a \in Accounts, r \in Records :
                 /\ keeper'[k].view = [Nothing EXCEPT ![a] = r]
                 /\ keeper'[k].place = "rotating" => a \in Codex
        PROVE  KeeperOK(k)'
    <3>1. PICK a \in Accounts, r \in Records :
               /\ keeper'[k].view = [Nothing EXCEPT ![a] = r]
               /\ keeper'[k].place = "rotating" => a \in Codex
      BY <2>4
    <3>2. /\ keeper'[k].view[a] = r /\ r # Gone
          /\ \A b \in Accounts \ {a} : keeper'[k].view[b] = Gone
      BY <3>1, GoneIs DEF Nothing
    <3> QED  BY <1>0, <3>1, <3>2 DEF KeeperOK, Codex
  <2>5. KeeperOK(k)'
    BY <1>3, <2>3, <2>4, KeeperMoves
  <2>6. \A i \in Keepers \ {k} : KeeperOK(i)'
    BY <1>1, <2>2
  <2> QED  BY <2>2, <2>5, <2>6
<1>4. ASSUME NEW x \in Actors, EndSweep(x), keeper' # keeper
      PROVE  /\ keeper' \in [Keepers -> KeeperStates]
             /\ \A i \in Keepers : KeeperOK(i)'
  <2>1. keeper' = [keeper EXCEPT ![x].place = "idle"] /\ x \in Keepers
    BY <1>4, PoolAssumption DEF EndSweep, Actors
  <2>2. /\ keeper' \in [Keepers -> KeeperStates] /\ keeper'[x].place = "idle"
        /\ \A i \in Keepers \ {x} : keeper'[i] = keeper[i]
    BY <1>0, <2>1 DEF KeeperStates
  <2>3. KeeperOK(x)'
    BY <2>2 DEF KeeperOK
  <2> QED  BY <1>1, <2>2, <2>3
<1> QED  BY <1>2, <1>3, <1>4, KeeperSteps

-----------------------------------------------------------------------------
(* The requests.                                                           *)
LEMMA EndSweepJob ==
  ASSUME TypeOK, PlacesMatch, NEW j \in Jobs, EndSweep(j)
  PROVE  JobMoved(j) /\ JobOK(j)'
<1>0. /\ job \in [Jobs -> JobRecords] /\ Shaped(job[j]) /\ JobOK(j)
      /\ job[j].place \in {"sweeping", "marking"} /\ config' = config
      /\ job' = [job EXCEPT ![j].place =
                   IF @ = "marking" THEN "releasing" ELSE job[j].next]
  BY JobFields, PoolAssumption DEF TypeOK, JobRecords, Shaped, PlacesMatch,
     EndSweep, Sweeping
<1>1. job' = [job EXCEPT ![j] = job'[j]]
  BY <1>0
<1>2. Shaped(job'[j])
  BY <1>0 DEF Shaped
<1>3. FieldsOK(job'[j])
  BY <1>0, JobFields DEF Shaped, FieldsOK, Places
<1>4. job'[j].view \in Views
  BY <1>0, JobFields DEF Shaped
<1>5. JobOK(j)'
  <2>1. CASE job[j].place = "marking"
    BY <1>0, <2>1 DEF Shaped, JobOK, Account, Bare, SettingUp
  <2>2. CASE job[j].place = "sweeping"
    BY <1>0, <2>2 DEF Shaped, JobOK, Account, Bare, SettingUp
  <2> QED  BY <1>0, <2>1, <2>2
<1> QED  BY <1>0, <1>1, <1>2, <1>3, <1>4, <1>5, JobUpdate

LEMMA JobStep ==
  ASSUME TypeOK, PlacesMatch, Next
  PROVE  /\ job' \in [Jobs -> JobRecords] /\ \A j \in Jobs : JobOK(j)'
         /\ job' = job \/ \E j \in Jobs : JobMoved(j)
<1>0. config' = config /\ \A j \in Jobs : JobOK(j)
  BY SameConfig DEF PlacesMatch
<1>1. ASSUME NEW j \in Jobs, job'[j] = job[j]  PROVE JobOK(j)'
  BY <1>0, <1>1 DEF JobOK, Account
<1>2. CASE job' = job
  BY <1>1, <1>2 DEF TypeOK
<1>3. ASSUME NEW j \in Jobs, JobMoved(j), JobOK(j)'
      PROVE  /\ job' \in [Jobs -> JobRecords] /\ \A i \in Jobs : JobOK(i)'
  BY <1>1, <1>3 DEF JobMoved
<1> QED  BY <1>2, <1>3, AttemptJob, EndSweepJob, JobSteps

LEMMA TypesStay ==
  ASSUME TypeOK, PlacesMatch, [Next]_vars
  PROVE  TypeOK' /\ PlacesMatch'
<1>1. CASE Next
  <2>1. config \in Configs /\ config' = config
    BY <1>1, SameConfig DEF TypeOK
  <2>2. file' \in Views
    BY <1>1, NextFile DEF FileMoved
  <2>3. job' \in [Jobs -> JobRecords] /\ \A j \in Jobs : JobOK(j)'
    BY <1>1, JobStep
  <2>4. /\ keeper' \in [Keepers -> KeeperStates]
        /\ \A k \in Keepers : KeeperOK(k)'
    BY <1>1, KeeperStep
  <2> QED  BY <1>1, <2>1, <2>2, <2>3, <2>4, PoolTypes, LeaseTypes, MintTypes,
              RotatorTypes, CountTypes, SweepTypes, OvertakenTypes, SameTypes
           DEF TypeOK, PlacesMatch, KeeperStates
<1>2. CASE UNCHANGED vars
  BY <1>2, SameTypes
  DEF vars, pool, bounds, TypeOK, PlacesMatch, JobOK, KeeperOK, Account
<1> QED  BY <1>1, <1>2

(* The variables keep their types, and at every place of the attempt loop  *)
(* (generateImageWithPoolScopedRoutes) a request holds what that place     *)
(* says: a token once one is picked, none once it is released.             *)
THEOREM PoolTypesHold == Spec => [](TypeOK /\ PlacesMatch)
<1>1. Init => TypeOK /\ PlacesMatch
  BY InitTypes
<1>2. (TypeOK /\ PlacesMatch) /\ [Next]_vars => (TypeOK /\ PlacesMatch)'
  BY TypesStay
<1> QED  BY <1>1, <1>2, PTL DEF Spec
-----------------------------------------------------------------------------
(* Marks of removal.                                                       *)
LEMMA MarksStay ==
  ASSUME TypeOK, PlacesMatch, Next, NEW a \in Accounts
  PROVE  MarkKept(a)
<1> SUFFICES ASSUME file[a] # Gone, file[a].pending, file'[a] # Gone
             PROVE  file'[a].pending \/ Stale(a)
  BY DEF MarkKept
<1>1. CASE file'[a] = file[a] \/ Touched(a)
  BY <1>1 DEF Touched
<1>2. ASSUME NEW v \in Records, NEW n \in 0 .. MaxTokens,
             file'[a] = [v EXCEPT !.token = n],
             \/ \E j \in Jobs :
                  Rotate(j) /\ a = Account(j) /\ v = job[j].view[a]
             \/ \E k \in Keepers :
                  KeeperRotates(k) /\ a = Viewed(k) /\ v = keeper[k].view[a]
      PROVE  file'[a].pending \/ Stale(a)
  <2>1. file'[a].pending = v.pending /\ v # Gone
    BY <1>2, GoneIs DEF Records
  <2>2. v.pending \/ Stale(a)
    BY <1>2, <2>1 DEF Stale, Rotate
  <2> QED  BY <2>1, <2>2
<1> QED  BY <1>1, <1>2, NextFile DEF FileMoved, Rewritten

(* A record marked for removal (removeOrMarkImageAccount) loses its mark   *)
(* only to a refresh or a rotation that read it before the mark.           *)
THEOREM MarksKept == Spec => MarkLostOnlyToStaleView
<1>1. TypeOK /\ PlacesMatch /\ [Next]_vars => [\A a \in Accounts : MarkKept(a)]_file
  BY MarksStay DEF vars
<1> QED  BY <1>1, PoolTypesHold, PTL DEF Spec, MarkLostOnlyToStaleView

-----------------------------------------------------------------------------
(* Sums, counted one by one.                                               *)
Block(x, k) == {x} \X (1 .. k)

LEMMA BlockCount ==
  ASSUME NEW x, NEW k \in Nat
  PROVE  IsFiniteSet(Block(x, k)) /\ Cardinality(Block(x, k)) = k
<1>1. IsFiniteSet(1 .. k) /\ Cardinality(1 .. k) = k
  <2>1. 1 \in Int /\ k \in Int
    OBVIOUS
  <2>2. IsFiniteSet(1 .. k) /\ Cardinality(1 .. k) = IF 1 > k THEN 0 ELSE k - 1 + 1
    BY <2>1, FS_Interval, Zenon
  <2>3. (IF 1 > k THEN 0 ELSE k - 1 + 1) = k
    OBVIOUS
  <2> QED  BY <2>2, <2>3
<1>2. IsFiniteSet({x}) /\ Cardinality({x}) = 1
  BY FS_Singleton
<1>3. /\ IsFiniteSet({x} \X (1 .. k))
      /\ Cardinality({x} \X (1 .. k)) = Cardinality({x}) * Cardinality(1 .. k)
  BY <1>1, <1>2, FS_Product, Zenon
<1> QED  BY <1>1, <1>2, <1>3 DEF Block

LEMMA UnitsFinite ==
  ASSUME NEW S, IsFiniteSet(S), NEW n, \A x \in S : n[x] \in Nat
  PROVE  IsFiniteSet(Units(S, n)) /\ Cardinality(Units(S, n)) \in Nat
<1> DEFINE T == {Block(x, n[x]) : x \in S}
           f == [x \in S |-> Block(x, n[x])]
<1>1. f \in Surjection(S, T)
  BY DEF Surjection
<1>2. IsFiniteSet(T)
  BY <1>1, FS_Surjection
<1>3. \A B \in T : IsFiniteSet(B)
  BY BlockCount
<1>4. IsFiniteSet(UNION T)
  BY <1>2, <1>3, FS_UNION
<1>5. Units(S, n) = UNION T
  BY DEF Units, Block
<1> QED  BY <1>4, <1>5, FS_CardinalityType

LEMMA UnitsSame ==
  ASSUME NEW S, NEW n, NEW m, \A x \in S : n[x] = m[x]
  PROVE  Units(S, n) = Units(S, m)
BY DEF Units

LEMMA UnitsMost ==
  ASSUME NEW S, NEW T, IsFiniteSet(T), S \subseteq T, NEW n, NEW m,
         \A x \in T : m[x] \in Nat, \A x \in S : n[x] \in Nat /\ n[x] <= m[x]
  PROVE  Cardinality(Units(S, n)) <= Cardinality(Units(T, m))
<1>1. IsFiniteSet(Units(T, m))
  BY UnitsFinite
<1>2. ASSUME NEW p, p \in Units(S, n)  PROVE p \in Units(T, m)
  <2>1. PICK x \in S : p \in {x} \X (1 .. n[x])
    BY <1>2 DEF Units
  <2>2. p \in {x} \X (1 .. m[x])
    BY <2>1
  <2> QED  BY <2>2 DEF Units
<1>3. Units(S, n) \in SUBSET Units(T, m)
  BY <1>2
<1> QED  BY <1>1, <1>3, FS_Subset

LEMMA UnitsAdd ==
  ASSUME NEW S, IsFiniteSet(S), NEW x, x \notin S, NEW n,
         \A y \in S \cup {x} : n[y] \in Nat
  PROVE  Cardinality(Units(S \cup {x}, n)) = Cardinality(Units(S, n)) + n[x]
<1>1. IsFiniteSet(Units(S, n)) /\ Cardinality(Units(S, n)) \in Nat
  BY UnitsFinite
<1>2. IsFiniteSet(Block(x, n[x])) /\ Cardinality(Block(x, n[x])) = n[x]
  BY BlockCount
<1>3. Units(S \cup {x}, n) = Units(S, n) \cup Block(x, n[x])
  BY DEF Units, Block
<1>4. Units(S, n) \cap Block(x, n[x]) = {}
  BY DEF Units, Block
<1>5. Cardinality(Units(S, n) \cup Block(x, n[x])) =
        Cardinality(Units(S, n)) + Cardinality(Block(x, n[x]))
          - Cardinality(Units(S, n) \cap Block(x, n[x]))
  BY <1>1, <1>2, FS_Union
<1>6. Cardinality(Units(S, n) \cap Block(x, n[x])) = 0
  BY <1>4, FS_EmptySet
<1>7. n[x] \in Nat
  OBVIOUS
<1>8. \A c, k \in Nat : c + k - 0 = c + k
  OBVIOUS
<1> QED  BY <1>1, <1>2, <1>3, <1>5, <1>6, <1>7, <1>8

LEMMA UnitsDrop ==
  ASSUME NEW S, IsFiniteSet(S), NEW x \in S, NEW n, \A y \in S : n[y] \in Nat
  PROVE  Cardinality(Units(S \ {x}, n)) = Cardinality(Units(S, n)) - n[x]
<1>1. IsFiniteSet(S \ {x}) /\ x \notin S \ {x} /\ (S \ {x}) \cup {x} = S
  BY FS_RemoveElement
<1>2. Cardinality(Units((S \ {x}) \cup {x}, n)) = Cardinality(Units(S \ {x}, n)) + n[x]
  BY <1>1, UnitsAdd
<1>3. Cardinality(Units(S \ {x}, n)) \in Nat
  BY <1>1, UnitsFinite
<1>4. n[x] \in Nat
  OBVIOUS
<1>5. \A c, k \in Nat : c + k - k = c
  OBVIOUS
<1> QED  BY <1>1, <1>2, <1>3, <1>4, <1>5

-----------------------------------------------------------------------------
(* What a request holds after a step.                                      *)
Quiet(j) ==
  /\ job'[j].picked = job[j].picked /\ job'[j].token = job[j].token
  /\ job'[j].used = job[j].used /\ job'[j].sent = job[j].sent
  /\ job'[j].routes # job[j].routes =>
       job[j].place = "returned" /\ job'[j].place = "start"
  /\ job'[j].place \notin {"generating", "leasing"}
  /\ job[j].place \in Working => job'[j].place \in Working
  /\ job'[j].place \in Working => job[j].place \in Working \cup SettingUp
  /\ job'[j].place \in SettingUp => job[j].place \in SettingUp

LEMMA FailBecomes ==
  ASSUME NEW j \in Jobs, NEW t, NEW c, Fail(j, t, c)
  PROVE  \E p \in {"marking", "releasing"} : \E e, n :
           Becomes(j, [job[j] EXCEPT !.place = p, !.err = e, !.next = n])
BY DEF Fail

LEMMA BareQuiet ==
  ASSUME TypeOK, PlacesMatch, NEW j \in Jobs,
         \/ Start(j) \/ LoadAccounts(j) \/ NextRoute(j)
         \/ At(j, "picking") /\ Return(j)
  PROVE  Quiet(j)
<1>0. job \in [Jobs -> JobRecords] /\ Shaped(job[j])
  BY JobFields DEF TypeOK, JobRecords, Shaped
<1> USE DEF Quiet, Shaped, At, Becomes, Working, SettingUp
<1>1. CASE Start(j)
  BY <1>0, <1>1 DEF Start
<1>2. CASE LoadAccounts(j)
  <2>1. CASE At(j, "ready") /\ Return(j)
    BY <1>0, <2>1 DEF Return
  <2>2. CASE At(j, "ready") /\ Becomes(j, [job[j] EXCEPT !.place = "picking", !.view = file])
    BY <1>0, <2>2
  <2> QED  BY <1>2, <2>1, <2>2 DEF LoadAccounts
<1>3. CASE NextRoute(j)
  BY <1>0, <1>3 DEF NextRoute
<1>4. CASE At(j, "picking") /\ Return(j)
  BY <1>0, <1>4 DEF Return
<1> QED  BY <1>1, <1>2, <1>3, <1>4

LEMMA SettingUpQuiet ==
  ASSUME TypeOK, PlacesMatch, NEW j \in Jobs,
         SetUp(j) \/ Rotate(j) \/ Wait(j) \/ WaitTimesOut(j) \/ SetUpFails(j)
  PROVE  Quiet(j)
<1>0. job \in [Jobs -> JobRecords] /\ Shaped(job[j])
  BY JobFields DEF TypeOK, JobRecords, Shaped
<1> USE DEF Quiet, Shaped, At, Becomes, Working, SettingUp
<1>1. CASE SetUp(j)
  BY <1>0, <1>1 DEF SetUp
<1>2. CASE Rotate(j)
  BY <1>0, <1>2 DEF Rotate
<1>3. CASE Wait(j)
  BY <1>0, <1>3 DEF Wait
<1>4. CASE WaitTimesOut(j)
  BY <1>0, <1>4 DEF WaitTimesOut
<1>5. CASE SetUpFails(j)
  <2>1. PICK p \in {"marking", "releasing"} : \E e, n :
          Becomes(j, [job[j] EXCEPT !.place = p, !.err = e, !.next = n])
    BY <1>5, FailBecomes DEF SetUpFails
  <2>2. job[j].place \in {"setup", "rotating"}
    BY <1>5 DEF SetUpFails
  <2> QED  BY <1>0, <2>1, <2>2
<1> QED  BY <1>1, <1>2, <1>3, <1>4, <1>5

LEMMA WorkingQuiet ==
  ASSUME TypeOK, PlacesMatch, NEW j \in Jobs,
         Generate(j) \/ GenerateFails(j) \/ Cancel(j) \/ EndSweep(j)
  PROVE  Quiet(j)
<1>0. job \in [Jobs -> JobRecords] /\ Shaped(job[j])
  BY JobFields DEF TypeOK, JobRecords, Shaped
<1> USE DEF Quiet, Shaped, At, Becomes, Working, SettingUp
<1>1. CASE Generate(j)
  BY <1>0, <1>1 DEF Generate
<1>2. CASE GenerateFails(j)
  <2>1. PICK p \in {"marking", "releasing"} : \E e, n :
          Becomes(j, [job[j] EXCEPT !.place = p, !.err = e, !.next = n])
    BY <1>2, FailBecomes DEF GenerateFails
  <2>2. job[j].place = "generating"
    BY <1>2 DEF GenerateFails
  <2> QED  BY <1>0, <2>1, <2>2
<1>3. CASE Cancel(j)
  <2>1. CASE At(j, "ready") /\ job' = [job EXCEPT ![j].place = "canceled"]
    BY <1>0, <2>1
  <2>2. CASE /\ job[j].place \in {"setup", "rotating", "waiting", "generating"}
             /\ Becomes(j, [job[j] EXCEPT !.place = "releasing", !.next = "canceled"])
    BY <1>0, <2>2
  <2> QED  BY <1>3, <2>1, <2>2 DEF Cancel
<1>4. CASE EndSweep(j)
  <2>1. /\ job[j].place \in {"sweeping", "marking"}
        /\ job' = [job EXCEPT ![j].place =
                     IF @ = "marking" THEN "releasing" ELSE job[j].next]
        /\ job[j].next \in {"ready", "returned", "images", "canceled"}
    BY <1>4, PoolAssumption DEF EndSweep, Sweeping, PlacesMatch, JobOK
  <2>2. CASE job[j].place = "sweeping"
    BY <1>0, <2>1, <2>2
  <2>3. CASE job[j].place = "marking"
    BY <1>0, <2>1, <2>3
  <2> QED  BY <2>1, <2>2, <2>3
<1> QED  BY <1>1, <1>2, <1>3, <1>4

(* The steps of a request that change what it holds.                       *)
Marks(j) == \/ Alias(j) \/ AcquireLease(j) \/ LeaseRefused(j) \/ Upload(j)
            \/ ReleaseSelected(j) \/ ReleaseLease(j)
            \/ /\ At(j, "picking") /\ \E a \in Accounts : Takes(j, a)
               /\ leases' = leases /\ faults' = faults /\ lapses' = lapses

Same == inflight' = inflight /\ reserved' = reserved /\ leases' = leases

LEMMA AttemptSteps ==
  ASSUME TypeOK, PlacesMatch, NEW j \in Jobs, Attempt(j)
  PROVE  (Quiet(j) /\ Same) \/ Marks(j)
<1>1. CASE Pick(j)
  <2>1. leases' = leases /\ faults' = faults /\ lapses' = lapses
    BY <1>1 DEF Pick, bounds
  <2> QED  BY <1>1, <2>1, PickTakes, BareQuiet DEF Pick, Marks, Same
<1>2. CASE Start(j) \/ LoadAccounts(j) \/ NextRoute(j)
  BY <1>2, BareQuiet DEF Start, LoadAccounts, NextRoute, Same, pool
<1>3. CASE SetUp(j) \/ Rotate(j) \/ Wait(j) \/ WaitTimesOut(j) \/ SetUpFails(j)
  BY <1>3, SettingUpQuiet
  DEF SetUp, Rotate, Wait, WaitTimesOut, SetUpFails, Fail, Same, pool
<1>4. CASE Generate(j) \/ GenerateFails(j) \/ Cancel(j)
  BY <1>4, WorkingQuiet DEF Generate, GenerateFails, Fail, Cancel, Same, pool
<1> QED  BY <1>1, <1>2, <1>3, <1>4 DEF Attempt, Marks

LEMMA StepsOfARequest ==
  ASSUME TypeOK, PlacesMatch, Next
  PROVE  \/ job' = job /\ Same
         \/ job' = job /\ \E l \in leases : Expire(l)
         \/ \E j \in Jobs : JobMoved(j) /\ ((Quiet(j) /\ Same) \/ Marks(j))
<1>1. ASSUME NEW j \in Jobs, Attempt(j)
      PROVE  JobMoved(j) /\ ((Quiet(j) /\ Same) \/ Marks(j))
  BY <1>1, AttemptSteps, AttemptJob
<1>2. ASSUME NEW x \in Actors, CleanUp(x)
      PROVE  \/ job' = job /\ Same
             \/ x \in Jobs /\ JobMoved(x) /\ Quiet(x) /\ Same
  <2>1. Same
    BY <1>2 DEF CleanUp, CheckActive, RemoveOrMark, EndSweep, Same, pool
  <2>2. CASE x \in Jobs /\ EndSweep(x)
    BY <2>1, <2>2, EndSweepJob, WorkingQuiet
  <2> QED  BY <1>2, <2>1, <2>2 DEF CleanUp, CheckActive, RemoveOrMark, EndSweep
<1>3. ASSUME \/ \E k \in Keepers : Keep(k)
             \/ \E a \in Accounts : WindowEnds(a)
      PROVE  job' = job /\ Same
  BY <1>3 DEF Keep, Watch, Refresh, KeeperRotates, Answer, RefreshFails,
              RefreshLimited, WindowEnds, Same, pool
<1>4. ASSUME NEW l \in leases, Expire(l)  PROVE job' = job
  BY <1>4 DEF Expire
<1> QED  BY <1>1, <1>2, <1>3, <1>4 DEF Next

(* What the other steps leave of a request.                                *)
LEMMA TakesFields ==
  ASSUME TypeOK, NEW j \in Jobs, NEW a \in Accounts, Takes(j, a)
  PROVE  /\ job'[j].place = "setup" /\ job'[j].sent = 0
         /\ job'[j].picked = TokenOf(a, job[j].view[a])
         /\ job'[j].used = job[j].used + 1
         /\ job'[j].token = job[j].token /\ job'[j].routes = job[j].routes
<1>0. job \in [Jobs -> JobRecords] /\ Shaped(job[j])
  BY JobFields DEF TypeOK, JobRecords, Shaped
<1> QED  BY <1>0 DEF Takes, Becomes, Shaped

LEMMA AliasFields ==
  ASSUME TypeOK, NEW j \in Jobs, Alias(j)
  PROVE  /\ job[j].place = "aliasing" /\ job'[j].place = "leasing"
         /\ job'[j].token = TokenOf(Account(j), job[j].view[Account(j)])
         /\ job'[j].picked = job[j].picked /\ job'[j].used = job[j].used
         /\ job'[j].routes = job[j].routes /\ job'[j].sent = job[j].sent
<1>0. job \in [Jobs -> JobRecords] /\ Shaped(job[j])
  BY JobFields DEF TypeOK, JobRecords, Shaped
<1> QED  BY <1>0 DEF Alias, At, Becomes, Shaped

LEMMA AcquireLeaseFields ==
  ASSUME TypeOK, NEW j \in Jobs, AcquireLease(j)
  PROVE  /\ job[j].place = "leasing" /\ job'[j].place = "generating"
         /\ job'[j].token = job[j].token
         /\ job'[j].picked = job[j].picked /\ job'[j].used = job[j].used
         /\ job'[j].routes = job[j].routes /\ job'[j].sent = job[j].sent
<1>0. job \in [Jobs -> JobRecords] /\ Shaped(job[j])
  BY JobFields DEF TypeOK, JobRecords, Shaped
<1> QED  BY <1>0 DEF AcquireLease, At, Becomes, Shaped

LEMMA LeaseRefusedFields ==
  ASSUME TypeOK, NEW j \in Jobs, LeaseRefused(j)
  PROVE  /\ job[j].place = "leasing" /\ job'[j].place \in {"ready", "canceled"}
         /\ job'[j].token = None /\ job'[j].picked = None
         /\ job'[j].used = job[j].used
         /\ job'[j].routes = job[j].routes /\ job'[j].sent = job[j].sent
<1>0. job \in [Jobs -> JobRecords] /\ Shaped(job[j])
  BY JobFields DEF TypeOK, JobRecords, Shaped
<1>1. \E p, e : p \in {"ready", "canceled"} /\ Idle(j, p, e)
  BY DEF LeaseRefused
<1>2. job[j].place = "leasing"
  BY DEF LeaseRefused, At
<1> QED  BY <1>0, <1>1, <1>2 DEF Idle, Becomes, Shaped

LEMMA UploadFields ==
  ASSUME TypeOK, NEW j \in Jobs, Upload(j)
  PROVE  /\ job[j].place = "generating" /\ job'[j].place = "generating"
         /\ job'[j].sent = job[j].sent + 1 /\ job'[j].token = job[j].token
         /\ job'[j].picked = job[j].picked /\ job'[j].used = job[j].used
         /\ job'[j].routes = job[j].routes
<1>0. job \in [Jobs -> JobRecords] /\ Shaped(job[j])
  BY JobFields DEF TypeOK, JobRecords, Shaped
<1> QED  BY <1>0 DEF Upload, At, Becomes, Shaped

LEMMA ReleaseSelectedFields ==
  ASSUME TypeOK, NEW j \in Jobs, ReleaseSelected(j)
  PROVE  /\ job[j].place = "releasing" /\ job'[j].place = "unleasing"
         /\ job'[j].picked = None /\ job'[j].token = job[j].token
         /\ job'[j].used = job[j].used
         /\ job'[j].routes = job[j].routes /\ job'[j].sent = job[j].sent
<1>0. job \in [Jobs -> JobRecords] /\ Shaped(job[j])
  BY JobFields DEF TypeOK, JobRecords, Shaped
<1> QED  BY <1>0 DEF ReleaseSelected, At, Becomes, Shaped

LEMMA ReleaseLeaseFields ==
  ASSUME TypeOK, NEW j \in Jobs, ReleaseLease(j)
  PROVE  /\ job[j].place = "unleasing" /\ job'[j].place = "sweeping"
         /\ job'[j].picked = job[j].picked /\ job'[j].token = None
         /\ job'[j].used = job[j].used
         /\ job'[j].routes = job[j].routes /\ job'[j].sent = job[j].sent
<1>0. job \in [Jobs -> JobRecords] /\ Shaped(job[j])
  BY JobFields DEF TypeOK, JobRecords, Shaped
<1> QED  BY <1>0 DEF ReleaseLease, At, Becomes, Shaped

-----------------------------------------------------------------------------
(* The counters of the pools.                                              *)
W == [j \in Jobs |-> Weight(j)]

LEMMA HoldersFinite ==
  ASSUME NEW p, NEW t
  PROVE  /\ IsFiniteSet(Holders(p, t)) /\ IsFiniteSet(Pickers(p, t))
         /\ Cardinality(Holders(p, t)) \in Nat
         /\ Holders(p, t) \subseteq Jobs /\ Pickers(p, t) \subseteq Jobs
<1>1. Holders(p, t) \in SUBSET Jobs /\ Pickers(p, t) \in SUBSET Jobs
  BY DEF Holders, Pickers
<1>2. IsFiniteSet(Jobs)
  BY PoolAssumption
<1> QED  BY <1>1, <1>2, FS_Subset, FS_CardinalityType

LEMMA SameWeight ==
  ASSUME NEW i, config' = config, job'[i].routes = job[i].routes
  PROVE  Weight(i)' = Weight(i)
BY DEF Weight

(* The members of Holders and Pickers.                                     *)
LEMMA Members ==
  ASSUME NEW p, NEW t, NEW i \in Jobs
  PROVE  /\ i \in Holders(p, t) <=> /\ ProcOf[i] = p /\ job[i].picked # None
                                    /\ t # None
                                    /\ t = job[i].picked \/ t = job[i].token
         /\ i \in Pickers(p, t) <=> ProcOf[i] = p /\ job[i].picked = t
BY DEF Holders, Pickers, Selected

LEMMA MembersNext ==
  ASSUME config' = config, NEW p, NEW t, NEW i \in Jobs
  PROVE  /\ i \in Holders(p, t)' <=> /\ ProcOf[i] = p /\ job'[i].picked # None
                                     /\ t # None
                                     /\ t = job'[i].picked \/ t = job'[i].token
         /\ i \in Pickers(p, t)' <=> ProcOf[i] = p /\ job'[i].picked = t
BY DEF Holders, Pickers, Selected, ProcOf

LEMMA SubsetsNext ==
  ASSUME NEW p, NEW t
  PROVE  Holders(p, t)' \subseteq Jobs /\ Pickers(p, t)' \subseteq Jobs
BY DEF Holders, Pickers

(* Two states agree on what is held of a token.                            *)
LEMMA CountsFollow ==
  ASSUME TypeOK, config' = config, NEW p \in Procs, NEW t \in Tokens,
         Holders(p, t)' = Holders(p, t), Pickers(p, t)' = Pickers(p, t),
         \A i \in Pickers(p, t) : job'[i].routes = job[i].routes
  PROVE  /\ Cardinality(Holders(p, t))' = Cardinality(Holders(p, t))
         /\ Cardinality(Units(Pickers(p, t), W))' = Cardinality(Units(Pickers(p, t), W))
<1>1. \A i \in Pickers(p, t) : W'[i] = W[i]
  BY SameWeight, HoldersFinite DEF W
<1>2. Units(Pickers(p, t), W') = Units(Pickers(p, t), W)
  BY <1>1, UnitsSame
<1>3. Units(Pickers(p, t), W)' = Units(Pickers(p, t), W')
  BY DEF Units
<1> QED  BY <1>2, <1>3

Counted(p, t) == /\ inflight[p][t] = Cardinality(Holders(p, t))
                 /\ reserved[p][t] = Cardinality(Units(Pickers(p, t), W))
LEMMA CountedIs == PoolMatchesHolders <=> \A p \in Procs, t \in Tokens : Counted(p, t)
BY DEF PoolMatchesHolders, Counted, W

LEMMA QuietCounted ==
  ASSUME TypeOK, PlacesMatch, PoolMatchesHolders, config' = config,
         inflight' = inflight, reserved' = reserved,
         job' = job \/
           \E j \in Jobs :
             /\ JobMoved(j) /\ job'[j].picked = job[j].picked
             /\ job[j].picked # None =>
                  /\ job'[j].token = job[j].token
                  /\ job'[j].routes = job[j].routes
  PROVE  PoolMatchesHolders'
<1>1. \A i \in Jobs :
        /\ job'[i].picked = job[i].picked
        /\ job[i].picked # None =>
             job'[i].token = job[i].token /\ job'[i].routes = job[i].routes
  BY DEF JobMoved
<1>2. ASSUME NEW p \in Procs, NEW t \in Tokens  PROVE Counted(p, t)'
  <2>1. Holders(p, t)' = Holders(p, t) /\ Pickers(p, t)' = Pickers(p, t)
    <3>1. ASSUME NEW i \in Jobs
          PROVE  /\ i \in Holders(p, t)' <=> i \in Holders(p, t)
                 /\ i \in Pickers(p, t)' <=> i \in Pickers(p, t)
      BY <1>1, Members, MembersNext
    <3>2. /\ Holders(p, t) \subseteq Jobs /\ Pickers(p, t) \subseteq Jobs
          /\ Holders(p, t)' \subseteq Jobs /\ Pickers(p, t)' \subseteq Jobs
      BY HoldersFinite, SubsetsNext
    <3> QED  BY <3>1, <3>2
  <2>2. \A i \in Pickers(p, t) : job'[i].routes = job[i].routes
    BY <1>1, Members, NoneIs, HoldersFinite
  <2> QED  BY <2>1, <2>2, CountsFollow, CountedIs DEF Counted
<1> QED  BY <1>2 DEF PoolMatchesHolders, Counted, W

LEMMA TakesCounted ==
  ASSUME TypeOK, PlacesMatch, PoolMatchesHolders, NEW j \in Jobs, NEW a \in Accounts,
         config' = config, JobMoved(j), At(j, "picking"), Takes(j, a)
  PROVE  PoolMatchesHolders'
<1> DEFINE u == TokenOf(a, job[j].view[a])
           o == ProcOf[j]
<1>1. /\ u \in Tokens /\ u # None /\ o \in Procs /\ Weight(j) \in Nat
      /\ inflight' = [inflight EXCEPT ![o][u] = inflight[o][u] + 1]
      /\ reserved' = [reserved EXCEPT ![o][u] = reserved[o][u] + Weight(j)]
      /\ inflight \in [Procs -> [Tokens -> Nat]]
      /\ reserved \in [Procs -> [Tokens -> Nat]]
  BY TakesToken, WeightIs, NoneIs DEF TypeOK
<1>2. /\ job[j].picked = None /\ job[j].token = None
      /\ job'[j].picked = u /\ job'[j].token = None
      /\ job'[j].routes = job[j].routes
      /\ \A i \in Jobs \ {j} : job'[i] = job[i]
  BY TakesFields DEF PlacesMatch, JobOK, At, Bare, JobMoved
<1> HIDE DEF u, o
<1>3. ASSUME NEW p \in Procs, NEW t \in Tokens  PROVE Counted(p, t)'
  <2>0. /\ Counted(p, t) /\ t # None
    BY CountedIs, NoneIs
  <2>1. ASSUME NEW i \in Jobs \ {j}
        PROVE  /\ i \in Holders(p, t)' <=> i \in Holders(p, t)
               /\ i \in Pickers(p, t)' <=> i \in Pickers(p, t)
    BY <1>2, Members, MembersNext
  <2>2. /\ j \notin Holders(p, t) /\ j \notin Pickers(p, t)
        /\ j \in Holders(p, t)' <=> p = o /\ t = u
        /\ j \in Pickers(p, t)' <=> p = o /\ t = u
    BY <1>1, <1>2, <2>0, Members, MembersNext DEF o
  <2>3. /\ Holders(p, t) \subseteq Jobs /\ Pickers(p, t) \subseteq Jobs
        /\ Holders(p, t)' \subseteq Jobs /\ Pickers(p, t)' \subseteq Jobs
        /\ IsFiniteSet(Holders(p, t)) /\ IsFiniteSet(Pickers(p, t))
    BY HoldersFinite, SubsetsNext
  <2>4. CASE p = o /\ t = u
    <3>1. /\ Holders(p, t)' = Holders(p, t) \cup {j}
          /\ Pickers(p, t)' = Pickers(p, t) \cup {j}
      BY <2>1, <2>2, <2>3, <2>4
    <3>2. Cardinality(Holders(p, t))' = Cardinality(Holders(p, t)) + 1
      BY <2>2, <2>3, <3>1, FS_AddElement
    <3>3. \A i \in Pickers(p, t) \cup {j} : W'[i] = W[i] /\ W[i] \in Nat
      BY <1>2, <2>3, SameWeight, WeightIs DEF W, TypeOK
    <3>4. Units(Pickers(p, t), W)' = Units(Pickers(p, t) \cup {j}, W)
      <4>1. Units(Pickers(p, t) \cup {j}, W') = Units(Pickers(p, t) \cup {j}, W)
        BY <3>3, UnitsSame
      <4> QED  BY <3>1, <4>1 DEF Units
    <3>5. Cardinality(Units(Pickers(p, t), W))' =
            Cardinality(Units(Pickers(p, t), W)) + Weight(j)
      <4>1. Cardinality(Units(Pickers(p, t) \cup {j}, W)) =
              Cardinality(Units(Pickers(p, t), W)) + W[j]
        BY <2>2, <2>3, <3>3, UnitsAdd
      <4> QED  BY <3>4, <4>1 DEF W
    <3>6. /\ inflight'[p][t] = inflight[p][t] + 1
          /\ reserved'[p][t] = reserved[p][t] + Weight(j)
      BY <1>1, <2>4
    <3> QED  BY <2>0, <3>2, <3>5, <3>6 DEF Counted
  <2>5. CASE ~(p = o /\ t = u)
    <3>1. Holders(p, t)' = Holders(p, t) /\ Pickers(p, t)' = Pickers(p, t)
      BY <2>1, <2>2, <2>3, <2>5
    <3>2. \A i \in Pickers(p, t) : job'[i].routes = job[i].routes
      BY <1>2, <2>3
    <3>3. inflight'[p][t] = inflight[p][t] /\ reserved'[p][t] = reserved[p][t]
      BY <1>1, <2>5
    <3> QED  BY <2>0, <3>1, <3>2, <3>3, CountsFollow DEF Counted
  <2> QED  BY <2>4, <2>5
<1> QED  BY <1>3 DEF PoolMatchesHolders, Counted, W

LEMMA AliasCounted ==
  ASSUME TypeOK, PlacesMatch, PoolMatchesHolders, NEW j \in Jobs,
         config' = config, JobMoved(j), Alias(j)
  PROVE  PoolMatchesHolders'
<1> DEFINE u == TokenOf(Account(j), job[j].view[Account(j)])
           o == ProcOf[j]
<1>1. u \in Tokens /\ u # None /\ o \in Procs /\ job[j].picked \in Tokens
  <2>1. /\ Account(j) \in Accounts /\ job[j].view[Account(j)] \in Records
        /\ job[j].picked \in Tokens
    BY HoldsRecord DEF Alias, At, SettingUp
  <2> QED  BY <2>1, TokenIs, NoneIs, WeightIs DEF TypeOK, TokenOf, Records
<1>2. /\ job[j].picked # None /\ job[j].token = None
      /\ job'[j].picked = job[j].picked /\ job'[j].token = u
      /\ job'[j].routes = job[j].routes
      /\ \A i \in Jobs \ {j} : job'[i] = job[i]
  BY <1>1, NoneIs, AliasFields DEF PlacesMatch, JobOK, Alias, At, SettingUp, JobMoved
<1>3. /\ inflight' = [inflight EXCEPT ![o][u] =
                        IF u = job[j].picked THEN inflight[o][u]
                        ELSE inflight[o][u] + 1]
      /\ reserved' = reserved /\ inflight \in [Procs -> [Tokens -> Nat]]
  BY <1>1 DEF Alias, TypeOK
<1> HIDE DEF u, o
<1>4. ASSUME NEW p \in Procs, NEW t \in Tokens  PROVE Counted(p, t)'
  <2>0. Counted(p, t) /\ t # None
    BY CountedIs, NoneIs
  <2>1. ASSUME NEW i \in Jobs \ {j}
        PROVE  /\ i \in Holders(p, t)' <=> i \in Holders(p, t)
               /\ i \in Pickers(p, t)' <=> i \in Pickers(p, t)
    BY <1>2, Members, MembersNext
  <2>2. /\ j \in Holders(p, t) <=> p = o /\ t = job[j].picked
        /\ j \in Holders(p, t)' <=> p = o /\ (t = job[j].picked \/ t = u)
        /\ j \in Pickers(p, t)' <=> j \in Pickers(p, t)
    BY <1>1, <1>2, <2>0, Members, MembersNext DEF o
  <2>3. /\ Holders(p, t) \subseteq Jobs /\ Pickers(p, t) \subseteq Jobs
        /\ Holders(p, t)' \subseteq Jobs /\ Pickers(p, t)' \subseteq Jobs
        /\ IsFiniteSet(Holders(p, t)) /\ IsFiniteSet(Pickers(p, t))
    BY HoldersFinite, SubsetsNext
  <2>4. Pickers(p, t)' = Pickers(p, t)
    BY <2>1, <2>2, <2>3
  <2>5. reserved'[p][t] = Cardinality(Units(Pickers(p, t), W))'
    <3>1. \A i \in Pickers(p, t) : W'[i] = W[i]
      BY <1>2, <2>3, SameWeight DEF W
    <3>2. Units(Pickers(p, t), W') = Units(Pickers(p, t), W)
      BY <3>1, UnitsSame
    <3> QED  BY <1>3, <2>0, <2>4, <3>2 DEF Counted, Units
  <2>6. CASE p = o /\ t = u /\ u # job[j].picked
    <3>1. Holders(p, t)' = Holders(p, t) \cup {j} /\ j \notin Holders(p, t)
      BY <2>1, <2>2, <2>3, <2>6
    <3>2. Cardinality(Holders(p, t))' = Cardinality(Holders(p, t)) + 1
      BY <2>3, <3>1, FS_AddElement
    <3>3. inflight'[p][t] = inflight[p][t] + 1
      BY <1>3, <2>6
    <3> QED  BY <2>0, <2>5, <3>2, <3>3 DEF Counted
  <2>7. CASE ~(p = o /\ t = u /\ u # job[j].picked)
    <3>1. Holders(p, t)' = Holders(p, t)
      BY <2>1, <2>2, <2>3, <2>7
    <3>2. inflight'[p][t] = inflight[p][t]
      BY <1>3, <2>7
    <3> QED  BY <2>0, <2>5, <3>1, <3>2 DEF Counted
  <2> QED  BY <2>6, <2>7
<1> QED  BY <1>4 DEF PoolMatchesHolders, Counted, W

LEMMA ReleaseCounted ==
  ASSUME TypeOK, PlacesMatch, PoolMatchesHolders, NEW j \in Jobs,
         config' = config, JobMoved(j), Release(j),
         job[j].picked \in Tokens, job'[j].picked = None
  PROVE  PoolMatchesHolders'
<1> DEFINE o == ProcOf[j]
<1>1. /\ o \in Procs /\ Weight(j) \in Nat /\ job[j].picked # None
      /\ \A i \in Jobs \ {j} : job'[i] = job[i]
      /\ inflight \in [Procs -> [Tokens -> Nat]]
      /\ reserved \in [Procs -> [Tokens -> Nat]]
      /\ inflight' = [inflight EXCEPT ![o] =
           [t \in Tokens |-> Minus(inflight[o][t], IF t \in Selected(j) THEN 1 ELSE 0)]]
      /\ reserved' = [reserved EXCEPT ![o][job[j].picked] =
           Minus(reserved[o][job[j].picked], Weight(j))]
  BY WeightIs, NoneIs DEF TypeOK, JobMoved, Release
<1> HIDE DEF o
<1>2. ASSUME NEW p \in Procs, NEW t \in Tokens  PROVE Counted(p, t)'
  <2>0. Counted(p, t) /\ t # None
    BY CountedIs, NoneIs
  <2>1. ASSUME NEW i \in Jobs \ {j}
        PROVE  /\ i \in Holders(p, t)' <=> i \in Holders(p, t)
               /\ i \in Pickers(p, t)' <=> i \in Pickers(p, t)
    <3>1. job'[i] = job[i]
      BY <1>1
    <3> QED  BY <3>1, Members, MembersNext
  <2>2. /\ j \in Holders(p, t) <=> p = o /\ t \in Selected(j)
        /\ j \in Pickers(p, t) <=> p = o /\ t = job[j].picked
        /\ j \notin Holders(p, t)' /\ j \notin Pickers(p, t)'
    BY <1>1, <2>0, Members, MembersNext DEF o, Selected
  <2>3. /\ Holders(p, t) \subseteq Jobs /\ Pickers(p, t) \subseteq Jobs
        /\ Holders(p, t)' \subseteq Jobs /\ Pickers(p, t)' \subseteq Jobs
        /\ IsFiniteSet(Holders(p, t)) /\ IsFiniteSet(Pickers(p, t))
        /\ Cardinality(Holders(p, t)) \in Nat
    BY HoldersFinite, SubsetsNext
  <2>4. /\ Holders(p, t)' = Holders(p, t) \ {j}
        /\ Pickers(p, t)' = Pickers(p, t) \ {j}
    BY <2>1, <2>2, <2>3
  <2>5. \A i \in Pickers(p, t) : W[i] \in Nat
    BY <2>3, WeightIs DEF W, TypeOK
  <2>6. \A i \in Pickers(p, t) \ {j} : W'[i] = W[i]
    BY <1>1, <2>3, SameWeight DEF W
  <2>7. Cardinality(Units(Pickers(p, t), W))' = Cardinality(Units(Pickers(p, t) \ {j}, W))
    <3>1. Units(Pickers(p, t) \ {j}, W') = Units(Pickers(p, t) \ {j}, W)
      BY <2>6, UnitsSame
    <3> QED  BY <2>4, <3>1 DEF Units
  <2>8. inflight'[p][t] = Cardinality(Holders(p, t))'
    <3>1. Cardinality(Holders(p, t))' =
            IF j \in Holders(p, t) THEN inflight[p][t] - 1 ELSE inflight[p][t]
      <4>1. Cardinality(Holders(p, t) \ {j}) =
              IF j \in Holders(p, t) THEN Cardinality(Holders(p, t)) - 1
              ELSE Cardinality(Holders(p, t))
        BY <2>3, FS_RemoveElement
      <4> QED  BY <2>0, <2>4, <4>1 DEF Counted
    <3>2. j \in Holders(p, t) => inflight[p][t] # 0
      BY <2>0, <2>3, FS_EmptySet DEF Counted
    <3>3. inflight[p][t] \in Nat
      BY <1>1
    <3>4. inflight'[p][t] = IF p = o /\ t \in Selected(j)
                            THEN Minus(inflight[p][t], 1)
                            ELSE IF p = o THEN Minus(inflight[p][t], 0)
                            ELSE inflight[p][t]
      BY <1>1
    <3>5. /\ Minus(inflight[p][t], 0) = inflight[p][t]
          /\ inflight[p][t] # 0 => Minus(inflight[p][t], 1) = inflight[p][t] - 1
      BY <3>3 DEF Minus
    <3> QED  BY <2>2, <3>1, <3>2, <3>4, <3>5
  <2>9. reserved'[p][t] = Cardinality(Units(Pickers(p, t), W))'
    <3>1. CASE p = o /\ t = job[j].picked
      <4>1. j \in Pickers(p, t)
        BY <2>2, <3>1
      <4>2. Cardinality(Units(Pickers(p, t) \ {j}, W)) = reserved[p][t] - Weight(j)
        BY <2>0, <2>3, <2>5, <4>1, UnitsDrop DEF Counted, W
      <4>3. Cardinality(Units(Pickers(p, t) \ {j}, W)) \in Nat
        <5>1. IsFiniteSet(Pickers(p, t) \ {j})
          BY <2>3, FS_RemoveElement
        <5> QED  BY <2>5, <5>1, UnitsFinite
      <4>4. reserved'[p][t] = Minus(reserved[p][t], Weight(j))
        BY <1>1, <3>1
      <4>5. reserved[p][t] \in Nat /\ reserved[p][t] - Weight(j) \in Nat
        BY <1>1, <4>2, <4>3
      <4>6. Minus(reserved[p][t], Weight(j)) = reserved[p][t] - Weight(j)
        <5>1. \A n, m \in Nat : n - m \in Nat => Minus(n, m) = n - m
          BY DEF Minus
        <5> QED  BY <1>1, <4>5, <5>1
      <4> QED  BY <2>7, <4>2, <4>4, <4>6
    <3>2. CASE ~(p = o /\ t = job[j].picked)
      <4>1. reserved'[p][t] = reserved[p][t]
        BY <1>1, <3>2
      <4>2. Pickers(p, t) \ {j} = Pickers(p, t)
        BY <2>2, <3>2
      <4> QED  BY <2>0, <2>7, <4>1, <4>2 DEF Counted
    <3> QED  BY <3>1, <3>2
  <2> QED  BY <2>8, <2>9 DEF Counted
<1> QED  BY <1>2 DEF PoolMatchesHolders, Counted, W

LEMMA PoolStep ==
  ASSUME TypeOK, PlacesMatch, PoolMatchesHolders, [Next]_vars
  PROVE  PoolMatchesHolders'
<1>1. CASE UNCHANGED vars
  BY <1>1, QuietCounted DEF vars, pool
<1>2. CASE Next
  <2>1. config' = config
    BY <1>2, SameConfig
  <2>2. CASE job' = job /\ Same
    BY <2>1, <2>2, QuietCounted DEF Same
  <2>3. CASE job' = job /\ \E l \in leases : Expire(l)
    BY <2>1, <2>3, QuietCounted DEF Expire, pool
  <2>4. ASSUME NEW j \in Jobs, JobMoved(j), Quiet(j), Same
        PROVE  PoolMatchesHolders'
    <3>1. job[j].picked # None => job'[j].routes = job[j].routes
      BY <2>4 DEF Quiet, PlacesMatch, JobOK, Bare
    <3> QED  BY <2>1, <2>4, <3>1, QuietCounted DEF Same, Quiet
  <2>5. ASSUME NEW j \in Jobs, JobMoved(j), Marks(j)
        PROVE  PoolMatchesHolders'
    <3>1. CASE Alias(j)
      BY <2>1, <2>5, <3>1, AliasCounted
    <3>2. CASE AcquireLease(j)
      BY <2>1, <2>5, <3>2, AcquireLeaseFields, QuietCounted DEF AcquireLease, pool
    <3>3. CASE Upload(j)
      BY <2>1, <2>5, <3>3, UploadFields, QuietCounted DEF Upload, pool
    <3>4. CASE ReleaseLease(j)
      <4>1. job[j].picked = None
        BY <3>4 DEF ReleaseLease, At, PlacesMatch, JobOK
      <4> QED  BY <2>1, <2>5, <3>4, <4>1, ReleaseLeaseFields, QuietCounted DEF ReleaseLease, pool
    <3>5. CASE LeaseRefused(j)
      <4>1. job[j].picked \in Tokens /\ Release(j)
        BY <3>5 DEF LeaseRefused, At, PlacesMatch, JobOK
      <4> QED  BY <2>1, <2>5, <3>5, <4>1, LeaseRefusedFields, ReleaseCounted
    <3>6. CASE ReleaseSelected(j)
      <4>1. job[j].picked \in Tokens /\ Release(j)
        BY <3>6 DEF ReleaseSelected, At, PlacesMatch, JobOK
      <4> QED  BY <2>1, <2>5, <3>6, <4>1, ReleaseSelectedFields, ReleaseCounted
    <3>7. ASSUME NEW a \in Accounts, Takes(j, a), At(j, "picking")
          PROVE  PoolMatchesHolders'
      BY <2>1, <2>5, <3>7, TakesCounted
    <3> QED  BY <2>5, <3>1, <3>2, <3>3, <3>4, <3>5, <3>6, <3>7 DEF Marks
  <2> QED  BY <1>2, <2>2, <2>3, <2>4, <2>5, StepsOfARequest
<1> QED  BY <1>1, <1>2

-----------------------------------------------------------------------------
(* The leases.                                                             *)
LeaseOK(l) ==
  /\ l.attempt <= job[l.job].used
  /\ job[l.job].place \in SettingUp \cup {"leasing"} =>
       l.attempt < job[l.job].used
  /\ Held(l) => l = LeaseOf(l.job)
LeaseBook == IsFiniteSet(leases) /\ \A l \in leases : LeaseOK(l)

LEMMA LeaseFields ==
  ASSUME TypeOK, NEW l \in leases
  PROVE  /\ l.job \in Jobs /\ l.attempt \in Nat /\ l.token \in Tokens
         /\ l.weight \in Nat /\ job[l.job].used \in Nat
BY JobFields DEF TypeOK, Leases

(* A step after which the request j is at the same attempt, with the same  *)
(* lease if it needs one.                                                  *)
Steady(j) ==
  /\ job'[j].used = job[j].used
  /\ job[j].place \in Working => job'[j].place \in Working
  /\ job'[j].place \in Working =>
       job[j].place \in Working \cup SettingUp \cup {"leasing"}
  /\ job'[j].place \in SettingUp \cup {"leasing"} =>
       job[j].place \in SettingUp \cup {"leasing"}
  /\ job[j].place \in Working =>
       job'[j].token = job[j].token /\ job'[j].routes = job[j].routes

LEMMA SteadyLease ==
  ASSUME TypeOK, config' = config, NEW l \in leases, LeaseOK(l), Steady(l.job)
  PROVE  LeaseOK(l)' /\ (Held(l)' <=> Held(l))
<1>1. l.job \in Jobs /\ l.attempt \in Nat /\ job[l.job].used \in Nat
  BY LeaseFields
<1>2. Held(l)' <=> Held(l)
  <2>1. CASE job[l.job].place \in Working
    BY <2>1 DEF Held, Steady
  <2>2. CASE job[l.job].place \in SettingUp \cup {"leasing"}
    <3>1. l.attempt # job[l.job].used
      BY <1>1, <2>2 DEF LeaseOK
    <3> QED  BY <3>1 DEF Held, Steady
  <2>3. CASE job[l.job].place \notin Working \cup SettingUp \cup {"leasing"}
    BY <2>3 DEF Held, Steady
  <2> QED  BY <2>1, <2>2, <2>3
<1>3. Held(l) => LeaseOf(l.job)' = LeaseOf(l.job)
  <2>1. Held(l) => /\ job'[l.job].token = job[l.job].token
                   /\ job'[l.job].used = job[l.job].used
                   /\ job'[l.job].routes = job[l.job].routes
    BY DEF Held, Steady
  <2> QED  BY <2>1, SameWeight DEF LeaseOf
<1>4. /\ job'[l.job].used = job[l.job].used
      /\ job'[l.job].place \in SettingUp \cup {"leasing"} =>
           job[l.job].place \in SettingUp \cup {"leasing"}
  BY DEF Steady
<1> QED  BY <1>2, <1>3, <1>4 DEF LeaseOK

Strays == {l \in leases : Stray(l)}

LEMMA StraysIs ==
  ASSUME LeaseBook
  PROVE  /\ IsFiniteSet(Strays) /\ Cardinality(Strays) \in Nat
<1>1. Strays \in SUBSET leases
  BY DEF Strays
<1> QED  BY <1>1, FS_Subset, FS_CardinalityType DEF LeaseBook

(* Every generation has its lease.                                         *)
GenerationsLeased == UsePG /\ lapses = 0 =>
             \A j \in Jobs : At(j, "generating") => LeaseOf(j) \in leases
LeaseInv == LeaseBook /\ GenerationsLeased /\ Cardinality(Strays) <= faults

LEMMA LapseSteps ==
  ASSUME TypeOK, Next
  PROVE  /\ faults \in Nat /\ faults' \in Nat /\ faults <= faults'
         /\ lapses' = 0 => lapses = 0
<1>1. /\ faults \in 0 .. config.faults /\ lapses \in 0 .. config.lapses
      /\ config.faults \in Nat /\ config.lapses \in Nat
  BY ConfigTypes DEF TypeOK
<1>2. faults' = faults \/ faults' = faults + 1
  BY FaultSteps
<1>3. lapses' = lapses \/ lapses' = lapses + 1
  BY LapseStep
<1> QED  BY <1>1, <1>2, <1>3

(* The steps that leave the leases alone.                                  *)
LEMMA SteadyStep ==
  ASSUME TypeOK, LeaseInv, config' = config, leases' = leases,
         faults \in Nat, faults' \in Nat, faults <= faults',
         lapses' = 0 => lapses = 0,
         \A j \in Jobs :
           /\ Steady(j)
           /\ job'[j].place = "generating" => job[j].place = "generating"
  PROVE  LeaseInv'
<1>1. \A l \in leases : LeaseOK(l)' /\ (Held(l)' <=> Held(l))
  BY SteadyLease, LeaseFields DEF LeaseInv, LeaseBook
<1>2. LeaseBook'
  BY <1>1 DEF LeaseBook, LeaseInv
<1>3. Strays' = Strays
  BY <1>1 DEF Strays, Stray
<1>4. Cardinality(Strays)' <= faults'
  <2>1. Cardinality(Strays) \in Nat /\ Cardinality(Strays) <= faults
    BY StraysIs DEF LeaseInv
  <2> QED  BY <1>3, <2>1
<1>5. GenerationsLeased'
  <2> SUFFICES ASSUME UsePG, lapses = 0, NEW j \in Jobs, job'[j].place = "generating"
               PROVE  LeaseOf(j)' \in leases
    BY DEF GenerationsLeased, UsePG, At
  <2>1. /\ job[j].place = "generating" /\ Steady(j)
        /\ LeaseOf(j) \in leases
    BY DEF GenerationsLeased, LeaseInv, At
  <2>2. /\ job'[j].token = job[j].token /\ job'[j].routes = job[j].routes
        /\ job'[j].used = job[j].used
    BY <2>1 DEF Steady, Working
  <2>3. LeaseOf(j)' = LeaseOf(j)
    BY <2>2, SameWeight DEF LeaseOf
  <2> QED  BY <2>1, <2>3
<1> QED  BY <1>2, <1>4, <1>5 DEF LeaseInv

LEMMA QuietSteady ==
  ASSUME NEW j, Quiet(j)
  PROVE  /\ Steady(j) /\ job'[j].place # "generating"
BY DEF Quiet, Steady, Working, SettingUp

LEMMA StillSteady ==
  ASSUME NEW j, job'[j] = job[j]
  PROVE  Steady(j) /\ job'[j].place = job[j].place
BY DEF Steady

LEMMA ExpireLeases ==
  ASSUME TypeOK, LeaseInv, NEW x \in leases, Expire(x)
  PROVE  LeaseInv'
<1>0. /\ config' = config /\ job' = job /\ faults' = faults
      /\ leases' = leases \ {x}
      /\ faults \in Nat /\ lapses \in Nat
      /\ Held(x) => lapses' = lapses + 1
      /\ ~Held(x) => lapses' = lapses
  BY ConfigTypes DEF Expire, TypeOK
<1>1. \A l \in leases : LeaseOK(l)' /\ (Held(l)' <=> Held(l))
  BY <1>0, SteadyLease, StillSteady, LeaseFields DEF LeaseInv, LeaseBook
<1>2. LeaseBook'
  <2>1. IsFiniteSet(leases \ {x})
    BY FS_RemoveElement DEF LeaseInv, LeaseBook
  <2> QED  BY <1>0, <1>1, <2>1 DEF LeaseBook
<1>3. Cardinality(Strays)' <= faults'
  <2>1. Strays' \in SUBSET Strays
    BY <1>0, <1>1 DEF Strays, Stray
  <2>2. /\ IsFiniteSet(Strays) /\ Cardinality(Strays) \in Nat
        /\ Cardinality(Strays) <= faults
    BY StraysIs DEF LeaseInv
  <2>3. IsFiniteSet(Strays') /\ Cardinality(Strays') <= Cardinality(Strays)
    BY <2>1, <2>2, FS_Subset
  <2>4. Cardinality(Strays') \in Nat
    BY <2>3, FS_CardinalityType
  <2> QED  BY <1>0, <2>2, <2>3, <2>4
<1>4. GenerationsLeased'
  <2> SUFFICES ASSUME UsePG, lapses' = 0, NEW j \in Jobs, At(j, "generating")
               PROVE  LeaseOf(j) \in leases \ {x}
    BY <1>0, SameWeight DEF GenerationsLeased, UsePG, At, LeaseOf
  <2>1. lapses = 0 /\ ~Held(x)
    BY <1>0
  <2>2. LeaseOf(j) \in leases
    BY <2>1 DEF LeaseInv, GenerationsLeased
  <2>3. Held(LeaseOf(j))
    BY DEF Held, LeaseOf, At, Working
  <2> QED  BY <2>1, <2>2, <2>3
<1> QED  BY <1>2, <1>3, <1>4 DEF LeaseInv

(* Subsets of a set of strays, and of one stray more.                      *)
LEMMA SubsetAtMost ==
  ASSUME NEW S, IsFiniteSet(S), NEW n \in Nat, Cardinality(S) <= n,
         NEW T, T \subseteq S
  PROVE  Cardinality(T) <= n
<1>1. T \in SUBSET S
  OBVIOUS
<1>2. IsFiniteSet(T) /\ Cardinality(T) <= Cardinality(S)
  BY <1>1, FS_Subset
<1>3. Cardinality(T) \in Nat /\ Cardinality(S) \in Nat
  BY <1>2, FS_CardinalityType
<1> QED  BY <1>2, <1>3

LEMMA OneMoreAtMost ==
  ASSUME NEW S, IsFiniteSet(S), NEW n \in Nat, Cardinality(S) <= n,
         NEW x, NEW T, T \subseteq S \cup {x}
  PROVE  Cardinality(T) <= n + 1
<1>1. /\ IsFiniteSet(S \cup {x})
      /\ Cardinality(S \cup {x}) =
           IF x \in S THEN Cardinality(S) ELSE Cardinality(S) + 1
  BY FS_AddElement
<1>2. Cardinality(S) \in Nat
  BY FS_CardinalityType
<1>3. Cardinality(S \cup {x}) <= n + 1
  BY <1>1, <1>2
<1> QED  BY <1>1, <1>3, SubsetAtMost

(* LeaseOf(j) joins the leases.                                            *)
LEMMA JoinLeases ==
  ASSUME TypeOK, PlacesMatch, LeaseInv, config' = config, NEW j \in Jobs, JobMoved(j),
         lapses' = lapses, faults \in Nat, job[j].place = "leasing", Steady(j),
         leases' = leases \cup {LeaseOf(j)},
         job'[j].place \in {"generating", "ready", "canceled"},
         job'[j].place = "generating" =>
           /\ job'[j].token = job[j].token /\ job'[j].routes = job[j].routes
           /\ faults' = faults,
         job'[j].place # "generating" => faults' = faults + 1
  PROVE  LeaseInv'
<1>p. PICK x : x = LeaseOf(j)
  OBVIOUS
<1>0. /\ x.job = j /\ x.attempt = job[j].used /\ job[j].used \in Nat
      /\ \A i \in Jobs \ {j} : Steady(i) /\ job'[i] = job[i]
  BY <1>p, JobFields, StillSteady DEF JobMoved, LeaseOf
<1>1. \A l \in leases : LeaseOK(l)' /\ (Held(l)' <=> Held(l))
  BY <1>0, SteadyLease, LeaseFields DEF LeaseInv, LeaseBook
<1>2. LeaseOK(x)' /\ (Held(x)' <=> job'[j].place = "generating")
  <2>1. job'[j].used = job[j].used
    BY DEF Steady
  <2>2. Held(x)' <=> job'[j].place = "generating"
    BY <1>0, <2>1 DEF Held, Working
  <2>3. Held(x)' => LeaseOf(j)' = x
    BY <1>p, <2>1, <2>2, SameWeight DEF LeaseOf
  <2>4. job'[j].place \notin SettingUp \cup {"leasing"}
    BY DEF SettingUp
  <2>5. x.attempt <= job'[x.job].used
    BY <1>0, <2>1
  <2> QED  BY <1>0, <2>2, <2>3, <2>4, <2>5 DEF LeaseOK
<1>3. LeaseBook'
  <2>1. IsFiniteSet(leases \cup {x})
    BY FS_AddElement DEF LeaseInv, LeaseBook
  <2> QED  BY <1>p, <1>1, <1>2, <2>1 DEF LeaseBook
<1>4. Cardinality(Strays)' <= faults'
  <2>1. /\ IsFiniteSet(Strays) /\ Cardinality(Strays) \in Nat
        /\ Cardinality(Strays) <= faults
    BY StraysIs DEF LeaseInv
  <2>2. CASE job'[j].place = "generating"
    <3>1. Strays' \subseteq Strays
      BY <1>p, <1>1, <1>2, <2>2 DEF Strays, Stray
    <3> QED  BY <2>1, <2>2, <3>1, SubsetAtMost
  <2>3. CASE job'[j].place # "generating"
    <3>1. Strays' \subseteq Strays \cup {x}
      BY <1>p, <1>1 DEF Strays, Stray
    <3> QED  BY <2>1, <2>3, <3>1, OneMoreAtMost
  <2> QED  BY <2>2, <2>3
<1>5. GenerationsLeased'
  <2> SUFFICES ASSUME UsePG, lapses = 0, NEW i \in Jobs, job'[i].place = "generating"
               PROVE  LeaseOf(i)' \in leases \cup {x}
    BY <1>p DEF GenerationsLeased, UsePG, At
  <2>1. CASE i = j
    <3>1. LeaseOf(i)' = x
      BY <1>p, <2>1, SameWeight DEF LeaseOf, Steady
    <3> QED  BY <3>1
  <2>2. CASE i # j
    <3>1. job'[i] = job[i] /\ LeaseOf(i) \in leases
      BY <1>0, <2>2 DEF LeaseInv, GenerationsLeased, At
    <3>2. LeaseOf(i)' = LeaseOf(i)
      BY <3>1, SameWeight DEF LeaseOf
    <3> QED  BY <3>1, <3>2
  <2> QED  BY <2>1, <2>2
<1> QED  BY <1>3, <1>4, <1>5 DEF LeaseInv

(* ReleaseLease: the request gives its lease back, or leaves a stray one.  *)
LEMMA GiveBackLease ==
  ASSUME TypeOK, PlacesMatch, LeaseInv, config' = config, NEW j \in Jobs, JobMoved(j),
         ReleaseLease(j)
  PROVE  LeaseInv'
<1>0. /\ job[j].place = "unleasing" /\ job'[j].place = "sweeping"
      /\ job'[j].used = job[j].used /\ lapses' = lapses /\ faults \in Nat
      /\ \A i \in Jobs \ {j} : Steady(i) /\ job'[i] = job[i]
      /\ leases' \subseteq leases
  <2>1. lapses' = lapses /\ leases' \subseteq leases
    BY DEF ReleaseLease
  <2>2. faults \in Nat
    BY ConfigTypes DEF TypeOK
  <2>3. \A i \in Jobs \ {j} : job'[i] = job[i]
    BY DEF JobMoved
  <2> QED  BY <2>1, <2>2, <2>3, ReleaseLeaseFields, StillSteady
<1>1. \A l \in leases : l.job # j => LeaseOK(l)' /\ (Held(l)' <=> Held(l))
  BY <1>0, SteadyLease, LeaseFields DEF LeaseInv, LeaseBook
<1>2. \A l \in leases : l.job = j => LeaseOK(l)' /\ ~Held(l)'
  BY <1>0 DEF LeaseInv, LeaseBook, LeaseOK, Held, Working, SettingUp
<1>3. LeaseBook'
  <2>1. IsFiniteSet(leases')
    BY <1>0, FS_Subset DEF LeaseInv, LeaseBook
  <2> QED  BY <1>0, <1>1, <1>2, <2>1 DEF LeaseBook
<1>4. GenerationsLeased'
  <2> SUFFICES ASSUME UsePG, lapses = 0, NEW i \in Jobs, job'[i].place = "generating"
               PROVE  LeaseOf(i)' \in leases'
    BY <1>0 DEF GenerationsLeased, UsePG, At
  <2>1. i # j /\ job'[i] = job[i]
    BY <1>0
  <2>2. LeaseOf(i) \in leases
    BY <2>1 DEF LeaseInv, GenerationsLeased, At
  <2>3. LeaseOf(i)' = LeaseOf(i)
    BY <2>1, SameWeight DEF LeaseOf
  <2>4. LeaseOf(i).job # j
    BY <2>1 DEF LeaseOf
  <2> QED  BY <2>2, <2>3, <2>4 DEF ReleaseLease
<1>5. Cardinality(Strays)' <= faults'
  <2>1. /\ IsFiniteSet(Strays) /\ Cardinality(Strays) \in Nat
        /\ Cardinality(Strays) <= faults
    BY StraysIs DEF LeaseInv
  <2>2. CASE leases' = {l \in leases : l.job # j \/ ~Held(l)} /\ faults' = faults
    <3>1. Strays' \subseteq Strays
      BY <1>1, <2>2 DEF Strays, Stray
    <3> QED  BY <1>0, <2>1, <2>2, <3>1, SubsetAtMost
  <2>3. CASE leases' = leases /\ faults' = faults + 1
    <3>1. \A l \in leases : l.job = j /\ Held(l) => l = LeaseOf(j)
      BY DEF LeaseInv, LeaseBook, LeaseOK
    <3>2. Strays' \subseteq Strays \cup {LeaseOf(j)}
      BY <1>1, <2>3, <3>1 DEF Strays, Stray
    <3> QED  BY <1>0, <2>1, <2>3, <3>2, OneMoreAtMost
  <2> QED  BY <2>2, <2>3 DEF ReleaseLease, Fault
<1> QED  BY <1>3, <1>4, <1>5 DEF LeaseInv

(* Pick: an attempt that no lease knows yet.                               *)
LEMMA NewAttempt ==
  ASSUME TypeOK, PlacesMatch, LeaseInv, config' = config, NEW j \in Jobs, JobMoved(j),
         NEW a \in Accounts, Takes(j, a), At(j, "picking"), leases' = leases,
         faults' = faults, lapses' = lapses
  PROVE  LeaseInv'
<1>0. /\ job[j].place = "picking" /\ job'[j].place = "setup"
      /\ job'[j].used = job[j].used + 1 /\ job[j].used \in Nat
      /\ \A i \in Jobs \ {j} : Steady(i) /\ job'[i] = job[i]
  BY TakesFields, StillSteady, JobFields DEF JobMoved, At
<1>1. \A l \in leases : l.job # j => LeaseOK(l)' /\ (Held(l)' <=> Held(l))
  BY <1>0, SteadyLease, LeaseFields DEF LeaseInv, LeaseBook
<1>2. ASSUME NEW l \in leases, l.job = j
      PROVE  LeaseOK(l)' /\ ~Held(l)' /\ ~Held(l)
  <2>1. ~Held(l) /\ ~Held(l)'
    BY <1>0, <1>2 DEF Held, Working
  <2>2. l.attempt <= job[j].used /\ l.attempt \in Nat
    BY <1>2, LeaseFields DEF LeaseInv, LeaseBook, LeaseOK
  <2>3. l.attempt < job'[j].used /\ l.attempt <= job'[j].used
    BY <1>0, <2>2
  <2> QED  BY <1>0, <1>2, <2>1, <2>3 DEF LeaseOK
<1>3. LeaseBook'
  BY <1>1, <1>2 DEF LeaseInv, LeaseBook
<1>4. Strays' = Strays
  BY <1>1, <1>2 DEF Strays, Stray
<1>5. GenerationsLeased'
  <2> SUFFICES ASSUME UsePG, lapses = 0, NEW i \in Jobs, job'[i].place = "generating"
               PROVE  LeaseOf(i)' \in leases
    BY DEF GenerationsLeased, UsePG, At
  <2>1. job'[i] = job[i]
    BY <1>0
  <2>2. LeaseOf(i) \in leases
    BY <2>1 DEF LeaseInv, GenerationsLeased, At
  <2>3. LeaseOf(i)' = LeaseOf(i)
    BY <2>1, SameWeight DEF LeaseOf
  <2> QED  BY <2>2, <2>3
<1> QED  BY <1>3, <1>4, <1>5 DEF LeaseInv

LEMMA JoinOrNot ==
  ASSUME TypeOK, PlacesMatch, LeaseInv, config' = config, NEW j \in Jobs, JobMoved(j),
         AcquireLease(j) \/ LeaseRefused(j)
  PROVE  LeaseInv'
<1>0. /\ faults \in Nat /\ lapses' = lapses
      /\ \A i \in Jobs \ {j} : Steady(i) /\ job'[i].place = job[i].place
  <2>1. \A i \in Jobs \ {j} : job'[i] = job[i]
    BY DEF JobMoved
  <2> QED  BY <2>1, ConfigTypes, StillSteady
           DEF TypeOK, AcquireLease, LeaseRefused, bounds
<1>1. CASE LeaseRefused(j)
  <2>1. /\ job[j].place = "leasing" /\ job'[j].place \in {"ready", "canceled"}
        /\ job'[j].used = job[j].used
    BY <1>1, LeaseRefusedFields
  <2>2. Steady(j)
    BY <2>1 DEF Steady, Working, SettingUp
  <2>3. \/ leases' = leases /\ (faults' = faults \/ faults' = faults + 1)
        \/ leases' = leases \cup {LeaseOf(j)} /\ faults' = faults + 1
    BY <1>1 DEF LeaseRefused, Fault
  <2>4. CASE leases' = leases
    <3>1. faults' \in Nat /\ faults <= faults'
      BY <1>0, <2>3
    <3>2. \A i \in Jobs :
            /\ Steady(i)
            /\ job'[i].place = "generating" => job[i].place = "generating"
      BY <1>0, <2>1, <2>2
    <3> QED  BY <1>0, <2>4, <3>1, <3>2, SteadyStep
  <2>5. CASE leases' = leases \cup {LeaseOf(j)} /\ faults' = faults + 1
    BY <1>0, <2>1, <2>2, <2>5, JoinLeases
  <2> QED  BY <2>3, <2>4, <2>5
<1>2. CASE AcquireLease(j)
  <2>1. /\ job[j].place = "leasing" /\ job'[j].place = "generating"
        /\ job'[j].used = job[j].used /\ job'[j].token = job[j].token
        /\ job'[j].routes = job[j].routes /\ faults' = faults
    BY <1>2, AcquireLeaseFields DEF AcquireLease, bounds
  <2>2. Steady(j)
    BY <2>1 DEF Steady, Working, SettingUp
  <2>3. CASE UsePG
    <3>1. leases' = leases \cup {LeaseOf(j)}
      BY <1>2, <2>3 DEF AcquireLease
    <3> QED  BY <1>0, <2>1, <2>2, <3>1, JoinLeases
  <2>4. CASE ~UsePG
    <3>1. leases' = leases
      BY <1>2, <2>4 DEF AcquireLease
    <3>2. \A l \in leases : LeaseOK(l)' /\ (Held(l)' <=> Held(l))
      BY <1>0, <2>2, SteadyLease, LeaseFields DEF LeaseInv, LeaseBook
    <3>3. Strays' \subseteq Strays
      BY <3>1, <3>2 DEF Strays, Stray
    <3>4. Cardinality(Strays)' <= faults'
      <4>1. IsFiniteSet(Strays) /\ Cardinality(Strays) <= faults
        BY StraysIs DEF LeaseInv
      <4> QED  BY <1>0, <2>1, <3>3, <4>1, SubsetAtMost
    <3> QED  BY <2>4, <3>1, <3>2, <3>4 DEF LeaseInv, LeaseBook, GenerationsLeased, UsePG
  <2> QED  BY <2>3, <2>4
<1> QED  BY <1>1, <1>2

LEMMA LeaseStep ==
  ASSUME TypeOK, PlacesMatch, LeaseInv, [Next]_vars
  PROVE  LeaseInv'
<1>1. CASE UNCHANGED vars
  <2>1. /\ config' = config /\ leases' = leases /\ faults' = faults
        /\ lapses' = lapses /\ \A j \in Jobs : job'[j] = job[j]
    BY <1>1 DEF vars, bounds
  <2>2. faults \in Nat
    BY ConfigTypes DEF TypeOK
  <2> QED  BY <2>1, <2>2, StillSteady, SteadyStep
<1>2. CASE Next
  <2>0. /\ config' = config /\ faults \in Nat /\ faults' \in Nat
        /\ faults <= faults' /\ (lapses' = 0 => lapses = 0)
    BY <1>2, SameConfig, LapseSteps
  <2>2. CASE job' = job /\ Same
    BY <2>0, <2>2, StillSteady, SteadyStep DEF Same
  <2>3. CASE job' = job /\ \E l \in leases : Expire(l)
    BY <2>3, ExpireLeases
  <2>4. ASSUME NEW j \in Jobs, JobMoved(j), leases' = leases, Steady(j),
               job'[j].place = "generating" => job[j].place = "generating"
        PROVE  LeaseInv'
    <3>1. \A i \in Jobs :
            /\ Steady(i)
            /\ job'[i].place = "generating" => job[i].place = "generating"
      BY <2>4, StillSteady DEF JobMoved
    <3> QED  BY <2>0, <2>4, <3>1, SteadyStep
  <2>5. ASSUME NEW j \in Jobs, JobMoved(j), Quiet(j), Same
        PROVE  LeaseInv'
    BY <2>4, <2>5, QuietSteady DEF Same
  <2>6. ASSUME NEW j \in Jobs, JobMoved(j), Marks(j)
        PROVE  LeaseInv'
    <3>1. CASE Alias(j)
      BY <2>4, <2>6, <3>1, AliasFields DEF Alias, Steady, Working, SettingUp
    <3>2. CASE AcquireLease(j) \/ LeaseRefused(j)
      BY <2>0, <2>6, <3>2, JoinOrNot
    <3>3. CASE Upload(j)
      BY <2>4, <2>6, <3>3, UploadFields DEF Upload, Steady, Working, SettingUp
    <3>4. CASE ReleaseLease(j)
      BY <2>0, <2>6, <3>4, GiveBackLease
    <3>6. CASE ReleaseSelected(j)
      BY <2>4, <2>6, <3>6, ReleaseSelectedFields
      DEF ReleaseSelected, Steady, Working, SettingUp
    <3>7. ASSUME NEW a \in Accounts, Takes(j, a), At(j, "picking"),
                 leases' = leases, faults' = faults, lapses' = lapses
          PROVE  LeaseInv'
      BY <2>0, <2>6, <3>7, NewAttempt
    <3> QED  BY <2>6, <3>1, <3>2, <3>3, <3>4, <3>6, <3>7 DEF Marks
  <2> QED  BY <1>2, <2>2, <2>3, <2>5, <2>6, StepsOfARequest
<1> QED  BY <1>1, <1>2

LEMMA InitCounted ==
  ASSUME Init
  PROVE  PoolMatchesHolders /\ LeaseInv
<1>1. ASSUME NEW p \in Procs, NEW t \in Tokens
      PROVE  /\ inflight[p][t] = Cardinality(Holders(p, t))
             /\ reserved[p][t] =
                  Cardinality(Units(Pickers(p, t), [j \in Jobs |-> Weight(j)]))
  <2>1. Holders(p, t) = {} /\ Pickers(p, t) = {}
    BY NoneIs DEF Init, Holders, Pickers
  <2>2. Units({}, [j \in Jobs |-> Weight(j)]) = {}
    BY DEF Units
  <2>3. inflight[p][t] = 0 /\ reserved[p][t] = 0
    BY DEF Init
  <2> QED  BY <2>1, <2>2, <2>3, FS_EmptySet
<1>2. /\ leases = {} /\ faults = 0
      /\ \A j \in Jobs : job[j].place = "start"
  BY DEF Init
<1>3. LeaseBook
  BY <1>2, FS_EmptySet DEF LeaseBook
<1>4. GenerationsLeased
  BY <1>2 DEF GenerationsLeased, At
<1>5. Cardinality(Strays) <= faults
  <2>1. Strays = {}
    BY <1>2 DEF Strays
  <2> QED  BY <1>2, <2>1, FS_EmptySet
<1> QED  BY <1>1, <1>3, <1>4, <1>5 DEF PoolMatchesHolders, LeaseInv

(* Each process's in-flight and reservation counters (account_pool.go) are *)
(* exactly what its requests hold; every generation has its lease until it *)
(* lapses, and stray leases come from failing database calls only.         *)
THEOREM HeldStaysCounted == Spec => []HeldIsCounted
<1> DEFINE Inv == TypeOK /\ PlacesMatch /\ PoolMatchesHolders /\ LeaseInv
<1>1. Init => Inv
  BY InitTypes, InitCounted
<1>2. Inv /\ [Next]_vars => Inv'
  BY TypesStay, PoolStep, LeaseStep
<1>3. Inv => HeldIsCounted
  BY DEF HeldIsCounted, LeasesFollowJobs, LeaseInv, GenerationsLeased, Strays
<1> HIDE DEF Inv
<1> QED  BY <1>1, <1>2, <1>3, PTL DEF Spec

-----------------------------------------------------------------------------
(* Web accounts: their token never changes, their upload allowance is      *)
(* known, and only requests on the web route take them.                    *)

(* A reader of accounts.json after a step: it has read what is there, kept *)
(* what it had or dropped it, unless it has rotated the token.             *)
Reads(v, w, a) == w[a] = v[a] \/ w[a] = file[a] \/ w[a] = Gone

Looks(j) ==
  /\ \A a \in Accounts :
       \/ Reads(job[j].view, job'[j].view, a)
       \/ At(j, "rotating") /\ a = Account(j)
  /\ job'[j].place = "rotating" =>
       At(j, "rotating") \/ Head(job[j].routes) = "codex"

LEMMA BareLooks ==
  ASSUME TypeOK, PlacesMatch, NEW j \in Jobs,
         \/ Start(j) \/ LoadAccounts(j) \/ NextRoute(j)
         \/ At(j, "picking") /\ Return(j)
         \/ EndSweep(j)
  PROVE  Looks(j)
<1>0. job \in [Jobs -> JobRecords] /\ Shaped(job[j]) /\ job[j].view \in Views
  BY JobFields DEF TypeOK, JobRecords, Shaped
<1>n. \A b \in Accounts : Nothing[b] = Gone
  BY DEF Nothing
<1> USE DEF Looks, Reads, Shaped, At, Becomes
<1>1. CASE Start(j)
  BY <1>0, <1>1 DEF Start
<1>2. CASE LoadAccounts(j)
  <2>1. CASE At(j, "ready") /\ Return(j)
    BY <1>0, <1>n, <2>1 DEF Return
  <2>2. CASE At(j, "ready") /\ Becomes(j, [job[j] EXCEPT !.place = "picking", !.view = file])
    BY <1>0, <2>2
  <2> QED  BY <1>2, <2>1, <2>2 DEF LoadAccounts
<1>3. CASE NextRoute(j)
  BY <1>0, <1>3 DEF NextRoute
<1>4. CASE At(j, "picking") /\ Return(j)
  BY <1>0, <1>n, <1>4 DEF Return
<1>5. CASE EndSweep(j)
  <2>1. /\ job' = [job EXCEPT ![j].place =
                     IF @ = "marking" THEN "releasing" ELSE job[j].next]
        /\ job[j].next \in {"ready", "returned", "images", "canceled"}
    BY <1>5, PoolAssumption DEF EndSweep, Sweeping, PlacesMatch, JobOK
  <2> QED  BY <1>0, <2>1
<1> QED  BY <1>1, <1>2, <1>3, <1>4, <1>5

LEMMA SettingUpLooks ==
  ASSUME TypeOK, PlacesMatch, NEW j \in Jobs,
         SetUp(j) \/ Rotate(j) \/ Wait(j) \/ WaitTimesOut(j) \/ SetUpFails(j)
  PROVE  Looks(j)
<1>0. job \in [Jobs -> JobRecords] /\ Shaped(job[j]) /\ job[j].view \in Views
  BY JobFields DEF TypeOK, JobRecords, Shaped
<1>n. \A a, b \in Accounts : \A r :
        [Nothing EXCEPT ![a] = r][b] = IF a = b THEN r ELSE Gone
  BY DEF Nothing
<1>a. job[j].place \in SettingUp => Account(j) \in Accounts
  BY HoldsRecord
<1> USE DEF Looks, Reads, Shaped, At, Becomes
<1>1. CASE SetUp(j)
  <2>1. Account(j) \in Accounts
    BY <1>1, <1>a DEF SetUp, SettingUp
  <2> QED  BY <1>0, <1>1, <1>n, <2>1 DEF SetUp
<1>2. CASE Rotate(j)
  <2>1. Account(j) \in Accounts
    BY <1>2, <1>a DEF Rotate, SettingUp
  <2> QED  BY <1>0, <1>2, <1>n, <2>1 DEF Rotate
<1>3. CASE Wait(j)
  <2>1. Account(j) \in Accounts
    BY <1>3, <1>a DEF Wait, SettingUp
  <2> QED  BY <1>0, <1>3, <1>n, <2>1 DEF Wait
<1>4. CASE WaitTimesOut(j)
  BY <1>0, <1>4 DEF WaitTimesOut
<1>5. CASE SetUpFails(j)
  <2>1. PICK p \in {"marking", "releasing"} : \E e, n :
          Becomes(j, [job[j] EXCEPT !.place = p, !.err = e, !.next = n])
    BY <1>5, FailBecomes DEF SetUpFails
  <2> QED  BY <1>0, <2>1
<1> QED  BY <1>1, <1>2, <1>3, <1>4, <1>5

LEMMA WorkingLooks ==
  ASSUME TypeOK, PlacesMatch, NEW j \in Jobs,
         \/ Alias(j) \/ AcquireLease(j) \/ LeaseRefused(j) \/ Upload(j)
         \/ Generate(j) \/ GenerateFails(j) \/ Cancel(j)
         \/ ReleaseSelected(j) \/ ReleaseLease(j)
  PROVE  Looks(j)
<1>0. job \in [Jobs -> JobRecords] /\ Shaped(job[j]) /\ job[j].view \in Views
  BY JobFields DEF TypeOK, JobRecords, Shaped
<1>n. \A b \in Accounts : Nothing[b] = Gone
  BY DEF Nothing
<1> USE DEF Looks, Reads, Shaped, At, Becomes
<1>1. CASE Alias(j)
  BY <1>0, <1>1 DEF Alias
<1>2. CASE AcquireLease(j)
  BY <1>0, <1>n, <1>2 DEF AcquireLease
<1>3. CASE LeaseRefused(j)
  <2>1. \E p, e : p \in {"ready", "canceled"} /\ Idle(j, p, e)
    BY <1>3 DEF LeaseRefused
  <2> QED  BY <1>0, <1>n, <2>1 DEF Idle
<1>4. CASE Upload(j)
  BY <1>0, <1>4 DEF Upload
<1>5. CASE Generate(j)
  BY <1>0, <1>5 DEF Generate
<1>6. CASE GenerateFails(j)
  <2>1. PICK p \in {"marking", "releasing"} : \E e, n :
          Becomes(j, [job[j] EXCEPT !.place = p, !.err = e, !.next = n])
    BY <1>6, FailBecomes DEF GenerateFails
  <2> QED  BY <1>0, <2>1
<1>7. CASE Cancel(j)
  <2>1. CASE job' = [job EXCEPT ![j].place = "canceled"]
    BY <1>0, <2>1
  <2>2. CASE Becomes(j, [job[j] EXCEPT !.place = "releasing", !.next = "canceled"])
    BY <1>0, <2>2
  <2> QED  BY <1>7, <2>1, <2>2 DEF Cancel
<1>8. CASE ReleaseSelected(j)
  BY <1>0, <1>n, <1>8 DEF ReleaseSelected
<1>9. CASE ReleaseLease(j)
  BY <1>0, <1>9 DEF ReleaseLease
<1> QED  BY <1>1, <1>2, <1>3, <1>4, <1>5, <1>6, <1>7, <1>8, <1>9

LEMMA PickLooks ==
  ASSUME TypeOK, PlacesMatch, NEW j \in Jobs, NEW a \in Accounts, Takes(j, a)
  PROVE  Looks(j)
<1>0. job \in [Jobs -> JobRecords] /\ Shaped(job[j]) /\ job[j].view \in Views
  BY JobFields DEF TypeOK, JobRecords, Shaped
<1>n. \A b \in Accounts : \A r :
        [Nothing EXCEPT ![a] = r][b] = IF a = b THEN r ELSE Gone
  BY DEF Nothing
<1>1. /\ job'[j].view = [Nothing EXCEPT ![a] = job[j].view[a]]
      /\ job'[j].place = "setup"
  BY <1>0 DEF Shaped, Becomes, Takes
<1> QED  BY <1>1, <1>n DEF Looks, Reads

LEMMA AttemptLooks ==
  ASSUME TypeOK, PlacesMatch, NEW j \in Jobs, Attempt(j)
  PROVE  Looks(j)
<1>1. Pick(j) => At(j, "picking")
  BY DEF Pick
<1> QED  BY <1>1, BareLooks, SettingUpLooks, WorkingLooks, PickLooks, PickTakes
         DEF Attempt

LEMMA KeeperLooks ==
  ASSUME TypeOK, PlacesMatch, Next, NEW k \in Keepers, NEW a \in Accounts
  PROVE  \/ Reads(keeper[k].view, keeper'[k].view, a)
         \/ keeper[k].place = "rotating" /\ a = Viewed(k)
<1>0. keeper \in [Keepers -> KeeperStates]
  BY DEF TypeOK, KeeperStates
<1>n. /\ \A b \in Accounts : Nothing[b] = Gone
      /\ \A c, b \in Accounts : \A r :
           [Nothing EXCEPT ![c] = r][b] = IF c = b THEN r ELSE Gone
  BY DEF Nothing
<1> USE DEF Reads
<1>1. CASE keeper' = keeper
  BY <1>1
<1>2. ASSUME NEW i \in Keepers, Keep(i)
      PROVE  \/ Reads(keeper[k].view, keeper'[k].view, a)
             \/ keeper[k].place = "rotating" /\ a = Viewed(k)
  <2>1. CASE i # k
    <3>1. keeper'[k] = keeper[k]
      BY <1>0, <1>2, <2>1 DEF Keep, Watch, Refresh, KeeperRotates, Answer,
         RefreshFails, RefreshLimited, SweepAfter
    <3> QED  BY <3>1
  <2>2. CASE i = k /\ Watch(k)
    BY <1>0, <2>2 DEF Watch, KeeperStates
  <2>3. CASE i = k /\ Refresh(k)
    <3>1. PICK c \in Accounts :
            keeper' = [keeper EXCEPT ![k] =
              [place |-> IF c \in Codex THEN "rotating" ELSE "asking",
               view |-> [Nothing EXCEPT ![c] = file[c]]]]
      BY <2>3 DEF Refresh
    <3>2. keeper'[k].view = [Nothing EXCEPT ![c] = file[c]]
      BY <1>0, <3>1
    <3> QED  BY <1>n, <3>2
  <2>4. CASE i = k /\ KeeperRotates(k)
    <3>1. /\ keeper[k].place = "rotating" /\ Viewed(k) \in Accounts
          /\ keeper'[k].view = [Nothing EXCEPT ![Viewed(k)] = file'[Viewed(k)]]
      BY <1>0, <2>4, KeeperViews DEF KeeperRotates, PlacesMatch
    <3> QED  BY <1>n, <3>1
  <2>5. CASE i = k /\ SweepAfter(k)
    <3>1. keeper'[k].view = Nothing
      BY <1>0, <2>5 DEF SweepAfter
    <3> QED  BY <1>n, <3>1
  <2> QED  BY <1>2, <2>1, <2>2, <2>3, <2>4, <2>5
           DEF Keep, Answer, RefreshFails, RefreshLimited
<1>3. ASSUME NEW x \in Actors, EndSweep(x)
      PROVE  Reads(keeper[k].view, keeper'[k].view, a)
  <2>1. keeper' = keeper \/ keeper' = [keeper EXCEPT ![x].place = "idle"]
    BY <1>3 DEF EndSweep
  <2> QED  BY <1>0, <2>1 DEF KeeperStates
<1> QED  BY <1>1, <1>2, <1>3, KeeperSteps

Web == Accounts \ Codex
WebRecord(r) == r # Gone => r.token = 0 /\ r.uploads # Unknown
WebJob(j) ==
  /\ job[j].picked # None =>
       /\ Account(j) \in Codex <=> Head(job[j].routes) = "codex"
       /\ Account(j) \in Web => job[j].picked[2] = 0
       /\ job[j].token # None => job[j].token[1] = Account(j)
  /\ job[j].token # None /\ job[j].token[1] \in Web => job[j].token[2] = 0
  /\ At(j, "rotating") => Head(job[j].routes) = "codex"
WebSeen(a) ==
  /\ WebRecord(file[a])
  /\ \A j \in Jobs : WebRecord(job[j].view[a])
  /\ \A k \in Keepers : WebRecord(keeper[k].view[a])
WebInv == (\A a \in Web : WebSeen(a)) /\ \A j \in Jobs : WebJob(j)

(* Only codex accounts get new tokens.                                     *)
LEMMA WebStays ==
  ASSUME PlacesMatch, WebInv, NEW a \in Web
  PROVE  /\ \A j \in Jobs : At(j, "rotating") => a # Account(j)
         /\ \A k \in Keepers : keeper[k].place = "rotating" => a # Viewed(k)
<1>1. ASSUME NEW j \in Jobs, At(j, "rotating")  PROVE a # Account(j)
  <2>1. job[j].picked # None
    BY <1>1, NoneIs DEF PlacesMatch, JobOK, At, SettingUp
  <2> QED  BY <1>1, <2>1 DEF WebInv, WebJob, Web
<1>2. ASSUME NEW k \in Keepers, keeper[k].place = "rotating"
      PROVE  a # Viewed(k)
  BY <1>2, KeeperViews DEF PlacesMatch, Web
<1> QED  BY <1>1, <1>2

LEMMA WebFile ==
  ASSUME TypeOK, PlacesMatch, WebInv, Next, NEW a \in Web
  PROVE  /\ WebRecord(file'[a])
         /\ file'[a] = file[a] \/ file'[a] = Gone \/ Touched(a)
<1>1. file'[a] = file[a] \/ file'[a] = Gone \/ Touched(a)
  <2>1. ~Rewritten(a)
    BY WebStays DEF Rewritten, Rotate, KeeperRotates
  <2> QED  BY <2>1, NextFile DEF FileMoved, Web
<1>2. WebSeen(a) /\ Known(a)
  BY DEF WebInv, WebSeen, WebRecord, Known
<1>3. CASE Touched(a)
  BY <1>2, <1>3 DEF Touched, WebSeen, WebRecord
<1>4. CASE file'[a] = file[a] \/ file'[a] = Gone
  BY <1>2, <1>4 DEF WebSeen, WebRecord
<1> QED  BY <1>1, <1>3, <1>4

LEMMA JobLooks ==
  ASSUME TypeOK, PlacesMatch, Next, NEW j \in Jobs
  PROVE  job'[j] = job[j] \/ Looks(j)
<1>1. ASSUME NEW i \in Jobs, Attempt(i) \/ EndSweep(i)
      PROVE  job'[j] = job[j] \/ Looks(j)
  BY <1>1, AttemptLooks, BareLooks, AttemptJob, EndSweepJob DEF JobMoved
<1>2. CASE job' = job
  BY <1>2
<1> QED  BY <1>1, <1>2, JobSteps

LEMMA WebSeenStep ==
  ASSUME TypeOK, PlacesMatch, WebInv, Next, NEW a \in Web
  PROVE  WebSeen(a)'
<1>1. WebRecord(file'[a])
  BY WebFile
<1>2. /\ WebRecord(file[a]) /\ a \in Accounts /\ WebRecord(Gone)
      /\ \A j \in Jobs : WebRecord(job[j].view[a])
      /\ \A k \in Keepers : WebRecord(keeper[k].view[a])
  BY DEF WebInv, WebSeen, WebRecord, Web
<1>3. ASSUME NEW j \in Jobs  PROVE WebRecord(job'[j].view[a])
  <2>1. job'[j].view = job[j].view \/ Reads(job[j].view, job'[j].view, a)
    BY <1>2, JobLooks, WebStays DEF Looks
  <2> QED  BY <1>2, <2>1 DEF Reads
<1>4. ASSUME NEW k \in Keepers  PROVE WebRecord(keeper'[k].view[a])
  <2>1. Reads(keeper[k].view, keeper'[k].view, a)
    BY <1>2, KeeperLooks, WebStays
  <2> QED  BY <1>2, <2>1 DEF Reads
<1> QED  BY <1>1, <1>3, <1>4 DEF WebSeen, WebRecord, Unknown, Gone

LEMMA WebJobStep ==
  ASSUME TypeOK, PlacesMatch, WebInv, Next, NEW j \in Jobs
  PROVE  WebJob(j)'
<1>0. /\ config' = config /\ WebJob(j) /\ JobOK(j)
      /\ Web' = Web /\ Codex' = Codex
  BY SameConfig DEF WebInv, PlacesMatch, Web, Codex
<1>a. job[j].picked # None => job[j].picked \in Tokens /\ job[j].picked[1] \in Accounts
  BY JobFields, TokenIs
<1>1. CASE job'[j] = job[j]
  BY <1>0, <1>1 DEF WebJob, Account, At
<1>2. ASSUME job'[j].picked = job[j].picked, job'[j].token = job[j].token,
             job'[j].picked # None => job'[j].routes = job[j].routes,
             Looks(j)
      PROVE  WebJob(j)'
  <2>1. At(j, "rotating")' => Head(job[j].routes) = "codex"
    BY <1>0, <1>2 DEF Looks, At, WebJob
  <2>2. At(j, "rotating")' => job'[j].picked # None
    BY JobStep, NoneIs DEF JobOK, At, SettingUp
  <2> QED  BY <1>0, <1>2, <2>1, <2>2 DEF WebJob, Account
<1>3. ASSUME JobMoved(j), Quiet(j), job'[j] # job[j]  PROVE WebJob(j)'
  <2>1. Looks(j)
    BY <1>3, JobLooks
  <2>2. job'[j].picked # None => job'[j].routes = job[j].routes
    BY <1>0, <1>3 DEF Quiet, JobOK, Bare
  <2> QED  BY <1>2, <1>3, <2>1, <2>2 DEF Quiet
<1>4. ASSUME Marks(j), job'[j] # job[j]  PROVE WebJob(j)'
  <2>0. Looks(j)
    BY <1>4, JobLooks
  <2>1. CASE AcquireLease(j) \/ Upload(j)
    BY <1>2, <2>0, <2>1, AcquireLeaseFields, UploadFields
  <2>2. CASE LeaseRefused(j)
    BY <2>2, LeaseRefusedFields DEF WebJob, At
  <2>3. CASE ReleaseSelected(j)
    BY <1>0, <2>3, ReleaseSelectedFields DEF WebJob, At
  <2>4. CASE ReleaseLease(j)
    <3>1. job'[j].picked = None /\ job'[j].token = None /\ job'[j].place = "sweeping"
      BY <1>0, <2>4, ReleaseLeaseFields DEF JobOK
    <3> QED  BY <3>1 DEF WebJob, At
  <2>5. CASE Alias(j)
    <3> DEFINE b == Account(j)
               t == TokenOf(b, job[j].view[b])
    <3>1. /\ b \in Accounts /\ job[j].view[b] \in Records
          /\ job[j].picked \in Tokens
      BY <2>5, HoldsRecord DEF Alias, At, SettingUp
    <3>2. t[1] = b /\ t[2] = job[j].view[b].token
      BY <3>1, TokenIs DEF TokenOf, Records
    <3>3. b \in Web => t[2] = 0
      BY <3>1, <3>2, GoneIs DEF WebInv, WebSeen, WebRecord, Web
    <3>4. /\ job'[j].token = t /\ job'[j].picked = job[j].picked
          /\ job'[j].routes = job[j].routes /\ job'[j].place = "leasing"
      BY <2>5, AliasFields
    <3>5. /\ b \in Codex <=> Head(job[j].routes) = "codex"
          /\ b \in Web => job[j].picked[2] = 0
      BY <1>0, <3>1, NoneIs DEF WebJob
    <3>6. Account(j)' = b
      BY <3>4 DEF Account
    <3> HIDE DEF b, t
    <3> QED  BY <1>0, <3>2, <3>3, <3>4, <3>5, <3>6 DEF WebJob, At
  <2>6. ASSUME NEW a \in Accounts, Takes(j, a), At(j, "picking")
        PROVE  WebJob(j)'
    <3> DEFINE t == TokenOf(a, job[j].view[a])
    <3>1. /\ job[j].view[a] \in Records /\ t[1] = a /\ t[2] = job[j].view[a].token
      BY <2>6, TakesToken, TokenIs DEF TokenOf, Records
    <3>2. a \in Web => t[2] = 0
      BY <3>1, GoneIs DEF WebInv, WebSeen, WebRecord, Web
    <3>3. /\ job'[j].picked = t /\ job'[j].token = None /\ job'[j].place = "setup"
          /\ job'[j].routes = job[j].routes
      BY <1>0, <2>6, TakesFields DEF JobOK, At, Bare
    <3>4. a \in Codex <=> Head(job[j].routes) = "codex"
      BY <2>6 DEF Takes, Usable
    <3>5. Account(j)' = a
      BY <3>1, <3>3 DEF Account
    <3> HIDE DEF t
    <3> QED  BY <1>0, <3>1, <3>2, <3>3, <3>4, <3>5 DEF WebJob, At
  <2> QED  BY <1>4, <2>1, <2>2, <2>3, <2>4, <2>5, <2>6 DEF Marks
<1>5. ASSUME NEW i \in Jobs, JobMoved(i), i # j  PROVE job'[j] = job[j]
  BY <1>5 DEF JobMoved
<1> QED  BY <1>1, <1>3, <1>4, <1>5, StepsOfARequest

LEMMA WebStep ==
  ASSUME TypeOK, PlacesMatch, WebInv, [Next]_vars
  PROVE  WebInv'
<1>1. CASE Next
  <2>1. Web' = Web
    BY <1>1, SameConfig DEF Web, Codex
  <2> QED  BY <1>1, <2>1, WebSeenStep, WebJobStep DEF WebInv
<1>2. CASE UNCHANGED vars
  BY <1>2 DEF vars, WebInv, WebSeen, WebJob, Account, At, Web, Codex
<1> QED  BY <1>1, <1>2

LEMMA InitWeb ==
  ASSUME Init
  PROVE  WebInv
<1>1. config.uploads \in Nat
  BY ConfigTypes DEF Init
<1>2. WebRecord(Fresh) /\ WebRecord(Gone)
  BY <1>1 DEF WebRecord, Fresh, Unknown
<1>3. \A a \in Accounts :
        /\ file[a] \in {Fresh, Gone} /\ \A j \in Jobs : job[j].view[a] = Gone
        /\ \A k \in Keepers : keeper[k].view[a] = Gone
  BY DEF Init, Nothing
<1>4. \A j \in Jobs : job[j].picked = None /\ job[j].token = None /\ job[j].place = "start"
  BY DEF Init
<1> QED  BY <1>2, <1>3, <1>4 DEF WebInv, WebSeen, WebJob, Web, At

-----------------------------------------------------------------------------
(* The slots of web accounts, in the pools and in the database.            *)
SlotsBounded == \A p \in Procs, a \in Web : inflight[p][<<a, 0>>] <= MaxConc
LeasesBounded == \A t \in Tokens : Cardinality(LeasesOn(t)) <= MaxConc

LEMMA WebToken ==
  ASSUME TypeOK, NEW a \in Web
  PROVE  a \in Accounts /\ <<a, 0>> \in Tokens /\ <<a, 0>>[1] = a /\ <<a, 0>>[2] = 0
<1>1. 0 \in 0 .. MaxTokens
  BY PoolAssumption
<1> QED  BY <1>1, TokenIs DEF Web

LEMMA WebTokenOf ==
  ASSUME TypeOK, WebInv, NEW j \in Jobs, NEW a \in Web
  PROVE  /\ job[j].token # None /\ job[j].token[1] = a => job[j].token = <<a, 0>>
         /\ job[j].picked # None /\ Account(j) = a => job[j].picked = <<a, 0>>
         /\ /\ job[j].picked # None /\ job[j].token # None
            /\ job[j].token[1] = a
            => Account(j) = a
<1>1. WebJob(j) /\ job[j].picked \in Tokens \cup {None} /\ job[j].token \in Tokens \cup {None}
  BY JobFields DEF WebInv
<1>2. \A t \in Tokens : t = <<t[1], t[2]>>
  BY TokenIs
<1> QED  BY <1>1, <1>2 DEF WebJob, Account

LEMMA SlotsStep ==
  ASSUME TypeOK, PlacesMatch, WebInv, SlotsBounded, Next
  PROVE  SlotsBounded'
<1>0. /\ config' = config /\ Web' = Web /\ MaxConc' = MaxConc
      /\ inflight \in [Procs -> [Tokens -> Nat]]
  BY SameConfig DEF TypeOK, Web, Codex, MaxConc
<1> SUFFICES ASSUME NEW p \in Procs, NEW a \in Web
             PROVE  inflight'[p][<<a, 0>>] <= MaxConc
  BY <1>0 DEF SlotsBounded
<1> DEFINE u == <<a, 0>>
<1>1. u \in Tokens /\ inflight[p][u] \in Nat /\ inflight[p][u] <= MaxConc /\ MaxConc \in Nat
  BY <1>0, WebToken, ConfigTypes DEF SlotsBounded, TypeOK
<1>2. CASE inflight' = inflight
  BY <1>1, <1>2
<1>3. ASSUME NEW j \in Jobs, Alias(j)  PROVE inflight'[p][u] <= MaxConc
  <2> DEFINE b == Account(j)
             t == TokenOf(b, job[j].view[b])
  <2>1. b \in Accounts /\ job[j].view[b] \in Records /\ job[j].picked \in Tokens
    BY <1>3, HoldsRecord DEF Alias, At, SettingUp
  <2>2. t \in Tokens /\ t[1] = b /\ t[2] = job[j].view[b].token /\ t = <<t[1], t[2]>>
    BY <2>1, TokenIs DEF TokenOf, Records
  <2>3. t = u => t = job[j].picked
    <3>1. ASSUME t = u  PROVE job[j].picked = u
      <4>1. b = a
        BY <2>2, <3>1, WebToken
      <4> QED  BY <2>1, <4>1, NoneIs, WebTokenOf
    <3> QED  BY <3>1
  <2>4. inflight' = [inflight EXCEPT ![ProcOf[j]][t] =
                       IF t = job[j].picked THEN @ ELSE @ + 1]
    BY <1>3 DEF Alias
  <2> HIDE DEF t
  <2> QED  BY <1>0, <1>1, <2>2, <2>3, <2>4
<1>4. ASSUME NEW j \in Jobs, Release(j)  PROVE inflight'[p][u] <= MaxConc
  <2>1. inflight' = [inflight EXCEPT ![ProcOf[j]] =
          [t \in Tokens |-> Minus(inflight[ProcOf[j]][t], IF t \in Selected(j) THEN 1 ELSE 0)]]
    BY <1>4 DEF Release
  <2>2. \A n \in Nat : Minus(n, 0) <= n /\ Minus(n, 1) <= n /\ Minus(n, 0) \in Nat /\ Minus(n, 1) \in Nat
    BY DEF Minus
  <2>3. \/ inflight'[p][u] = inflight[p][u]
        \/ inflight'[p][u] = Minus(inflight[p][u], 0)
        \/ inflight'[p][u] = Minus(inflight[p][u], 1)
    BY <1>0, <1>1, <2>1
  <2> QED  BY <1>1, <2>2, <2>3
<1>5. ASSUME NEW j \in Jobs, NEW b \in Accounts, Takes(j, b)
      PROVE  inflight'[p][u] <= MaxConc
  <2> DEFINE t == TokenOf(b, job[j].view[b])
  <2>1. /\ t \in Tokens
        /\ inflight' = [inflight EXCEPT ![ProcOf[j]][t] = inflight[ProcOf[j]][t] + 1]
        /\ inflight[ProcOf[j]][t] < MaxConc /\ ProcOf[j] \in Procs
    BY <1>5, TakesToken, WeightIs DEF Takes, Usable, TypeOK
  <2> HIDE DEF t
  <2>2. CASE t = u /\ ProcOf[j] = p
    BY <1>0, <1>1, <2>1, <2>2
  <2>3. CASE ~(t = u /\ ProcOf[j] = p)
    BY <1>0, <1>1, <2>1, <2>3
  <2> QED  BY <2>2, <2>3
<1>6. ASSUME NEW j \in Jobs, Marks(j)  PROVE inflight'[p][u] <= MaxConc
  BY <1>2, <1>3, <1>4, <1>5, <1>6
  DEF Marks, AcquireLease, LeaseRefused, Upload, ReleaseSelected, ReleaseLease, pool
<1> QED  BY <1>2, <1>6, StepsOfARequest DEF Same, Expire, pool

LEMMA LeasesOnFinite ==
  ASSUME LeaseBook, NEW t
  PROVE  IsFiniteSet(LeasesOn(t)) /\ Cardinality(LeasesOn(t)) \in Nat
<1>1. LeasesOn(t) \in SUBSET leases
  BY DEF LeasesOn
<1> QED  BY <1>1, FS_Subset, FS_CardinalityType DEF LeaseBook

LEMMA LeasesBoundStep ==
  ASSUME TypeOK, PlacesMatch, LeaseInv, LeasesBounded, Next
  PROVE  LeasesBounded'
<1>0. MaxConc' = MaxConc /\ MaxConc \in Nat
  BY SameConfig, ConfigTypes DEF MaxConc, TypeOK
<1> SUFFICES ASSUME NEW t \in Tokens
             PROVE  Cardinality({l \in leases' : l.token = t}) <= MaxConc
  BY <1>0 DEF LeasesBounded, LeasesOn
<1> DEFINE T == {l \in leases' : l.token = t}
<1>1. /\ IsFiniteSet(LeasesOn(t)) /\ Cardinality(LeasesOn(t)) \in Nat
      /\ Cardinality(LeasesOn(t)) <= MaxConc
  BY LeasesOnFinite DEF LeasesBounded, LeaseInv
<1>2. CASE leases' \subseteq leases
  <2>1. T \subseteq LeasesOn(t)
    BY <1>2 DEF LeasesOn
  <2> QED  BY <1>0, <1>1, <2>1, SubsetAtMost
<1>3. ASSUME NEW j \in Jobs, leases' = leases \cup {LeaseOf(j)}, Free(j)
      PROVE  Cardinality(T) <= MaxConc
  <2>1. CASE job[j].token = t
    <3>1. Cardinality(LeasesOn(t)) < MaxConc
      BY <1>3, <2>1 DEF Free
    <3>2. MaxConc - 1 \in Nat /\ Cardinality(LeasesOn(t)) <= MaxConc - 1
      BY <1>0, <1>1, <3>1
    <3>3. T \subseteq LeasesOn(t) \cup {LeaseOf(j)}
      BY <1>3 DEF LeasesOn
    <3>4. Cardinality(T) <= MaxConc - 1 + 1
      BY <1>1, <3>2, <3>3, OneMoreAtMost
    <3> QED  BY <1>0, <3>4
  <2>2. CASE job[j].token # t
    <3>1. T \subseteq LeasesOn(t)
      BY <1>3, <2>2 DEF LeasesOn, LeaseOf
    <3> QED  BY <1>0, <1>1, <3>1, SubsetAtMost
  <2> QED  BY <2>1, <2>2
<1>4. ASSUME NEW j \in Jobs, AcquireLease(j) \/ LeaseRefused(j) \/ ReleaseLease(j)
      PROVE  \/ leases' \subseteq leases
             \/ leases' = leases \cup {LeaseOf(j)} /\ Free(j)
  BY <1>4 DEF AcquireLease, LeaseRefused, ReleaseLease
<1>5. ASSUME NEW l \in leases, Expire(l)  PROVE leases' \subseteq leases
  BY <1>5 DEF Expire
<1> QED  BY <1>2, <1>3, <1>4, <1>5, LeaseSteps

-----------------------------------------------------------------------------
(* The uploads that are still to come.                                     *)
SentOK(j) == job[j].picked # None => job[j].sent <= Weight(j)

LEMMA SentStep ==
  ASSUME TypeOK, PlacesMatch, Next, NEW j \in Jobs, SentOK(j)
  PROVE  SentOK(j)'
<1>0. /\ config' = config /\ job[j].sent \in Nat /\ Weight(j) \in Nat /\ JobOK(j)
  BY SameConfig, JobFields, WeightIs DEF TypeOK, PlacesMatch
<1>1. ASSUME job'[j].picked = job[j].picked, job'[j].sent = job[j].sent,
             job[j].picked # None => job'[j].routes = job[j].routes
      PROVE  SentOK(j)'
  BY <1>0, <1>1, SameWeight DEF SentOK
<1>2. CASE job'[j] = job[j]
  BY <1>1, <1>2
<1>3. CASE Quiet(j)
  <2>1. job[j].picked # None => job'[j].routes = job[j].routes
    BY <1>0, <1>3 DEF Quiet, JobOK, Bare
  <2> QED  BY <1>1, <1>3, <2>1 DEF Quiet
<1>4. CASE Marks(j)
  <2>1. CASE Upload(j)
    <3>1. job[j].sent < Weight(j) /\ job'[j].sent = job[j].sent + 1
      BY <2>1, UploadFields DEF Upload
    <3>2. Weight(j)' = Weight(j)
      BY <1>0, <2>1, UploadFields, SameWeight
    <3> QED  BY <1>0, <3>1, <3>2 DEF SentOK
  <2>2. ASSUME NEW a \in Accounts, Takes(j, a)  PROVE SentOK(j)'
    <3>1. job'[j].sent = 0 /\ job'[j].routes = job[j].routes
      BY <2>2, TakesFields
    <3>2. Weight(j)' = Weight(j)
      BY <1>0, <3>1, SameWeight
    <3> QED  BY <1>0, <3>1, <3>2 DEF SentOK
  <2>3. CASE LeaseRefused(j) \/ ReleaseSelected(j)
    BY <2>3, LeaseRefusedFields, ReleaseSelectedFields DEF SentOK
  <2>4. CASE Alias(j) \/ AcquireLease(j) \/ ReleaseLease(j)
    BY <1>1, <2>4, AliasFields, AcquireLeaseFields, ReleaseLeaseFields
  <2> QED  BY <1>4, <2>1, <2>2, <2>3, <2>4 DEF Marks
<1> QED  BY <1>2, <1>3, <1>4, StepsOfARequest DEF JobMoved

(* Who is to upload to a: with leases the generations, without them those  *)
(* that picked it.                                                         *)
Uploaders(a) ==
  {j \in Jobs : IF UsePG THEN At(j, "generating") /\ job[j].token[1] = a
                ELSE job[j].picked # None /\ Account(j) = a}
Due(a) == Cardinality(Units(Uploaders(a), ToSend))
Guarded == IF UsePG THEN lapses = 0 ELSE OneProcess
UploadsInv ==
  /\ \A j \in Jobs : SentOK(j)
  /\ Guarded => \A a \in Web \ overtaken :
                  file[a] # Gone => Due(a) <= file[a].uploads

LEMMA UploaderIs ==
  ASSUME TypeOK, PlacesMatch, \A j \in Jobs : SentOK(j), NEW a
  PROVE  /\ IsFiniteSet(Uploaders(a)) /\ Uploaders(a) \subseteq Jobs
         /\ \A j \in Uploaders(a) :
              /\ ToSend[j] \in Nat /\ ToSend[j] = Weight(j) - job[j].sent
              /\ ToSend[j] <= Weight(j) /\ Weight(j) \in Nat
              /\ job[j].picked # None
         /\ Due(a) \in Nat
<1>1. Uploaders(a) \in SUBSET Jobs /\ IsFiniteSet(Uploaders(a))
  <2>1. Uploaders(a) \in SUBSET Jobs
    BY DEF Uploaders
  <2> QED  BY <2>1, PoolAssumption, FS_Subset
<1>2. ASSUME NEW j \in Uploaders(a)
      PROVE  /\ ToSend[j] \in Nat /\ ToSend[j] = Weight(j) - job[j].sent
             /\ ToSend[j] <= Weight(j) /\ Weight(j) \in Nat
             /\ job[j].picked # None
  <2>1. j \in Jobs /\ job[j].sent \in Nat /\ Weight(j) \in Nat
    BY <1>1, JobFields, WeightIs DEF TypeOK
  <2>2. job[j].picked # None
    BY <2>1, NoneIs DEF Uploaders, At, PlacesMatch, JobOK
  <2>3. job[j].sent <= Weight(j) /\ ToSend[j] = Weight(j) - job[j].sent
    BY <2>1, <2>2 DEF SentOK, ToSend
  <2> QED  BY <2>1, <2>2, <2>3
<1>3. Due(a) \in Nat
  BY <1>1, <1>2, UnitsFinite DEF Due
<1> QED  BY <1>1, <1>2, <1>3

(* The steps by which a request joins them.                                *)
Joins(j, a) == \/ UsePG /\ AcquireLease(j) /\ job[j].token[1] = a
               \/ ~UsePG /\ At(j, "picking") /\ Takes(j, a)

NoMore(i, a) == i \in Uploaders(a)' => i \in Uploaders(a) /\ ToSend'[i] <= ToSend[i]

LEMMA UploaderNext ==
  ASSUME config' = config, NEW a, NEW i \in Jobs
  PROVE  /\ i \in Uploaders(a) <=>
              IF UsePG THEN job[i].place = "generating" /\ job[i].token[1] = a
              ELSE job[i].picked # None /\ job[i].picked[1] = a
         /\ i \in Uploaders(a)' <=>
              IF UsePG THEN job'[i].place = "generating" /\ job'[i].token[1] = a
              ELSE job'[i].picked # None /\ job'[i].picked[1] = a
BY DEF Uploaders, At, Account, UsePG

LEMMA ToSendNext ==
  ASSUME TypeOK, config' = config, NEW i \in Jobs, job'[i].routes = job[i].routes,
         job'[i].sent \in Nat, job[i].sent <= job'[i].sent
  PROVE  ToSend'[i] <= ToSend[i]
<1>1. Weight(i)' = Weight(i) /\ Weight(i) \in Nat /\ job[i].sent \in Nat
  BY SameWeight, WeightIs, JobFields DEF TypeOK
<1>2. ToSend[i] = Weight(i) - job[i].sent /\ ToSend'[i] = Weight(i)' - job'[i].sent
  BY DEF ToSend
<1> QED  BY <1>1, <1>2

LEMMA Joining ==
  ASSUME TypeOK, PlacesMatch, Next, NEW a \in Accounts
  PROVE  \/ \A i \in Jobs : NoMore(i, a)
         \/ \E j \in Jobs : /\ JobMoved(j) /\ Joins(j, a)
                            /\ \A i \in Jobs \ {j} : job'[i] = job[i]
<1>0. config' = config /\ \A j \in Jobs : JobOK(j) /\ job[j].sent \in Nat
  BY SameConfig, JobFields DEF PlacesMatch
<1>1. ASSUME NEW i \in Jobs, job'[i] = job[i]  PROVE NoMore(i, a)
  <2>1. i \in Uploaders(a)' <=> i \in Uploaders(a)
    BY <1>0, <1>1, UploaderNext
  <2>2. ToSend'[i] <= ToSend[i]
    BY <1>0, <1>1, ToSendNext
  <2> QED  BY <2>1, <2>2 DEF NoMore
<1>2. ASSUME NEW i \in Jobs, job'[i].routes = job[i].routes \/ job[i].picked = None,
             job'[i].sent \in Nat, job[i].sent <= job'[i].sent,
             job'[i].picked = job[i].picked,
             UsePG /\ job'[i].place = "generating" =>
               /\ job'[i].token[1] = a =>
                    job[i].place = "generating" /\ job[i].token[1] = a
               /\ job'[i].routes = job[i].routes
      PROVE  NoMore(i, a)
  <2>1. ASSUME i \in Uploaders(a)'  PROVE i \in Uploaders(a) /\ job'[i].routes = job[i].routes
    BY <1>0, <1>2, <2>1, UploaderNext
  <2> QED  BY <1>0, <1>2, <2>1, ToSendNext DEF NoMore
<1>3. ASSUME NEW j \in Jobs, Quiet(j)  PROVE NoMore(j, a)
  <2>1. job'[j].routes = job[j].routes \/ job[j].picked = None
    BY <1>0, <1>3 DEF Quiet, JobOK, Bare
  <2> QED  BY <1>0, <1>2, <1>3, <2>1 DEF Quiet
<1>4. ASSUME NEW j \in Jobs, Marks(j)  PROVE NoMore(j, a) \/ Joins(j, a)
  <2>1. CASE Upload(j)
    <3>1. job'[j].sent = job[j].sent + 1
      BY <2>1, UploadFields
    <3>2. job'[j].sent \in Nat /\ job[j].sent <= job'[j].sent
      BY <1>0, <3>1
    <3> QED  BY <1>2, <2>1, <3>2, UploadFields
  <2>2. ASSUME NEW b \in Accounts, Takes(j, b), At(j, "picking")
        PROVE  NoMore(j, a) \/ Joins(j, a)
    <3>1. /\ job'[j].place = "setup" /\ job'[j].picked[1] = b
      <4>1. TokenOf(b, job[j].view[b])[1] = b
        BY DEF TokenOf
      <4> QED  BY <2>2, <4>1, TakesFields
    <3>2. CASE UsePG \/ a # b
      <4>1. j \notin Uploaders(a)'
        BY <1>0, <3>1, <3>2, UploaderNext
      <4> QED  BY <4>1 DEF NoMore
    <3>3. CASE ~UsePG /\ a = b
      BY <2>2, <3>3 DEF Joins
    <3> QED  BY <3>2, <3>3
  <2>3. CASE LeaseRefused(j) \/ ReleaseSelected(j)
    <3>1. j \notin Uploaders(a)'
      BY <1>0, <2>3, LeaseRefusedFields, ReleaseSelectedFields, UploaderNext
    <3> QED  BY <3>1 DEF NoMore
  <2>4. CASE Alias(j) \/ ReleaseLease(j)
    BY <1>0, <1>2, <2>4, AliasFields, ReleaseLeaseFields
  <2>5. CASE AcquireLease(j)
    <3>1. CASE UsePG /\ job[j].token[1] = a
      BY <2>5, <3>1 DEF Joins
    <3>2. CASE ~(UsePG /\ job[j].token[1] = a)
      BY <1>0, <1>2, <2>5, <3>2, AcquireLeaseFields
    <3> QED  BY <3>1, <3>2
  <2> QED  BY <1>4, <2>1, <2>2, <2>3, <2>4, <2>5 DEF Marks
<1> QED  BY <1>1, <1>3, <1>4, StepsOfARequest DEF JobMoved

(* The allowance of a web account, read by nobody since it last moved.     *)
LEMMA OvertakenGrows ==
  Next => overtaken \subseteq overtaken'
<1>1. ASSUME NEW j \in Jobs, Attempt(j)  PROVE overtaken \subseteq overtaken'
  <2>1. ASSUME NEW t, NEW c, Fail(j, t, c)  PROVE overtaken \subseteq overtaken'
    BY <2>1 DEF Fail
  <2> QED  BY <1>1, <2>1 DEF Attempt, Start, LoadAccounts, Pick, SetUp, Rotate,
         Wait, WaitTimesOut, SetUpFails, GenerateFails, Alias, AcquireLease,
         LeaseRefused, Upload, Generate, Cancel, ReleaseSelected,
         ReleaseLease, NextRoute
<1>2. ASSUME NEW k \in Keepers, Keep(k)  PROVE overtaken \subseteq overtaken'
  BY <1>2 DEF Keep, Watch, Refresh, KeeperRotates, Answer, RefreshFails,
              RefreshLimited
<1>3. ASSUME \/ \E x \in Actors : CleanUp(x)
             \/ \E a \in Accounts : WindowEnds(a)
             \/ \E l \in leases : Expire(l)
      PROVE  overtaken \subseteq overtaken'
  BY <1>3 DEF CleanUp, CheckActive, RemoveOrMark, EndSweep, WindowEnds, Expire
<1> QED  BY <1>1, <1>2, <1>3 DEF Next

LEMMA AllowanceMoves ==
  ASSUME TypeOK, PlacesMatch, WebInv, Next, NEW a \in Web \ overtaken',
         file'[a] # Gone
  PROVE  /\ a \notin overtaken /\ file[a] # Gone
         /\ file'[a].uploads = file[a].uploads \/ Uploaded(a)
         /\ file[a] \in Records /\ file[a].uploads \in Nat
<1>1. file'[a] = file[a] \/ Touched(a)
  BY WebFile
<1>2. file[a] # Gone
  BY <1>1 DEF Touched
<1>3. a \in Accounts /\ WebRecord(file[a])
  BY DEF WebInv, WebSeen, Web
<1>4. file[a] \in Records
  BY <1>2, <1>3, ViewTypes DEF TypeOK
<1>5. file[a].uploads \in Nat
  <2>1. file[a].uploads \in {Unknown} \cup (0 .. config.uploads)
    BY <1>4 DEF Records
  <2>2. file[a].uploads # Unknown
    BY <1>2, <1>3 DEF WebRecord
  <2>3. config.uploads \in Nat
    BY ConfigTypes DEF TypeOK
  <2> QED  BY <2>1, <2>2, <2>3
<1> QED  BY <1>1, <1>2, <1>4, <1>5, OvertakenGrows DEF Touched

LEMMA SentNext ==
  ASSUME TypeOK', PlacesMatch', NEW i \in Jobs, SentOK(i)', job'[i].picked # None
  PROVE  /\ ToSend'[i] \in Nat /\ ToSend'[i] <= Weight(i)'
<1>1. job'[i].sent \in Nat
  BY DEF TypeOK, JobRecords
<1>2. config'.files \in [Jobs -> Nat]
  <2>1. config' \in Configs
    BY DEF TypeOK
  <2> QED  BY <2>1, PoolAssumption
<1>3. Weight(i)' \in Nat
  BY <1>2 DEF Weight
<1>4. job'[i].sent <= Weight(i)' /\ ToSend'[i] = Weight(i)' - job'[i].sent
  BY DEF SentOK, ToSend
<1> QED  BY <1>1, <1>3, <1>4

LEMMA UploaderPicked ==
  ASSUME PlacesMatch', NEW a, NEW i \in Uploaders(a)'
  PROVE  i \in Jobs /\ job'[i].picked # None
<1>1. i \in Jobs /\ JobOK(i)'
  BY DEF Uploaders, PlacesMatch
<1> QED  BY <1>1, NoneIs DEF Uploaders, At, JobOK

LEMMA DueNext ==
  ASSUME TypeOK', PlacesMatch', \A i \in Jobs : SentOK(i)', NEW a
  PROVE  Due(a)' \in Nat
<1>1. Uploaders(a)' \in SUBSET Jobs
  BY DEF Uploaders
<1>2. IsFiniteSet(Uploaders(a)')
  BY <1>1, PoolAssumption, FS_Subset
<1>3. \A i \in Uploaders(a)' : ToSend'[i] \in Nat
  BY UploaderPicked, SentNext
<1>4. Cardinality(Units(Uploaders(a)', ToSend')) \in Nat
  BY <1>2, <1>3, UnitsFinite
<1>5. Due(a)' = Cardinality(Units(Uploaders(a)', ToSend'))
  BY DEF Due, Units
<1> QED  BY <1>4, <1>5

LEMMA NoMoreDue ==
  ASSUME TypeOK, PlacesMatch, \A j \in Jobs : SentOK(j),
         TypeOK', PlacesMatch', \A j \in Jobs : SentOK(j)',
         NEW a, \A i \in Jobs : NoMore(i, a)
  PROVE  Due(a)' <= Due(a)
<1>1. /\ IsFiniteSet(Uploaders(a))
      /\ \A i \in Uploaders(a) : ToSend[i] \in Nat
  BY UploaderIs
<1>2. /\ Uploaders(a)' \subseteq Jobs
      /\ \A i \in Uploaders(a)' : ToSend'[i] \in Nat
  BY UploaderPicked, SentNext
<1>3. /\ Uploaders(a)' \subseteq Uploaders(a)
      /\ \A i \in Uploaders(a)' : ToSend'[i] <= ToSend[i]
  BY <1>2 DEF NoMore
<1>4. Cardinality(Units(Uploaders(a)', ToSend')) <= Cardinality(Units(Uploaders(a), ToSend))
  BY <1>1, <1>2, <1>3, UnitsMost
<1>5. Due(a)' = Cardinality(Units(Uploaders(a)', ToSend'))
  BY DEF Due, Units
<1> QED  BY <1>4, <1>5 DEF Due

(* One upload less, or one more request.                                   *)
LEMMA OneLess ==
  ASSUME NEW S, IsFiniteSet(S), NEW x \in S, NEW n, NEW m,
         \A y \in S : n[y] \in Nat /\ m[y] \in Nat,
         m[x] = n[x] - 1, \A y \in S \ {x} : m[y] = n[y]
  PROVE  Cardinality(Units(S, m)) = Cardinality(Units(S, n)) - 1
<1>1. Cardinality(Units(S \ {x}, n)) = Cardinality(Units(S, n)) - n[x]
  BY UnitsDrop
<1>2. Cardinality(Units(S \ {x}, m)) = Cardinality(Units(S, m)) - m[x]
  BY UnitsDrop
<1>3. Units(S \ {x}, m) = Units(S \ {x}, n)
  BY UnitsSame
<1>4. Cardinality(Units(S, n)) \in Nat /\ Cardinality(Units(S, m)) \in Nat
  BY UnitsFinite
<1>5. n[x] \in Nat /\ m[x] \in Nat
  OBVIOUS
<1> HIDE DEF Units
<1> QED  BY <1>1, <1>2, <1>3, <1>4, <1>5

LEMMA OneMore ==
  ASSUME NEW S, IsFiniteSet(S), NEW x, x \notin S, NEW n, NEW m, NEW T,
         T \subseteq S \cup {x},
         \A y \in S : n[y] \in Nat, \A y \in T : m[y] \in Nat,
         \A y \in T \cap S : m[y] <= n[y],
         NEW k \in Nat, x \in T => m[x] <= k
  PROVE  Cardinality(Units(T, m)) <= Cardinality(Units(S, n)) + k
<1> DEFINE q == [y \in S \cup {x} |-> IF y = x THEN k ELSE n[y]]
<1>1. IsFiniteSet(S \cup {x}) /\ \A y \in S \cup {x} : q[y] \in Nat
  BY FS_AddElement
<1>2. \A y \in T : m[y] \in Nat /\ m[y] <= q[y]
  OBVIOUS
<1>3. Cardinality(Units(T, m)) <= Cardinality(Units(S \cup {x}, q))
  BY <1>1, <1>2, UnitsMost
<1>4. Cardinality(Units(S \cup {x}, q)) = Cardinality(Units(S, q)) + q[x]
  BY <1>1, UnitsAdd
<1>5. Units(S, q) = Units(S, n)
  <2>1. \A y \in S : q[y] = n[y]
    OBVIOUS
  <2> HIDE DEF q
  <2> QED  BY <2>1, UnitsSame
<1>6. q[x] = k
  OBVIOUS
<1> HIDE DEF q
<1> QED  BY <1>3, <1>4, <1>5, <1>6

LEMMA UploadDue ==
  ASSUME TypeOK, PlacesMatch, WebInv, \A i \in Jobs : SentOK(i),
         TypeOK', PlacesMatch', \A i \in Jobs : SentOK(i)', config' = config,
         NEW a \in Web, NEW j \in Jobs, Upload(j), job[j].token[1] = a,
         \A i \in Jobs \ {j} : job'[i] = job[i]
  PROVE  Due(a)' = Due(a) - 1
<1>0. /\ job[j].place = "generating" /\ job'[j].place = "generating"
      /\ job'[j].sent = job[j].sent + 1 /\ job'[j].token = job[j].token
      /\ job'[j].picked = job[j].picked /\ job'[j].routes = job[j].routes
  BY UploadFields
<1>1. job[j].picked # None /\ job[j].picked[1] = a
  <2>1. job[j].picked # None /\ job[j].token # None
    BY <1>0, NoneIs DEF PlacesMatch, JobOK
  <2> QED  BY <2>1, WebTokenOf DEF Account
<1>2. j \in Uploaders(a) /\ j \in Uploaders(a)'
  BY <1>0, <1>1, UploaderNext
<1>3. Uploaders(a)' = Uploaders(a)
  <2>1. \A i \in Jobs \ {j} : i \in Uploaders(a)' <=> i \in Uploaders(a)
    BY UploaderNext
  <2>2. Uploaders(a)' \subseteq Jobs /\ Uploaders(a) \subseteq Jobs
    BY DEF Uploaders
  <2> QED  BY <1>2, <2>1, <2>2
<1>4. /\ IsFiniteSet(Uploaders(a)) /\ Uploaders(a) \subseteq Jobs
      /\ \A i \in Uploaders(a) : ToSend[i] \in Nat
  BY UploaderIs
<1>5. \A i \in Uploaders(a) : ToSend'[i] \in Nat
  BY <1>3, UploaderPicked, SentNext
<1>6. \A i \in Uploaders(a) \ {j} : ToSend'[i] = ToSend[i]
  BY <1>4, SameWeight DEF ToSend
<1>7. ToSend'[j] = ToSend[j] - 1
  <2>1. Weight(j)' = Weight(j) /\ Weight(j) \in Nat /\ job[j].sent \in Nat
    BY <1>0, SameWeight, WeightIs, JobFields DEF TypeOK
  <2>2. ToSend[j] = Weight(j) - job[j].sent /\ ToSend'[j] = Weight(j)' - job'[j].sent
    BY DEF ToSend
  <2> QED  BY <1>0, <2>1, <2>2
<1>8. Cardinality(Units(Uploaders(a), ToSend')) = Cardinality(Units(Uploaders(a), ToSend)) - 1
  BY <1>2, <1>4, <1>5, <1>6, <1>7, OneLess
<1>9. Due(a)' = Cardinality(Units(Uploaders(a)', ToSend'))
  BY DEF Due, Units
<1> QED  BY <1>3, <1>8, <1>9 DEF Due

(* What the leases reserve covers the generations.                         *)
LEMMA DueLeased ==
  ASSUME TypeOK, PlacesMatch, WebInv, LeaseInv, \A i \in Jobs : SentOK(i),
         UsePG, lapses = 0, NEW a \in Web
  PROVE  /\ Due(a) <= Leased(<<a, 0>>) /\ Leased(<<a, 0>>) \in Nat
         /\ Cardinality(Uploaders(a)) <= Cardinality(LeasesOn(<<a, 0>>))
<1> DEFINE S == Uploaders(a)
           L == LeasesOn(<<a, 0>>)
           w == [l \in leases |-> l.weight]
<1>1. /\ IsFiniteSet(S) /\ S \subseteq Jobs
      /\ \A i \in S : ToSend[i] \in Nat /\ ToSend[i] <= Weight(i) /\ Weight(i) \in Nat
  BY UploaderIs
<1>2. IsFiniteSet(L) /\ L \subseteq leases
  BY LeasesOnFinite DEF LeaseInv, LeasesOn
<1>3. ASSUME NEW i \in S
      PROVE  /\ LeaseOf(i) \in L /\ LeaseOf(i).job = i
             /\ w[LeaseOf(i)] = Weight(i)
  <2>1. i \in Jobs /\ job[i].place = "generating" /\ job[i].token[1] = a
    BY DEF Uploaders, At
  <2>2. job[i].token = <<a, 0>>
    BY <2>1, WebTokenOf, NoneIs DEF PlacesMatch, JobOK
  <2>3. LeaseOf(i) \in leases
    BY <2>1 DEF LeaseInv, GenerationsLeased, At
  <2> QED  BY <2>2, <2>3 DEF LeaseOf, LeasesOn
<1>4. \A l \in L : w[l] \in Nat
  BY <1>2, LeaseFields
<1>5. IsFiniteSet(Units(L, w)) /\ Cardinality(Units(L, w)) \in Nat
  BY <1>2, <1>4, UnitsFinite
<1>6. Cardinality(Units(S, ToSend)) <= Cardinality(Units(L, w))
  <2> DEFINE f == [p \in Units(S, ToSend) |-> <<LeaseOf(p[1]), p[2]>>]
  <2>1. ASSUME NEW p \in Units(S, ToSend)
        PROVE  /\ p = <<p[1], p[2]>> /\ p[1] \in S
               /\ <<LeaseOf(p[1]), p[2]>> \in Units(L, w)
    <3>1. PICK i \in S : p \in {i} \X (1 .. ToSend[i])
      BY DEF Units
    <3>2. p = <<p[1], p[2]>> /\ p[1] = i /\ p[2] \in 1 .. ToSend[i]
      BY <3>1
    <3>3. p[2] \in 1 .. w[LeaseOf(i)]
      BY <1>1, <1>3, <3>2
    <3>4. <<LeaseOf(i), p[2]>> \in {LeaseOf(i)} \X (1 .. w[LeaseOf(i)])
      BY <3>3
    <3>5. <<LeaseOf(i), p[2]>> \in Units(L, w)
      BY <1>3, <3>4 DEF Units
    <3> QED  BY <3>2, <3>5
  <2>2. f \in [Units(S, ToSend) -> Units(L, w)]
    BY <2>1
  <2>3. ASSUME NEW p \in Units(S, ToSend), NEW q \in Units(S, ToSend), f[p] = f[q]
        PROVE  p = q
    <3>1. LeaseOf(p[1]) = LeaseOf(q[1]) /\ p[2] = q[2]
      BY <2>3
    <3>2. p[1] = q[1]
      <4>1. p[1] \in S /\ q[1] \in S
        BY <2>1
      <4>2. LeaseOf(p[1]).job = p[1] /\ LeaseOf(q[1]).job = q[1]
        BY <1>3, <4>1
      <4> QED  BY <3>1, <4>2
    <3> QED  BY <2>1, <3>1, <3>2
  <2>4. f \in Injection(Units(S, ToSend), Units(L, w))
    BY <2>2, <2>3 DEF Injection, IsInjective
  <2> HIDE DEF f
  <2> QED  BY <1>5, <2>4, FS_Injection
<1>7. Cardinality(S) <= Cardinality(L)
  <2> DEFINE g == [i \in S |-> LeaseOf(i)]
  <2>1. g \in Injection(S, L)
    BY <1>3 DEF Injection, IsInjective
  <2> HIDE DEF g
  <2> QED  BY <1>2, <2>1, FS_Injection
<1> QED  BY <1>5, <1>6, <1>7 DEF Due, Leased

(* A request joins the others: acquireLease, or without leases Pick.       *)
LEMMA JoinsDue ==
  ASSUME TypeOK, PlacesMatch, \A i \in Jobs : SentOK(i),
         TypeOK', PlacesMatch', \A i \in Jobs : SentOK(i)', config' = config,
         NEW a, NEW j \in Jobs, j \notin Uploaders(a),
         job'[j].routes = job[j].routes,
         \A i \in Jobs \ {j} : job'[i] = job[i]
  PROVE  Due(a)' <= Due(a) + Weight(j)
<1>1. /\ IsFiniteSet(Uploaders(a)) /\ Uploaders(a) \subseteq Jobs
      /\ \A i \in Uploaders(a) : ToSend[i] \in Nat
  BY UploaderIs
<1>2. Uploaders(a)' \subseteq Uploaders(a) \cup {j}
  <2>1. \A i \in Jobs \ {j} : i \in Uploaders(a)' <=> i \in Uploaders(a)
    BY UploaderNext
  <2>2. Uploaders(a)' \subseteq Jobs
    BY DEF Uploaders
  <2> QED  BY <2>1, <2>2
<1>3. \A i \in Uploaders(a)' : ToSend'[i] \in Nat /\ ToSend'[i] <= Weight(i)'
  BY UploaderPicked, SentNext
<1>4. \A i \in Uploaders(a) \ {j} : ToSend'[i] = ToSend[i]
  BY <1>1, SameWeight DEF ToSend
<1>5. Weight(j)' = Weight(j) /\ Weight(j) \in Nat
  BY SameWeight, WeightIs DEF TypeOK
<1>6. \A i \in Uploaders(a)' \cap Uploaders(a) : ToSend'[i] <= ToSend[i]
  BY <1>1, <1>4
<1>7. Cardinality(Units(Uploaders(a)', ToSend'))
        <= Cardinality(Units(Uploaders(a), ToSend)) + Weight(j)
  BY <1>1, <1>2, <1>3, <1>5, <1>6, OneMore
<1>8. Due(a)' = Cardinality(Units(Uploaders(a)', ToSend'))
  BY DEF Due, Units
<1> QED  BY <1>7, <1>8 DEF Due

LEMMA LeasedJoin ==
  ASSUME TypeOK, PlacesMatch, WebInv, LeaseInv, UploadsInv, UsePG, lapses = 0,
         NEW a \in Web \ overtaken', NEW j \in Jobs, AcquireLease(j),
         job[j].token[1] = a, file[a] # Gone, Due(a) <= file[a].uploads,
         file[a].uploads \in Nat
  PROVE  Due(a) + Weight(j) <= file[a].uploads
<1>0. Weight(j) \in Nat /\ Due(a) \in Nat
  BY WeightIs, UploaderIs DEF TypeOK, UploadsInv
<1>1. job[j].token = <<a, 0>> /\ Account(j) = a
  <2>1. job[j].picked # None /\ job[j].token # None
    BY NoneIs DEF AcquireLease, At, PlacesMatch, JobOK
  <2> QED  BY <2>1, WebTokenOf
<1>2. CASE Weight(j) = 0
  BY <1>0, <1>2
<1>3. CASE Weight(j) > 0
  <2>1. /\ Leased(<<a, 0>>) + Weight(j) <= job[j].view[a].uploads
        /\ job[j].view[a] = file[a]
    BY <1>1, <1>3 DEF AcquireLease, Covered
  <2>2. Due(a) <= Leased(<<a, 0>>) /\ Leased(<<a, 0>>) \in Nat
    BY DueLeased DEF UploadsInv
  <2> QED  BY <1>0, <2>1, <2>2
<1> QED  BY <1>0, <1>2, <1>3

LEMMA PickedJoin ==
  ASSUME TypeOK, PlacesMatch, Next, WebInv, PoolMatchesHolders, UploadsInv, ~UsePG, OneProcess,
         NEW a \in Web \ overtaken', NEW j \in Jobs, At(j, "picking"), Takes(j, a),
         file[a] # Gone, Due(a) <= file[a].uploads, file[a].uploads \in Nat
  PROVE  Due(a) + Weight(j) <= file[a].uploads
<1>0. Weight(j) \in Nat /\ Due(a) \in Nat /\ a \in Accounts /\ ProcOf[j] \in Procs
  BY WeightIs, UploaderIs DEF TypeOK, UploadsInv, Web
<1>1. CASE Weight(j) = 0
  BY <1>0, <1>1
<1>2. CASE Weight(j) > 0
  <2> DEFINE p == ProcOf[j]
             t == TokenOf(a, job[j].view[a])
  <2>1. job[j].view[a] = file[a]
    BY <1>2 DEF Takes
  <2>2. t = <<a, 0>> /\ t \in Tokens
    <3>1. file[a].token = 0
      BY DEF WebInv, WebSeen, WebRecord
    <3> QED  BY <2>1, <3>1, WebToken DEF TokenOf
  <2>3. file[a].uploads - reserved[p][t] >= Weight(j)
    BY <1>2, <2>1 DEF Takes, Usable
  <2>4. /\ reserved[p][t] = Cardinality(Units(Pickers(p, t), W))
        /\ reserved[p][t] \in Nat
    BY <1>0, <2>2, CountedIs DEF Counted, TypeOK
  <2>5. Due(a) <= Cardinality(Units(Pickers(p, t), W))
    <3>1. Uploaders(a) \subseteq Pickers(p, t)
      <4>1. ASSUME NEW i \in Uploaders(a)  PROVE i \in Pickers(p, t)
        <5>1. i \in Jobs /\ job[i].picked # None /\ Account(i) = a
          BY <4>1 DEF Uploaders
        <5>2. job[i].picked = t
          BY <2>2, <5>1, WebTokenOf
        <5>3. i \in config.actors /\ j \in config.actors
          BY <5>1 DEF PlacesMatch, JobOK, Bare, At
        <5> QED  BY <5>1, <5>2, <5>3 DEF OneProcess, Pickers
      <4> QED  BY <4>1
    <3>2. IsFiniteSet(Pickers(p, t)) /\ \A i \in Pickers(p, t) : W[i] \in Nat
      BY HoldersFinite, WeightIs DEF W, TypeOK
    <3>3. \A i \in Uploaders(a) : ToSend[i] \in Nat /\ ToSend[i] <= W[i]
      BY UploaderIs DEF UploadsInv, W
    <3> QED  BY <3>1, <3>2, <3>3, UnitsMost DEF Due
  <2> QED  BY <1>0, <2>3, <2>4, <2>5
<1> QED  BY <1>0, <1>1, <1>2

CapacityInv == /\ TypeOK /\ PlacesMatch /\ PoolMatchesHolders /\ LeaseInv /\ WebInv
               /\ SlotsBounded /\ LeasesBounded /\ UploadsInv

LEMMA UploadsStep ==
  ASSUME CapacityInv, Next
  PROVE  UploadsInv'
<1>0. /\ config' = config /\ Web' = Web /\ UsePG' = UsePG
      /\ OneProcess' = OneProcess /\ (lapses' = 0 => lapses = 0)
  BY SameConfig, LapseSteps DEF CapacityInv, Web, Codex, UsePG, OneProcess, ProcOf
<1>1. /\ TypeOK /\ PlacesMatch /\ WebInv /\ LeaseInv /\ PoolMatchesHolders
      /\ \A i \in Jobs : SentOK(i)
  BY DEF CapacityInv, UploadsInv
<1>2. TypeOK' /\ PlacesMatch' /\ \A i \in Jobs : SentOK(i)'
  BY <1>1, TypesStay, SentStep
<1> SUFFICES ASSUME Guarded, NEW a \in Web \ overtaken', file'[a] # Gone
             PROVE  Due(a)' <= file'[a].uploads
  BY <1>0, <1>2 DEF UploadsInv, Guarded
<1>3. /\ a \in Accounts /\ a \notin overtaken /\ file[a] # Gone
      /\ file'[a].uploads = file[a].uploads \/ Uploaded(a)
      /\ file[a].uploads \in Nat /\ Due(a) <= file[a].uploads
      /\ Due(a) \in Nat /\ Due(a)' \in Nat /\ \A j \in Jobs : Weight(j) \in Nat
  BY <1>1, <1>2, AllowanceMoves, UploaderIs, DueNext, WeightIs DEF TypeOK, CapacityInv, UploadsInv, Web
<1>4. CASE Uploaded(a)
  <2>1. PICK j \in Jobs :
          /\ Upload(j) /\ job[j].token[1] = a
          /\ file'[a].uploads = IF file[a].uploads > 0 THEN file[a].uploads - 1
                                ELSE file[a].uploads
    BY <1>4 DEF Uploaded
  <2>2. \A i \in Jobs \ {j} : job'[i] = job[i]
    BY <2>1 DEF Upload
  <2>3. Due(a)' = Due(a) - 1
    BY <1>0, <1>1, <1>2, <2>1, <2>2, UploadDue
  <2> QED  BY <1>3, <2>1, <2>3
<1>5. CASE file'[a].uploads = file[a].uploads /\ \A i \in Jobs : NoMore(i, a)
  <2>1. Due(a)' <= Due(a)
    BY <1>1, <1>2, <1>5, NoMoreDue
  <2> QED  BY <1>3, <1>5, <2>1
<1>6. ASSUME NEW j \in Jobs, Joins(j, a), \A i \in Jobs \ {j} : job'[i] = job[i],
             file'[a].uploads = file[a].uploads
      PROVE  Due(a)' <= file'[a].uploads
  <2>1. j \notin Uploaders(a) /\ job'[j].routes = job[j].routes
    <3>1. CASE UsePG
      BY <1>1, <3>1, <1>6, AcquireLeaseFields DEF Joins, Uploaders, At
    <3>2. CASE ~UsePG
      BY <1>1, <3>2, <1>6, TakesFields, <1>3 DEF Joins, Uploaders, At, PlacesMatch, JobOK, Bare
    <3> QED  BY <3>1, <3>2
  <2>2. Due(a)' <= Due(a) + Weight(j)
    BY <1>0, <1>1, <1>2, <1>6, <2>1, JoinsDue
  <2>3. Due(a) + Weight(j) <= file[a].uploads
    BY <1>1, <1>3, <1>6, LeasedJoin, PickedJoin DEF Joins, Guarded, CapacityInv
  <2> QED  BY <1>3, <1>6, <2>2, <2>3
<1> QED  BY <1>1, <1>3, <1>4, <1>5, <1>6, Joining

LEMMA CapacityStep ==
  ASSUME CapacityInv, [Next]_vars
  PROVE  CapacityInv'
<1>0. /\ TypeOK /\ PlacesMatch /\ PoolMatchesHolders /\ LeaseInv /\ WebInv
      /\ SlotsBounded /\ LeasesBounded /\ UploadsInv
  BY DEF CapacityInv
<1>1. /\ TypeOK' /\ PlacesMatch' /\ PoolMatchesHolders' /\ LeaseInv' /\ WebInv'
  BY <1>0, TypesStay, PoolStep, LeaseStep, WebStep
<1>2. SlotsBounded' /\ LeasesBounded' /\ UploadsInv'
  <2>1. CASE Next
    BY <1>0, <2>1, SlotsStep, LeasesBoundStep, UploadsStep
  <2>2. CASE UNCHANGED vars
    <3>1. SlotsBounded' /\ LeasesBounded'
      BY <1>0, <2>2 DEF vars, pool, SlotsBounded, LeasesBounded, LeasesOn,
                        Web, Codex, MaxConc
    <3>2. \A i \in Jobs : SentOK(i)'
      BY <1>0, <2>2 DEF vars, UploadsInv, SentOK, Weight
    <3>3. \A a : Due(a)' = Due(a)
      <4>1. ToSend' = ToSend
        BY <2>2 DEF vars, ToSend, Weight
      <4>2. \A a : Uploaders(a)' = Uploaders(a)
        BY <2>2 DEF vars, Uploaders, At, Account, UsePG
      <4> QED  BY <4>1, <4>2 DEF Due, Units
    <3>4. Guarded' = Guarded /\ Web' = Web
      BY <2>2 DEF vars, bounds, Guarded, OneProcess, UsePG, ProcOf, Web, Codex
    <3> QED  BY <1>0, <2>2, <3>1, <3>2, <3>3, <3>4 DEF vars, UploadsInv
  <2> QED  BY <2>1, <2>2
<1> QED  BY <1>1, <1>2 DEF CapacityInv

LEMMA InitCapacity ==
  ASSUME Init
  PROVE  CapacityInv
<1>0. /\ TypeOK /\ PlacesMatch /\ PoolMatchesHolders /\ LeaseInv /\ WebInv
  BY InitTypes, InitCounted, InitWeb
<1>1. /\ leases = {} /\ MaxConc \in Nat /\ inflight = [p \in Procs |-> [t \in Tokens |-> 0]]
      /\ \A j \in Jobs : job[j].picked = None /\ job[j].place = "start"
  BY <1>0, ConfigTypes DEF Init, TypeOK
<1>2. SlotsBounded
  <2>1. ASSUME NEW p \in Procs, NEW a \in Web  PROVE inflight[p][<<a, 0>>] <= MaxConc
    <3>1. inflight[p][<<a, 0>>] = 0
      BY <1>0, <1>1, WebToken
    <3> QED  BY <1>1, <3>1
  <2> QED  BY <2>1 DEF SlotsBounded
<1>3. LeasesBounded
  <2>1. \A t : LeasesOn(t) = {}
    BY <1>1 DEF LeasesOn
  <2> QED  BY <1>1, <2>1, FS_EmptySet DEF LeasesBounded
<1>4. UploadsInv
  <2>1. \A a : Uploaders(a) = {}
    BY <1>1 DEF Uploaders, At
  <2>2. \A a : Due(a) = 0
    <3>1. Units({}, ToSend) = {}
      BY DEF Units
    <3> QED  BY <2>1, <3>1, FS_EmptySet DEF Due
  <2>3. ASSUME NEW a \in Web, file[a] # Gone  PROVE file[a].uploads \in Nat
    BY <2>3, ConfigTypes DEF Init, Fresh, Web
  <2> QED  BY <1>1, <2>2, <2>3 DEF UploadsInv, SentOK
<1> QED  BY <1>0, <1>2, <1>3, <1>4 DEF CapacityInv

LEMMA UploadsAreCovered ==
  ASSUME CapacityInv
  PROVE  UploadsCovered
<1>0. /\ TypeOK /\ PlacesMatch /\ WebInv /\ UploadsInv
      /\ \A i \in Jobs : SentOK(i)
  BY DEF CapacityInv, UploadsInv
<1> SUFFICES ASSUME NEW a \in Web \ overtaken, file[a] # Gone, Guarded
             PROVE  Cardinality(Units(Generating(a), ToSend)) <= file[a].uploads
  BY DEF UploadsCovered, Guarded, Web
<1>1. Due(a) <= file[a].uploads /\ Due(a) \in Nat
  BY <1>0, UploaderIs DEF UploadsInv
<1>2. Generating(a) \subseteq Uploaders(a)
  <2> SUFFICES ASSUME NEW j \in Jobs, At(j, "generating"), job[j].token[1] = a
               PROVE  j \in Uploaders(a)
    BY DEF Generating
  <2>1. job[j].picked # None /\ job[j].token # None
    BY <1>0, NoneIs DEF At, PlacesMatch, JobOK
  <2>2. Account(j) = a
    BY <1>0, <2>1, WebTokenOf
  <2> QED  BY <2>1, <2>2 DEF Uploaders
<1>3. /\ IsFiniteSet(Uploaders(a))
      /\ \A j \in Uploaders(a) : ToSend[j] \in Nat
  BY <1>0, UploaderIs
<1>4. Cardinality(Units(Generating(a), ToSend)) <= Due(a)
  <2>1. \A j \in Generating(a) : ToSend[j] \in Nat /\ ToSend[j] <= ToSend[j]
    BY <1>2, <1>3
  <2> QED  BY <1>2, <1>3, <2>1, UnitsMost DEF Due
<1>5. Cardinality(Units(Generating(a), ToSend)) \in Nat
  <2>1. IsFiniteSet(Generating(a))
    BY <1>2, <1>3, FS_Subset
  <2> QED  BY <1>2, <1>3, <2>1, UnitsFinite
<1>6. file[a].uploads \in Int
  <2>1. file[a] \in Records
    BY <1>0, ViewTypes DEF TypeOK, Web
  <2> QED  BY SMTT(30), <1>0, <2>1, ConfigTypes DEF Records, Unknown, TypeOK
<1> QED  BY <1>1, <1>4, <1>5, <1>6

LEMMA GenerationsBounded ==
  ASSUME CapacityInv
  PROVE  WebConcurrency
<1>0. /\ TypeOK /\ PlacesMatch /\ WebInv /\ LeaseInv /\ PoolMatchesHolders
      /\ MaxConc \in Nat /\ \A i \in Jobs : SentOK(i)
  BY ConfigTypes DEF CapacityInv, UploadsInv, TypeOK
<1> SUFFICES ASSUME NEW a \in Web, (UsePG /\ lapses = 0) \/ OneProcess
             PROVE  Cardinality(Generating(a)) <= MaxConc
  BY DEF WebConcurrency, Web
<1>1. <<a, 0>> \in Tokens
  BY <1>0, WebToken
<1>g. ASSUME NEW j \in Generating(a)
      PROVE  /\ j \in Jobs /\ job[j].token = <<a, 0>> /\ job[j].picked # None
             /\ j \in config.actors
  <2>1. j \in Jobs /\ At(j, "generating") /\ job[j].token[1] = a
    BY DEF Generating
  <2>2. /\ job[j].picked # None /\ job[j].token # None /\ j \in config.actors
    BY <1>0, <2>1, NoneIs DEF At, PlacesMatch, JobOK
  <2> QED  BY <1>0, <2>1, <2>2, WebTokenOf
<1>2. CASE UsePG /\ lapses = 0
  <2>1. Generating(a) = Uploaders(a)
    BY <1>2 DEF Generating, Uploaders
  <2>2. Cardinality(Uploaders(a)) <= Cardinality(LeasesOn(<<a, 0>>))
    BY <1>0, <1>2, DueLeased
  <2>3. /\ Cardinality(LeasesOn(<<a, 0>>)) <= MaxConc
        /\ Cardinality(LeasesOn(<<a, 0>>)) \in Nat
    BY <1>0, <1>1, LeasesOnFinite DEF CapacityInv, LeasesBounded, LeaseInv
  <2>4. Cardinality(Uploaders(a)) \in Nat
    BY <1>0, UploaderIs, FS_CardinalityType
  <2> QED  BY <1>0, <2>1, <2>2, <2>3, <2>4
<1>3. CASE OneProcess
  <2>1. CASE Generating(a) = {}
    BY <1>0, <2>1, FS_EmptySet
  <2>2. ASSUME NEW j \in Generating(a)  PROVE Cardinality(Generating(a)) <= MaxConc
    <3> DEFINE p == ProcOf[j]
    <3>1. p \in Procs
      BY <1>0, <1>g, WeightIs DEF TypeOK
    <3>2. Generating(a) \subseteq Holders(p, <<a, 0>>)
      BY <1>1, <1>3, <1>g, NoneIs DEF OneProcess, Holders, Selected
    <3>3. /\ IsFiniteSet(Holders(p, <<a, 0>>))
          /\ Cardinality(Holders(p, <<a, 0>>)) = inflight[p][<<a, 0>>]
          /\ inflight[p][<<a, 0>>] <= MaxConc
      BY <1>0, <1>1, <3>1, HoldersFinite DEF PoolMatchesHolders, SlotsBounded, CapacityInv
    <3> HIDE DEF p
    <3> QED  BY <1>0, <3>2, <3>3, SubsetAtMost
  <2> QED  BY <2>1, <2>2
<1> QED  BY <1>2, <1>3

(* A web account generates no more images at a time than                   *)
(* image_account_concurrency, and what is left to upload in all            *)
(* generations together is covered by its allowance: with leases in all    *)
(* processes while none lapses, without them in one process.               *)
THEOREM CapacityHolds == Spec => []CapacityRespected
<1>1. Init => CapacityInv
  BY InitCapacity
<1>2. CapacityInv /\ [Next]_vars => CapacityInv'
  BY CapacityStep
<1>3. CapacityInv => CapacityRespected
  BY UploadsAreCovered, GenerationsBounded DEF CapacityRespected, CapacityInv
<1> QED  BY <1>1, <1>2, <1>3, PTL DEF Spec
=============================================================================
