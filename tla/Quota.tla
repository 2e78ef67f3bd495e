------------------------------- MODULE Quota -------------------------------
(***************************************************************************)
(* The image quota of one API key (auth.go): a daily, a monthly and a      *)
(* total allowance, charged before a request is served and given back when *)
(* it fails, possibly days later.  The chat quota is the same code over    *)
(* other fields.  A charge or a refund is one atomic update of             *)
(* auth_keys.json; in between the calendar moves on and an administrator   *)
(* edits, resets, disables or deletes the key.                             *)
(***************************************************************************)
EXTENDS Integers

CONSTANTS
  Requests,       \* requests for images made with the key
  Amount,         \* [Requests -> images asked for]
  Limits,         \* the allowances an administrator may set
  DaysPerMonth,   \* length of a month
  MaxDay, MaxEdit \* bounds: days that pass, edits of the key

ASSUME QuotaAssumption ==
  /\ Amount \in [Requests -> Nat \ {0}] /\ Limits \subseteq Int
  /\ DaysPerMonth \in Nat \ {0} /\ MaxDay \in Nat /\ MaxEdit \in Nat

Windows == {"daily", "monthly", "total"}
Stages == {"new", "accepted", "charged", "refused", "delivered", "refunded"}

VARIABLES
  used, quota, unlimited, \* of the key, per window
  stamp,          \* the day or month the used counter of a window is for
  enabled, exists,
  day,            \* the calendar
  stage,          \* what became of each request
  (* History. *)
  epoch,          \* per window: how often it began anew
  since,          \* per request and window: the epoch it was charged in
  spent,          \* per window: charged in this epoch and not refunded
  back,           \* per window: refunded in this epoch for earlier ones
  edits

quotaVars == <<used, quota, unlimited, stamp, enabled, exists, day, stage,
               epoch, since, spent, back, edits>>
key == <<used, quota, unlimited, stamp, enabled, exists>>
history == <<epoch, since, spent, back>>

QuotaTypeOK ==
  /\ used \in [Windows -> Nat] /\ quota \in [Windows -> Limits \cup {0}]
  /\ unlimited \in [Windows -> BOOLEAN] /\ stamp \in [Windows -> Nat]
  /\ enabled \in BOOLEAN /\ exists \in BOOLEAN
  /\ day \in 0 .. MaxDay /\ edits \in 0 .. MaxEdit
  /\ stage \in [Requests -> Stages]
  /\ epoch \in [Windows -> Nat] /\ since \in [Requests -> [Windows -> Nat]]
  /\ spent \in [Windows -> Int] /\ back \in [Windows -> Nat]

(* todayKey, monthKey; the total never starts anew.                        *)
Stamp(w, d) == CASE w = "daily" -> d
                 [] w = "monthly" -> d \div DaysPerMonth
                 [] w = "total" -> 0
Today(w) == Stamp(w, day)

(* handleAuthUsers (POST): normalizeServiceKey makes a key without quota   *)
(* state unlimited before the fields of the request are applied.           *)
QuotaInit ==
  /\ used = [w \in Windows |-> 0] /\ quota = [w \in Windows |-> 0]
  /\ unlimited = [w \in Windows |-> TRUE]
  /\ day = 0 /\ stamp = [w \in Windows |-> 0]
  /\ enabled = TRUE /\ exists = TRUE
  /\ stage = [r \in Requests |-> "new"] /\ edits = 0
  /\ epoch = [w \in Windows |-> 0]
  /\ since = [r \in Requests |-> [w \in Windows |-> 0]]
  /\ spent = [w \in Windows |-> 0] /\ back = [w \in Windows |-> 0]

-----------------------------------------------------------------------------
Enough(w, u, n) == unlimited[w] \/ quota[w] - u >= n

(* Mutant: a new day resets every counter.                                 *)
ResetAll == [w \in Windows |-> IF stamp["daily"] = day THEN used[w] ELSE 0]

(* resetPeriods: counters of a finished period start at 0.                 *)
ResetPeriods ==
  [w \in Windows |-> IF stamp[w] = Today(w) THEN used[w] ELSE 0]

(* Mutant: enough looks at the total only.                                 *)
ChargeTotal(r) ==
  LET n == Amount[r]  u == ResetPeriods IN
  /\ stage[r] = "accepted" /\ exists /\ Enough("total", u["total"], n)
  /\ used' = [w \in Windows |-> u[w] + n]
  /\ stamp' = [w \in Windows |-> Today(w)]
  /\ stage' = [stage EXCEPT ![r] = "charged"]
  /\ since' = [since EXCEPT ![r] = epoch]
  /\ spent' = [w \in Windows |-> spent[w] + n]
  /\ UNCHANGED <<quota, unlimited, enabled, exists, day, epoch, back, edits>>

(* requireIdentity: the key exists and is enabled when the request comes.  *)
Accept(r) ==
  /\ stage[r] = "new"
  /\ stage' = [stage EXCEPT ![r] = IF exists /\ enabled THEN "accepted"
                                   ELSE "refused"]
  /\ UNCHANGED <<key, day, history, edits>>

(* consumeImage: some update later; only its existence is looked at again. *)
Charge(r) ==
  LET n == Amount[r]  u == ResetPeriods IN
  /\ stage[r] = "accepted" /\ exists
  /\ \A w \in Windows : Enough(w, u[w], n)
  /\ used' = [w \in Windows |-> u[w] + n]
  /\ stamp' = [w \in Windows |-> Today(w)]
  /\ stage' = [stage EXCEPT ![r] = "charged"]
  /\ since' = [since EXCEPT ![r] = epoch]
  /\ spent' = [w \in Windows |-> spent[w] + n]
  /\ UNCHANGED <<quota, unlimited, enabled, exists, day, epoch, back, edits>>

(* The key is gone, or one allowance is exhausted: then not even the reset *)
(* of the periods is stored.                                               *)
Refuse(r) ==
  /\ stage[r] = "accepted"
  /\ \/ ~exists
     \/ \E w \in Windows : ~Enough(w, ResetPeriods[w], Amount[r])
  /\ stage' = [stage EXCEPT ![r] = "refused"]
  /\ UNCHANGED <<key, day, history, edits>>

Deliver(r) ==
  /\ stage[r] = "charged" /\ stage' = [stage EXCEPT ![r] = "delivered"]
  /\ UNCHANGED <<key, day, history, edits>>

Clamp(i) == IF i > 0 THEN i ELSE 0

(* Mutant: the total is not given back.                                    *)
RefundPeriods(r) ==
  [w \in Windows |-> IF w = "total" THEN used[w]
                     ELSE Clamp(used[w] - Amount[r])]

(* refundQuota: the same three counters, whatever period they are for now. *)
RefundedCounters(r) == [w \in Windows |-> Clamp(used[w] - Amount[r])]

(* refundImage.  A key that was deleted meanwhile is not found; a disabled *)
(* one is given back all the same (taskOwnerIdentity).                     *)
Refund(r) ==
  LET same(w) == since[r][w] = epoch[w] IN
  /\ stage[r] = "charged" /\ stage' = [stage EXCEPT ![r] = "refunded"]
  /\ used' = IF exists THEN RefundedCounters(r) ELSE used
  /\ spent' = [w \in Windows |->
                 IF same(w) THEN spent[w] - Amount[r] ELSE spent[w]]
  /\ back' = [w \in Windows |->
                IF same(w) THEN back[w] ELSE back[w] + Amount[r]]
  /\ UNCHANGED <<quota, unlimited, stamp, enabled, exists, day, epoch,
                 since, edits>>

-----------------------------------------------------------------------------
(* A window starts anew: nothing is spent in it yet.                       *)
Renew(ws) ==
  /\ epoch' = [w \in Windows |-> IF w \in ws THEN epoch[w] + 1 ELSE epoch[w]]
  /\ spent' = [w \in Windows |-> IF w \in ws THEN 0 ELSE spent[w]]
  /\ back' = [w \in Windows |-> IF w \in ws THEN 0 ELSE back[w]]
  /\ UNCHANGED since

NextDay ==
  /\ day < MaxDay /\ day' = day + 1
  /\ Renew({w \in Windows : Stamp(w, day + 1) # Stamp(w, day)})
  /\ UNCHANGED <<key, stage, edits>>

Edit == exists /\ edits < MaxEdit /\ edits' = edits + 1

(* handleAuthUserID (POST): a new allowance, or none.                      *)
SetQuota(w) ==
  /\ Edit
  /\ \E q \in Limits : quota' = [quota EXCEPT ![w] = q]
  /\ \E u \in BOOLEAN : unlimited' = [unlimited EXCEPT ![w] = u]
  /\ UNCHANGED <<used, stamp, enabled, exists, day, stage, history>>

(* reset_image_daily_used and its like.                                    *)
ResetUsed(w) ==
  /\ Edit /\ used' = [used EXCEPT ![w] = 0]
  /\ stamp' = [stamp EXCEPT ![w] = Today(w)] /\ Renew({w})
  /\ UNCHANGED <<quota, unlimited, enabled, exists, day, stage>>

SetEnabled ==
  /\ Edit /\ enabled' = ~enabled
  /\ UNCHANGED <<used, quota, unlimited, stamp, exists, day, stage, history>>

Delete ==
  /\ Edit /\ exists' = FALSE
  /\ UNCHANGED <<used, quota, unlimited, stamp, enabled, day, stage, history>>

QuotaNext ==
  \/ \E r \in Requests :
       Accept(r) \/ Charge(r) \/ Refuse(r) \/ Deliver(r) \/ Refund(r)
  \/ NextDay
  \/ \E w \in Windows : SetQuota(w) \/ ResetUsed(w)
  \/ SetEnabled \/ Delete

QuotaSpec == QuotaInit /\ [][QuotaNext]_quotaVars

-----------------------------------------------------------------------------
(***************************************************************************)
(* Properties                                                              *)
(***************************************************************************)
(* What the key counts as used in the current day, month or in all.        *)
Counted(w) == ResetPeriods[w]

(* The counters never fall behind what was charged in the current window   *)
(* and not given back, except by refunds of requests charged before it     *)
(* began: those lower a counter that does not hold them.                   *)
CountersCover ==
  exists => \A w \in Windows : Counted(w) + back[w] >= spent[w]

(* The counters never charge a user for more than was spent.               *)
CountersFair == exists => \A w \in Windows : Counted(w) <= spent[w]

(* No charge takes a limited window above its allowance by more than was   *)
(* refunded in it for requests charged before it began.                    *)
ChargeWithinQuota ==
  [][\A r \in Requests : stage[r] = "accepted" /\ stage'[r] = "charged" =>
       \A w \in Windows : unlimited[w] \/ spent'[w] <= quota[w] + back[w]]_quotaVars

=============================================================================
