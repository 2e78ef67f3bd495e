-------------------------- MODULE ImageQueueProofs --------------------------
(***************************************************************************)
(* The drawing page, for any finite set of conversations and any number of *)
(* tasks, moves and ticks of the clock: ImageInv holds initially           *)
(* (ImageInitInv), each action keeps it, and it implies the properties of  *)
(* ImageQueue.  WebProofs states the theorems about the web client.        *)
(*                                                                         *)
(* A step of a handler or a runner is composed of operators on the page    *)
(* taken as one record (Tab, Persist, StartedAll, AfterWrite).  There is a *)
(* lemma for each of these operators, about any record that is Fine, and   *)
(* the lemmas on the actions cite them.                                    *)
(***************************************************************************)
EXTENDS ImageQueue, FiniteSetTheorems, FunctionTheorems, SequenceTheorems, TLAPS

-----------------------------------------------------------------------------
(* Requests as sequences.                                                  *)

(* What is left when one request is dropped, and where it is found.        *)
LEMMA RemovedSeq ==
  ASSUME NEW S, NEW s \in Seq(S), NEW i \in DOMAIN s
  PROVE  /\ RemoveAt(s, i) \in Seq(S)
         /\ DOMAIN RemoveAt(s, i) = 1 .. Len(s) - 1
         /\ \A j \in DOMAIN RemoveAt(s, i) :
              /\ j \in DOMAIN s /\ j + 1 \in DOMAIN s
              /\ RemoveAt(s, i)[j] = IF j < i THEN s[j] ELSE s[j + 1]
<1>1. Len(s) \in Nat /\ DOMAIN s = 1 .. Len(s) /\ i \in 1 .. Len(s)
  BY LenProperties
<1>2. \A j \in 1 .. Len(s) : s[j] \in S
  BY ElementOfSeq
<1> DEFINE a == SubSeq(s, 1, i - 1)
           b == SubSeq(s, i + 1, Len(s))
<1>3. /\ a \in Seq(S) /\ Len(a) = i - 1
      /\ \A j \in 1 .. i - 1 : a[j] = s[j]
  <2>1. \A j \in 1 .. i - 1 : s[j] \in S
    BY <1>1, <1>2
  <2>2. /\ SubSeq(s, 1, i - 1) \in Seq(S)
        /\ Len(SubSeq(s, 1, i - 1)) = IF 1 <= i - 1 THEN i - 1 - 1 + 1 ELSE 0
        /\ \A j \in 1 .. i - 1 - 1 + 1 : SubSeq(s, 1, i - 1)[j] = s[1 + j - 1]
    BY <1>1, <2>1, 1 \in Int, i - 1 \in Int, SubSeqProperties
  <2>3. QED
    BY <1>1, <2>2
<1>4. /\ b \in Seq(S) /\ Len(b) = Len(s) - i
      /\ \A j \in 1 .. Len(s) - i : b[j] = s[i + j]
  <2>1. \A j \in i + 1 .. Len(s) : s[j] \in S
    BY <1>1, <1>2
  <2>2. /\ SubSeq(s, i + 1, Len(s)) \in Seq(S)
        /\ Len(SubSeq(s, i + 1, Len(s))) = IF i + 1 <= Len(s) THEN Len(s) - (i + 1) + 1 ELSE 0
        /\ \A j \in 1 .. Len(s) - (i + 1) + 1 : SubSeq(s, i + 1, Len(s))[j] = s[i + 1 + j - 1]
    BY <1>1, <2>1, i + 1 \in Int, Len(s) \in Int, SubSeqProperties
  <2>3. QED
    BY <1>1, <2>2
<1> HIDE DEF a, b
<1>5. RemoveAt(s, i) = a \o b
  BY DEF RemoveAt, a, b
<1>6. /\ a \o b \in Seq(S)
      /\ Len(a \o b) = Len(a) + Len(b)
      /\ \A j \in 1 .. Len(a) + Len(b) :
           (a \o b)[j] = IF j <= Len(a) THEN a[j] ELSE b[j - Len(a)]
  BY <1>3, <1>4, ConcatProperties
<1>7. DOMAIN (a \o b) = 1 .. Len(a \o b)
  BY <1>6, LenProperties
<1>8. ASSUME NEW j \in 1 .. Len(s) - 1
      PROVE  (a \o b)[j] = IF j < i THEN s[j] ELSE s[j + 1]
  <2>1. j \in 1 .. Len(a) + Len(b) /\ j \in Nat /\ i \in Nat /\ Len(s) \in Nat
    BY <1>1, <1>3, <1>4
  <2>2. CASE j < i
    BY <1>3, <1>6, <2>1, <2>2
  <2>3. CASE ~(j < i)
    <3>1. ~(j <= Len(a)) /\ j - Len(a) \in 1 .. Len(s) - i /\ i + (j - Len(a)) = j + 1
      BY <1>1, <1>3, <2>1, <2>3
    <3>2. b[j - Len(a)] = s[j + 1]
      BY <1>4, <3>1
    <3>3. QED
      BY <1>6, <2>1, <2>3, <3>1, <3>2
  <2>4. QED
    BY <2>2, <2>3
<1>9. Len(a \o b) = Len(s) - 1
  BY <1>1, <1>3, <1>4, <1>6
<1>10. \A j \in 1 .. Len(s) - 1 : j \in DOMAIN s /\ j + 1 \in DOMAIN s
  BY <1>1
<1>11. QED
  BY <1>5, <1>6, <1>7, <1>8, <1>9, <1>10

(* A request that changes on the way.                                      *)
LEMMA ChangedSeq ==
  ASSUME NEW S, NEW s \in Seq(S), NEW i \in DOMAIN s, NEW e \in S
  PROVE  [s EXCEPT ![i] = e] \in Seq(S)
<1>1. i \in 1 .. Len(s)
  BY LenProperties
<1>2. QED
  BY <1>1, ExceptSeq

(* A new request.                                                          *)
LEMMA AppendedSeq ==
  ASSUME NEW S, NEW s \in Seq(S), NEW e \in S
  PROVE  /\ Append(s, e) \in Seq(S)
         /\ DOMAIN Append(s, e) = 1 .. Len(s) + 1
         /\ DOMAIN s = 1 .. Len(s) /\ Len(s) \in Nat
         /\ \A j \in DOMAIN s : Append(s, e)[j] = s[j]
         /\ Append(s, e)[Len(s) + 1] = e
<1>1. /\ Append(s, e) \in Seq(S) /\ Len(Append(s, e)) = Len(s) + 1
      /\ \A j \in 1 .. Len(s) : Append(s, e)[j] = s[j]
      /\ Append(s, e)[Len(s) + 1] = e
  BY AppendProperties
<1>2. DOMAIN Append(s, e) = 1 .. Len(Append(s, e)) /\ DOMAIN s = 1 .. Len(s) /\ Len(s) \in Nat
  BY <1>1, LenProperties
<1>3. QED
  BY <1>1, <1>2

(* All requests change at once.                                            *)
LEMMA ReshapedSeq ==
  ASSUME NEW S, NEW T, NEW s \in Seq(S), NEW t,
         t = [i \in DOMAIN s |-> t[i]], \A i \in DOMAIN s : t[i] \in T
  PROVE  t \in Seq(T)
<1>1. Len(s) \in Nat /\ DOMAIN s = 1 .. Len(s)
  BY LenProperties
<1>2. t \in [1 .. Len(s) -> T]
  BY <1>1
<1>3. QED
  BY <1>1, <1>2, SeqDef

(* Every request on the way is one of those allowed.                       *)
LEMMA CallOfSeq ==
  ASSUME NEW S, NEW s \in Seq(S), NEW i \in DOMAIN s
  PROVE  s[i] \in S
<1>1. i \in 1 .. Len(s)
  BY LenProperties
<1>2. QED
  BY <1>1, ElementOfSeq

LEMMA OneSeq ==
  ASSUME NEW S, NEW e \in S
  PROVE  <<e>> \in Seq(S)
OBVIOUS

-----------------------------------------------------------------------------
(* The drawing page.  All of it is about a tab that never left the page:   *)
(* the mount is 1.                                                         *)

IsSeq(s) == s \in Seq({s[i] : i \in DOMAIN s})

PageFields == {"here", "due", "ref", "load", "run", "writes"}

RunFields == {"pc", "wait", "m", "turn", "pend", "broken", "again", "ask", "got"}

Waits == {"mark", "submit", "failmark", "applied", "caught"}

Runner(r) ==
  /\ DOMAIN r = RunFields
  /\ r.m = 1
  /\ r.pc \in Waits \cup {"create", "sleep", "polled", "quota"}

(* A page record, and what its queue holds.                                *)
WriteShape(w) ==
  /\ w.m = 1
  /\ w.by \in {"run", "start", "none"} => w.op \in {"save", "rename"}
  /\ w.by \in {"run", "start"} => w.op = "save" /\ w.conv \in Convs /\ DOMAIN w.items = {w.conv}
  /\ w.by \in {"recover", "sync"} => w.op = "save"
  /\ w.by \in {"delete", "early"} => w.op = "delete"
  /\ w.by = "clear" => w.op = "clear"
  /\ w.by \in {"run", "start", "none", "recover", "sync", "delete", "early", "clear"}

PageShape(p) ==
  /\ DOMAIN p = PageFields
  /\ p.here \in {0, 1}
  /\ DOMAIN p.ref = Mounts
  /\ DOMAIN p.load = Mounts
  /\ DOMAIN p.run = Convs
  /\ \A c \in Convs : p.run[c] = NoRun \/ Runner(p.run[c])
  /\ \A m \in Mounts \ {1} : p.load[m].pc = "none"
  /\ p.load[1].pc \in {"list", "save", "fetch", "done"}
  /\ IsSeq(p.writes)
  /\ \A i \in DOMAIN p.writes : WriteShape(p.writes[i])

(* A queued write of a runner finds that runner waiting, and is its only   *)
(* one; the same for the load.                                             *)
Awaited(p) ==
  /\ \A i \in DOMAIN p.writes : p.writes[i].by = "run" =>
       LET c == p.writes[i].conv IN
         /\ Runner(p.run[c]) /\ p.run[c].pc \in Waits /\ p.run[c].wait = TRUE
         /\ \A j \in DOMAIN p.writes : p.writes[j].by = "run" /\ p.writes[j].conv = c => j = i
  /\ \A i \in DOMAIN p.writes : p.writes[i].by \in {"recover", "sync"} =>
       /\ p.load[1].pc = "save"
       /\ \A j \in DOMAIN p.writes : p.writes[j].by \in {"recover", "sync"} => j = i

Saving(p, c) == {i \in DOMAIN p.writes : p.writes[i].op = "save" /\ c \in DOMAIN p.writes[i].items}

(* Every conversation anywhere is one that was made.                       *)
Known(p, d, k) ==
  /\ k.ids \subseteq Convs /\ k.kept \subseteq k.ids
  /\ DOMAIN p.ref[1] \subseteq k.ids
  /\ DOMAIN p.load[1].items \subseteq k.ids
  /\ DOMAIN d \subseteq k.ids
  /\ \A i \in DOMAIN p.writes :
       /\ p.writes[i].op = "save" => DOMAIN p.writes[i].items \subseteq k.ids
       /\ p.writes[i].op = "delete" => p.writes[i].conv \in k.ids
       /\ p.writes[i].op = "rename" => p.writes[i].conv \in k.loose

(* What was deleted, or is about to be, is not on the page, and no save of *)
(* it is behind its deletion.                                              *)
Sticks(p, d, k) ==
  /\ \A c \in k.kept \ k.back :
       p.load[1].pc = "done" /\ c \notin DOMAIN p.ref[1] /\ c \notin DOMAIN d /\ Saving(p, c) = {}
  /\ \A i \in DOMAIN p.writes :
       LET c == p.writes[i].conv IN
         p.writes[i].by = "delete" /\ c \notin k.back =>
           /\ p.load[1].pc = "done" /\ c \notin DOMAIN p.ref[1]
           /\ \A j \in Saving(p, c) : j < i

Ready(cv) == \E i \in DOMAIN cv.turns : NeedsRun(cv.turns[i]) /\ ~cv.turns[i].cut

Watched(p, cs) ==
  p.here = 1 => \A c \in DOMAIN p.ref[1] \ cs :
                  Ready(p.ref[1][c]) => p.due \/ p.run[c] # NoRun

(* The stamps of a conversation's saves never fall, so that each replaces  *)
(* what is stored.                                                         *)
Excused(k) == k.loose \cup k.gone

Aged(v, k) == v.at \in Nat /\ v.at <= k.now

Ages(p, d, k) ==
  /\ k.now \in Nat
  /\ \A c \in DOMAIN d : Aged(d[c], k)
  /\ \A c \in DOMAIN p.load[1].items : Aged(p.load[1].items[c], k)
  /\ \A c \in k.ids : \A i \in Saving(p, c) : Aged(p.writes[i].items[c], k)
  /\ ~k.lostWrite => \A c \in k.ids \ Excused(k) : \A i \in Saving(p, c) :
       /\ c \in DOMAIN d => d[c].at <= p.writes[i].items[c].at
       /\ \A j \in Saving(p, c) : i <= j => p.writes[i].items[c].at <= p.writes[j].items[c].at

(* When the queue is empty, the store holds v of c.                        *)
Settles(p, d, c, v) ==
  IF Saving(p, c) = {} THEN c \in DOMAIN d /\ d[c] = v
  ELSE \E i \in Saving(p, c) :
         (\A j \in Saving(p, c) : j <= i) /\ p.writes[i].items[c] = v

Fits(p, d, k) ==
  ~k.lostWrite =>
    /\ \A c \in DOMAIN p.ref[1] \ Excused(k) : Settles(p, d, c, p.ref[1][c])
    /\ p.load[1].pc \in {"save", "fetch"} =>
         \A c \in DOMAIN p.load[1].items \ Excused(k) : Settles(p, d, c, p.load[1].items[c])
    /\ p.load[1].pc = "list" => \A c \in k.ids \ Excused(k) : Saving(p, c) = {}
    /\ p.load[1].pc # "done" => DOMAIN p.ref[1] \subseteq k.loose
    /\ \A i \in DOMAIN p.writes :
         p.writes[i].by = "early" => p.writes[i].conv \in k.loose
    /\ k.back = {}

Sound(p, d, k) ==
  PageShape(p) /\ Awaited(p) /\ Known(p, d, k) /\ Sticks(p, d, k) /\ Ages(p, d, k) /\ Fits(p, d, k)

PastFields == {"used", "moves", "now", "lostWrite", "ids", "gone", "kept", "back", "loose"}


-----------------------------------------------------------------------------
(* The queue as a sequence.                                                *)

LEMMA IsSeqOf ==
  ASSUME NEW S, NEW s \in Seq(S)
  PROVE  IsSeq(s)
<1>1. Len(s) \in Nat /\ DOMAIN s = 1 .. Len(s)
  BY LenProperties
<1>2. s = [i \in 1 .. Len(s) |-> s[i]]
  BY LenProperties
<1>3. QED
  BY <1>1, <1>2, SeqDef DEF IsSeq

LEMMA Indices ==
  ASSUME NEW s, IsSeq(s)
  PROVE  Len(s) \in Nat /\ DOMAIN s = 1 .. Len(s)
BY LenProperties DEF IsSeq

LEMMA Widened ==
  ASSUME NEW S, NEW T, NEW s \in Seq(S), S \subseteq T
  PROVE  s \in Seq(T)
<1>1. Len(s) \in Nat /\ s \in [1 .. Len(s) -> S]
  BY LenProperties
<1>2. s \in [1 .. Len(s) -> T]
  BY <1>1
<1>3. QED
  BY <1>1, <1>2, SeqDef

LEMMA JoinedSeq ==
  ASSUME NEW s, IsSeq(s), NEW t, IsSeq(t)
  PROVE  /\ IsSeq(s \o t)
         /\ Len(s) \in Nat /\ Len(t) \in Nat
         /\ DOMAIN s = 1 .. Len(s) /\ DOMAIN t = 1 .. Len(t)
         /\ DOMAIN (s \o t) = 1 .. Len(s) + Len(t)
         /\ \A j \in DOMAIN s : (s \o t)[j] = s[j]
         /\ \A j \in 1 .. Len(t) : (s \o t)[Len(s) + j] = t[j]
<1> DEFINE S == {s[i] : i \in DOMAIN s}
           T == {t[i] : i \in DOMAIN t}
           U == S \cup T
<1>1. s \in Seq(U) /\ t \in Seq(U)
  <2>1. s \in Seq(S) /\ t \in Seq(T) /\ S \subseteq U /\ T \subseteq U
    BY DEF IsSeq
  <2> HIDE DEF S, T, U
  <2>2. QED
    BY <2>1, Widened
<1> HIDE DEF U
<1>2. s \o t \in Seq(U) /\ Len(s \o t) = Len(s) + Len(t)
      /\ \A i \in 1 .. Len(s) + Len(t) :
           (s \o t)[i] = IF i <= Len(s) THEN s[i] ELSE t[i - Len(s)]
  BY <1>1, ConcatProperties
<1>3. Len(s) \in Nat /\ Len(t) \in Nat /\ DOMAIN s = 1 .. Len(s) /\ DOMAIN t = 1 .. Len(t)
      /\ DOMAIN (s \o t) = 1 .. Len(s \o t)
  BY <1>1, <1>2, LenProperties
<1>4. IsSeq(s \o t)
  BY <1>2, IsSeqOf
<1>5. \A j \in 1 .. Len(t) : (s \o t)[Len(s) + j] = t[j]
  BY <1>2, <1>3
<1>6. \A j \in DOMAIN s : (s \o t)[j] = s[j]
  BY <1>2, <1>3
<1>7. QED
  BY <1>2, <1>3, <1>4, <1>5, <1>6

LEMMA ShorterSeq ==
  ASSUME NEW s, IsSeq(s), s # <<>>
  PROVE  /\ IsSeq(Tail(s))
         /\ Len(s) \in Nat /\ DOMAIN s = 1 .. Len(s) /\ 1 \in DOMAIN s
         /\ DOMAIN Tail(s) = 1 .. Len(s) - 1
         /\ \A j \in DOMAIN Tail(s) : j + 1 \in DOMAIN s /\ Tail(s)[j] = s[j + 1]
         /\ Head(s) = s[1]
<1> DEFINE S == {s[i] : i \in DOMAIN s}
<1>1. s \in Seq(S)
  BY DEF IsSeq
<1> HIDE DEF S
<1>2. /\ Head(s) \in S /\ Tail(s) \in Seq(S) /\ Len(Tail(s)) = Len(s) - 1
      /\ \A i \in 1 .. Len(Tail(s)) : Tail(s)[i] = s[i + 1]
  BY <1>1, HeadTailProperties
<1>3. Len(s) \in Nat /\ DOMAIN s = 1 .. Len(s) /\ DOMAIN Tail(s) = 1 .. Len(Tail(s))
      /\ Len(Tail(s)) \in Nat
  BY <1>1, <1>2, LenProperties
<1>4. Head(s) = s[1]
  BY <1>1
<1>5. IsSeq(Tail(s))
  BY <1>2, IsSeqOf
<1>6. 1 \in DOMAIN s /\ DOMAIN Tail(s) = 1 .. Len(s) - 1
  BY <1>2, <1>3
<1>7. \A j \in DOMAIN Tail(s) : j + 1 \in DOMAIN s /\ Tail(s)[j] = s[j + 1]
  BY <1>2, <1>3, <1>6
<1>8. QED
  BY <1>3, <1>4, <1>5, <1>6, <1>7

LEMMA OneOnly ==
  ASSUME NEW e
  PROVE  IsSeq(<<e>>) /\ DOMAIN <<e>> = {1} /\ Len(<<e>>) = 1 /\ <<e>>[1] = e
<1>1. <<e>> \in Seq({e})
  OBVIOUS
<1>2. IsSeq(<<e>>)
  BY <1>1, IsSeqOf
<1>3. Len(<<e>>) = 1 /\ <<e>>[1] = e /\ DOMAIN <<e>> = {1}
  OBVIOUS
<1>4. QED
  BY <1>2, <1>3

(* The saves of several conversations, put behind the queue.               *)
Saves(order, marked, by) ==
  [i \in DOMAIN order |-> Write("save", order[i], JustOne(order[i], marked[order[i]]), by, 1)]

LEMMA SavesAreWrites ==
  ASSUME NEW order, IsSeq(order), NEW marked, NEW by
  PROVE  /\ IsSeq(Saves(order, marked, by))
         /\ DOMAIN Saves(order, marked, by) = DOMAIN order
         /\ \A i \in DOMAIN order : LET w == Saves(order, marked, by)[i] IN
              /\ w.op = "save" /\ w.conv = order[i] /\ w.by = by /\ w.m = 1
              /\ DOMAIN w.items = {order[i]} /\ w.items[order[i]] = marked[order[i]]
<1> DEFINE t == Saves(order, marked, by)
<1>1. Len(order) \in Nat /\ DOMAIN order = 1 .. Len(order)
  BY Indices
<1>2. t = [i \in 1 .. Len(order) |-> t[i]]
  BY <1>1 DEF Saves
<1>3. t \in [1 .. Len(order) -> {t[i] : i \in 1 .. Len(order)}]
  BY <1>2
<1>4. IsSeq(t)
  BY <1>1, <1>3, SeqDef, IsSeqOf
<1>5. ASSUME NEW i \in DOMAIN order
      PROVE  t[i] = Write("save", order[i], JustOne(order[i], marked[order[i]]), by, 1)
  BY DEF Saves
<1>6. DOMAIN t = DOMAIN order
  BY DEF Saves
<1> HIDE DEF t
<1>7. ASSUME NEW i \in DOMAIN order
      PROVE  /\ t[i].op = "save" /\ t[i].conv = order[i] /\ t[i].by = by /\ t[i].m = 1
             /\ DOMAIN t[i].items = {order[i]} /\ t[i].items[order[i]] = marked[order[i]]
  <2> DEFINE its == [x \in {order[i]} |-> marked[order[i]]]
  <2>1. t[i] = Write("save", order[i], its, by, 1)
    BY <1>5 DEF JustOne
  <2>2. DOMAIN its = {order[i]} /\ its[order[i]] = marked[order[i]]
    OBVIOUS
  <2> HIDE DEF its
  <2>3. QED
    BY <2>1, <2>2 DEF Write
<1>8. QED
  BY <1>4, <1>6, <1>7 DEF t

(* Conversations that may be shown and saved: made, and neither deleted    *)
(* nor about to be, but for those a refused deletion brought back.         *)
Welcome(p, k, c) ==
  /\ c \in k.ids
  /\ c \notin k.kept \ k.back
  /\ \A i \in DOMAIN p.writes : p.writes[i].by = "delete" /\ p.writes[i].conv = c => c \in k.back
  /\ p.load[1].pc # "done" /\ ~k.lostWrite => c \in k.loose

(* p with the conversations of `order` shown in their form `marked`, and   *)
(* their saves queued.                                                     *)
Extends(q, p, order, marked, by, run) ==
  /\ DOMAIN q = PageFields
  /\ q.here = p.here
  /\ q.load = p.load
  /\ q.ref = [p.ref EXCEPT ![1] = Laid(marked, p.ref[1])]
  /\ q.run = run
  /\ q.writes = p.writes \o Saves(order, marked, by)

Ordering(order, new) ==
  /\ IsSeq(order)
  /\ \A i \in DOMAIN order : order[i] \in new
  /\ \A c \in new : \E i \in DOMAIN order : order[i] = c
  /\ \A i, j \in DOMAIN order : order[i] = order[j] => i = j

Running(run) == DOMAIN run = Convs /\ \A c \in Convs : run[c] = NoRun \/ Runner(run[c])

AwaitsRun(r) == Runner(r) /\ r.pc \in Waits /\ r.wait = TRUE

LEMMA MountOne == 1 \in Mounts
BY ImageAssumption DEF Mounts

(* Where the new saves are in the queue.                                   *)
LEMMA SavesBehind ==
  ASSUME NEW p, NEW q, NEW order, NEW marked, NEW by, NEW run, NEW new,
         IsSeq(p.writes), Ordering(order, new),
         Extends(q, p, order, marked, by, run)
  PROVE  /\ IsSeq(q.writes)
         /\ Len(p.writes) \in Nat
         /\ DOMAIN p.writes = 1 .. Len(p.writes)
         /\ \A i \in DOMAIN p.writes : i \in DOMAIN q.writes /\ q.writes[i] = p.writes[i]
         /\ \A i \in DOMAIN q.writes : i \notin DOMAIN p.writes =>
              \E c \in new :
                /\ i > Len(p.writes)
                /\ i = Len(p.writes) + (i - Len(p.writes))
                /\ q.writes[i].op = "save" /\ q.writes[i].conv = c
                /\ q.writes[i].by = by /\ q.writes[i].m = 1
                /\ DOMAIN q.writes[i].items = {c} /\ q.writes[i].items[c] = marked[c]
         /\ \A c \in new : \E x \in DOMAIN q.writes :
              /\ x > Len(p.writes)
              /\ Saving(q, c) = Saving(p, c) \cup {x}
              /\ q.writes[x].items[c] = marked[c]
         /\ \A c : c \notin new => Saving(q, c) = Saving(p, c)
         /\ \A i, j \in DOMAIN q.writes :
              i \notin DOMAIN p.writes /\ j \notin DOMAIN p.writes
                /\ q.writes[i].conv = q.writes[j].conv => i = j
<1> DEFINE t == Saves(order, marked, by)
           n == Len(p.writes)
<1>1. /\ IsSeq(t) /\ DOMAIN t = DOMAIN order
      /\ \A i \in DOMAIN order :
           /\ t[i].op = "save" /\ t[i].conv = order[i] /\ t[i].by = by /\ t[i].m = 1
           /\ DOMAIN t[i].items = {order[i]} /\ t[i].items[order[i]] = marked[order[i]]
  BY SavesAreWrites DEF Ordering
<1>2. q.writes = p.writes \o t
  BY DEF Extends
<1> HIDE DEF t
<1>3. /\ IsSeq(q.writes) /\ n \in Nat /\ Len(t) \in Nat
      /\ DOMAIN p.writes = 1 .. n /\ DOMAIN t = 1 .. Len(t)
      /\ DOMAIN q.writes = 1 .. n + Len(t)
      /\ \A j \in DOMAIN p.writes : q.writes[j] = p.writes[j]
      /\ \A j \in 1 .. Len(t) : q.writes[n + j] = t[j]
  <2> DEFINE s == p.writes
  <2>1. IsSeq(s) /\ IsSeq(t)
    BY <1>1
  <2> HIDE DEF s
  <2>2. /\ IsSeq(s \o t) /\ Len(s) \in Nat /\ Len(t) \in Nat
        /\ DOMAIN s = 1 .. Len(s) /\ DOMAIN t = 1 .. Len(t)
        /\ DOMAIN (s \o t) = 1 .. Len(s) + Len(t)
    BY <2>1, JoinedSeq
  <2> \A j \in DOMAIN s : (s \o t)[j] = s[j]
    BY <2>1, JoinedSeq
  <2> \A j \in 1 .. Len(t) : (s \o t)[Len(s) + j] = t[j]
    BY <2>1, JoinedSeq
  <2>3. q.writes = s \o t
    BY <1>2 DEF s
  <2>4. QED
    BY <2>2, <2>3 DEF n, s
<1> HIDE DEF n
<1>4. \A i \in DOMAIN p.writes : i \in DOMAIN q.writes /\ q.writes[i] = p.writes[i]
  BY <1>3
<1>5. ASSUME NEW i \in DOMAIN q.writes, i \notin DOMAIN p.writes
      PROVE  /\ i > n /\ i - n \in DOMAIN t /\ i = n + (i - n)
             /\ q.writes[i] = t[i - n] /\ order[i - n] \in new
  <2>1. i > n /\ i - n \in 1 .. Len(t) /\ i = n + (i - n)
    BY <1>3, <1>5
  <2>2. q.writes[n + (i - n)] = t[i - n]
    BY <1>3, <2>1
  <2>3. order[i - n] \in new
    BY <1>1, <1>3, <2>1 DEF Ordering
  <2>4. QED
    BY <1>3, <2>1, <2>2, <2>3
<1>6. ASSUME NEW i \in DOMAIN q.writes, i \notin DOMAIN p.writes
      PROVE  \E c \in new :
                /\ i > n
                /\ i = n + (i - n)
                /\ q.writes[i].op = "save" /\ q.writes[i].conv = c
                /\ q.writes[i].by = by /\ q.writes[i].m = 1
                /\ DOMAIN q.writes[i].items = {c} /\ q.writes[i].items[c] = marked[c]
  <2>1. /\ i > n /\ i - n \in DOMAIN t /\ i = n + (i - n)
        /\ q.writes[i] = t[i - n] /\ order[i - n] \in new
    BY <1>5, <1>6
  <2>2. /\ q.writes[i].op = "save" /\ q.writes[i].conv = order[i - n]
        /\ q.writes[i].by = by /\ q.writes[i].m = 1
        /\ DOMAIN q.writes[i].items = {order[i - n]}
        /\ q.writes[i].items[order[i - n]] = marked[order[i - n]]
    BY <1>1, <2>1
  <2>3. QED
    BY <2>1, <2>2
<1>7. ASSUME NEW c \in new
      PROVE  \E x \in DOMAIN q.writes :
                /\ x > n
                /\ Saving(q, c) = Saving(p, c) \cup {x}
                /\ q.writes[x].items[c] = marked[c]
  <2>1. PICK i \in DOMAIN order : order[i] = c
    BY DEF Ordering
  <2>2. i \in DOMAIN t /\ i \in Nat /\ i > 0
    BY <1>1, <1>3, <2>1
  <2>3. n + i \in DOMAIN q.writes /\ q.writes[n + i] = t[i] /\ n + i > n
    BY <1>3, <2>2
  <2>4. t[i].op = "save" /\ c \in DOMAIN t[i].items /\ t[i].items[c] = marked[c]
    BY <1>1, <2>1
  <2>5. ASSUME NEW x \in Saving(q, c), x \notin DOMAIN p.writes
        PROVE  x = n + i
    <3>1. x \in DOMAIN q.writes /\ c \in DOMAIN q.writes[x].items
      BY DEF Saving
    <3>2. /\ x - n \in DOMAIN t /\ x = n + (x - n) /\ q.writes[x] = t[x - n]
      BY <1>5, <2>5, <3>1
    <3>3. order[x - n] = c
      BY <1>1, <3>1, <3>2
    <3>4. x - n = i
      BY <1>1, <2>1, <3>2, <3>3 DEF Ordering
    <3>5. QED
      BY <3>2, <3>4
  <2>6. Saving(p, c) \subseteq Saving(q, c)
    BY <1>4 DEF Saving
  <2>7. \A x \in Saving(q, c) : x \in DOMAIN p.writes => x \in Saving(p, c)
    BY <1>4 DEF Saving
  <2>8. n + i \in Saving(q, c)
    BY <2>3, <2>4 DEF Saving
  <2>9. Saving(q, c) = Saving(p, c) \cup {n + i}
    BY <2>5, <2>6, <2>7, <2>8
  <2>10. QED
    BY <2>3, <2>4, <2>9
<1>8. ASSUME NEW c, c \notin new
      PROVE  Saving(q, c) = Saving(p, c)
  <2>1. Saving(p, c) \subseteq Saving(q, c)
    BY <1>4 DEF Saving
  <2>2. ASSUME NEW x \in Saving(q, c)
        PROVE  x \in DOMAIN p.writes
    <3>1. x \in DOMAIN q.writes /\ c \in DOMAIN q.writes[x].items
      BY DEF Saving
    <3>2. QED
      BY <1>6, <1>8, <3>1
  <2>3. Saving(q, c) \subseteq Saving(p, c)
    BY <1>4, <2>2 DEF Saving
  <2>4. QED
    BY <2>1, <2>3
<1>9. ASSUME NEW i \in DOMAIN q.writes, NEW j \in DOMAIN q.writes,
             i \notin DOMAIN p.writes, j \notin DOMAIN p.writes,
             q.writes[i].conv = q.writes[j].conv
      PROVE  i = j
  <2>1. /\ i - n \in DOMAIN order /\ i = n + (i - n) /\ q.writes[i] = t[i - n]
        /\ j - n \in DOMAIN order /\ j = n + (j - n) /\ q.writes[j] = t[j - n]
    BY <1>1, <1>5, <1>9
  <2>2. order[i - n] = order[j - n]
    BY <1>1, <1>9, <2>1
  <2>3. i - n = j - n
    BY <2>1, <2>2 DEF Ordering
  <2>4. QED
    BY <2>1, <2>3
<1>10. QED
  BY <1>3, <1>4, <1>6, <1>7, <1>8, <1>9 DEF n

(* Showing conversations and queueing their saves.                         *)
LEMMA Persisted ==
  ASSUME NEW p, NEW q, NEW d, NEW k, NEW order, NEW new, NEW marked, NEW by, NEW run,
         Sound(p, d, k), Ordering(order, new), DOMAIN marked = new,
         \A c \in new : marked[c].at = k.now /\ Welcome(p, k, c),
         by \in {"run", "start", "none"}, Running(run),
         \A i \in DOMAIN p.writes : p.writes[i].by = "run" =>
           AwaitsRun(run[p.writes[i].conv]) /\ (by = "run" => p.writes[i].conv \notin new),
         by = "run" => \A c \in new : AwaitsRun(run[c]),
         Extends(q, p, order, marked, by, run)
  PROVE  Sound(q, d, k)
<1> DEFINE n == Len(p.writes)
<1>1. PageShape(p) /\ Awaited(p) /\ Known(p, d, k) /\ Sticks(p, d, k) /\ Ages(p, d, k) /\ Fits(p, d, k)
  BY DEF Sound
<1>2. IsSeq(p.writes)
  BY <1>1 DEF PageShape
<1>3. /\ IsSeq(q.writes)
      /\ n \in Nat
      /\ DOMAIN p.writes = 1 .. n
      /\ \A i \in DOMAIN p.writes : i \in DOMAIN q.writes /\ q.writes[i] = p.writes[i]
      /\ \A i \in DOMAIN q.writes : i \notin DOMAIN p.writes =>
           \E c \in new :
             /\ i > n
             /\ i = n + (i - n)
             /\ q.writes[i].op = "save" /\ q.writes[i].conv = c
             /\ q.writes[i].by = by /\ q.writes[i].m = 1
             /\ DOMAIN q.writes[i].items = {c} /\ q.writes[i].items[c] = marked[c]
      /\ \A c \in new : \E x \in DOMAIN q.writes :
           /\ x > n
           /\ Saving(q, c) = Saving(p, c) \cup {x}
           /\ q.writes[x].items[c] = marked[c]
      /\ \A c : c \notin new => Saving(q, c) = Saving(p, c)
      /\ \A i, j \in DOMAIN q.writes :
           i \notin DOMAIN p.writes /\ j \notin DOMAIN p.writes
             /\ q.writes[i].conv = q.writes[j].conv => i = j
  BY <1>2, SavesBehind
<1> HIDE DEF n
<1>4. new \subseteq k.ids /\ new \subseteq Convs /\ k.ids \subseteq Convs
  BY <1>1 DEF Welcome, Known
<1>5. /\ DOMAIN q.ref = Mounts
      /\ DOMAIN q.ref[1] = new \cup DOMAIN p.ref[1]
      /\ \A c \in new : q.ref[1][c] = marked[c]
      /\ \A c \in DOMAIN p.ref[1] : c \notin new => q.ref[1][c] = p.ref[1][c]
  <2>1. DOMAIN q.ref = Mounts /\ q.ref[1] = Laid(marked, p.ref[1])
    BY <1>1, MountOne DEF Extends, PageShape
  <2>2. QED
    BY <2>1 DEF Laid
<1>6. /\ DOMAIN q = PageFields /\ q.here = p.here /\ q.load = p.load /\ q.run = run
  BY DEF Extends
<1>7. ASSUME NEW i \in DOMAIN q.writes, i \notin DOMAIN p.writes
      PROVE  /\ WriteShape(q.writes[i]) /\ q.writes[i].by = by /\ q.writes[i].op = "save"
             /\ q.writes[i].conv \in new /\ i > n
             /\ DOMAIN q.writes[i].items = {q.writes[i].conv}
             /\ q.writes[i].items[q.writes[i].conv] = marked[q.writes[i].conv]
  <2>1. PICK c \in new :
             /\ i > n
             /\ q.writes[i].op = "save" /\ q.writes[i].conv = c
             /\ q.writes[i].by = by /\ q.writes[i].m = 1
             /\ DOMAIN q.writes[i].items = {c} /\ q.writes[i].items[c] = marked[c]
    BY <1>3, <1>7
  <2>2. WriteShape(q.writes[i])
    BY <1>4, <2>1 DEF WriteShape
  <2>3. QED
    BY <2>1, <2>2
<1>8. PageShape(q)
  <2>1. \A i \in DOMAIN q.writes : WriteShape(q.writes[i])
    BY <1>1, <1>3, <1>7 DEF PageShape
  <2>2. QED
    BY <1>1, <1>3, <1>5, <1>6, <2>1 DEF PageShape, Running
<1>9. Awaited(q)
  <2>1. ASSUME NEW i \in DOMAIN q.writes, q.writes[i].by = "run"
        PROVE  /\ AwaitsRun(q.run[q.writes[i].conv])
               /\ \A j \in DOMAIN q.writes :
                    q.writes[j].by = "run" /\ q.writes[j].conv = q.writes[i].conv => j = i
    <3>1. CASE i \in DOMAIN p.writes
      <4>1. q.writes[i] = p.writes[i] /\ AwaitsRun(run[p.writes[i].conv])
            /\ (by = "run" => p.writes[i].conv \notin new)
        BY <1>3, <2>1, <3>1
      <4>2. \A j \in DOMAIN p.writes :
              q.writes[j].by = "run" /\ q.writes[j].conv = q.writes[i].conv => j = i
        BY <1>1, <1>3, <2>1, <3>1 DEF Awaited
      <4>3. ASSUME NEW j \in DOMAIN q.writes, j \notin DOMAIN p.writes,
                   q.writes[j].by = "run"
            PROVE  q.writes[j].conv # q.writes[i].conv
        BY <1>7, <4>1, <4>3
      <4>4. QED
        BY <1>6, <4>1, <4>2, <4>3
    <3>2. CASE i \notin DOMAIN p.writes
      <4>1. by = "run" /\ q.writes[i].conv \in new
        BY <1>7, <2>1, <3>2
      <4>2. \A j \in DOMAIN p.writes : q.writes[j].by = "run" => q.writes[j].conv \notin new
        BY <1>3, <4>1
      <4>3. \A j \in DOMAIN q.writes : j \notin DOMAIN p.writes
              /\ q.writes[j].conv = q.writes[i].conv => j = i
        BY <1>3, <3>2
      <4>4. QED
        BY <1>6, <4>1, <4>2, <4>3
    <3>3. QED
      BY <3>1, <3>2
  <2>2. ASSUME NEW i \in DOMAIN q.writes, q.writes[i].by \in {"recover", "sync"}
        PROVE  i \in DOMAIN p.writes
    BY <1>7, <2>2
  <2>3. ASSUME NEW i \in DOMAIN q.writes, q.writes[i].by \in {"recover", "sync"}
        PROVE  /\ q.load[1].pc = "save"
               /\ \A j \in DOMAIN q.writes : q.writes[j].by \in {"recover", "sync"} => j = i
    <3>1. \A j \in DOMAIN q.writes : q.writes[j].by \in {"recover", "sync"} =>
            j \in DOMAIN p.writes /\ p.writes[j].by \in {"recover", "sync"}
      BY <1>3, <2>2
    <3>2. QED
      BY <1>1, <1>6, <2>3, <3>1 DEF Awaited
  <2>4. QED
    BY <2>1, <2>3 DEF Awaited, AwaitsRun
<1>10. Known(q, d, k)
  <2>1. \A i \in DOMAIN q.writes :
          /\ q.writes[i].op = "save" => DOMAIN q.writes[i].items \subseteq k.ids
          /\ q.writes[i].op = "delete" => q.writes[i].conv \in k.ids
          /\ q.writes[i].op = "rename" => q.writes[i].conv \in k.loose
    <3>1. \A i \in DOMAIN p.writes :
          /\ q.writes[i].op = "save" => DOMAIN q.writes[i].items \subseteq k.ids
          /\ q.writes[i].op = "delete" => q.writes[i].conv \in k.ids
          /\ q.writes[i].op = "rename" => q.writes[i].conv \in k.loose
      BY <1>1, <1>3 DEF Known
    <3>2. \A i \in DOMAIN q.writes : i \notin DOMAIN p.writes =>
          /\ DOMAIN q.writes[i].items \subseteq k.ids
          /\ q.writes[i].op \notin {"delete", "rename"}
      BY <1>4, <1>7
    <3>3. QED
      BY <3>1, <3>2
  <2>2. DOMAIN q.ref[1] \subseteq k.ids
    BY <1>1, <1>4, <1>5 DEF Known
  <2>3. QED
    BY <1>1, <1>6, <2>1, <2>2 DEF Known
<1>11. Sticks(q, d, k)
  <2>1. ASSUME NEW c \in k.kept \ k.back
        PROVE  q.load[1].pc = "done" /\ c \notin DOMAIN q.ref[1] /\ c \notin DOMAIN d /\ Saving(q, c) = {}
    <3>1. c \notin new
      BY DEF Welcome
    <3>2. Saving(q, c) = Saving(p, c)
      BY <1>3, <3>1
    <3>3. QED
      BY <1>1, <1>5, <1>6, <3>1, <3>2 DEF Sticks
  <2>2. ASSUME NEW i \in DOMAIN q.writes, q.writes[i].by = "delete", q.writes[i].conv \notin k.back
        PROVE  /\ q.load[1].pc = "done" /\ q.writes[i].conv \notin DOMAIN q.ref[1]
               /\ \A j \in Saving(q, q.writes[i].conv) : j < i
    <3>1. i \in DOMAIN p.writes
      BY <1>7, <2>2
    <3>2. q.writes[i] = p.writes[i]
      BY <1>3, <3>1
    <3>3. q.writes[i].conv \notin new
      BY <2>2, <3>1, <3>2 DEF Welcome
    <3>4. Saving(q, q.writes[i].conv) = Saving(p, q.writes[i].conv)
      BY <1>3, <3>3
    <3>5. /\ p.load[1].pc = "done" /\ p.writes[i].conv \notin DOMAIN p.ref[1]
          /\ \A j \in Saving(p, p.writes[i].conv) : j < i
      BY <1>1, <2>2, <3>1, <3>2 DEF Sticks
    <3>6. QED
      BY <1>5, <1>6, <3>2, <3>3, <3>4, <3>5
  <2>3. QED
    BY <2>1, <2>2 DEF Sticks
<1>12. ASSUME NEW c, NEW i \in Saving(p, c)
       PROVE  i \in DOMAIN p.writes /\ i \in Nat /\ i <= n /\ q.writes[i] = p.writes[i]
  BY <1>3 DEF Saving
<1>13. Ages(q, d, k)
  <2>1. ASSUME NEW c \in k.ids, NEW i \in Saving(q, c)
        PROVE  Aged(q.writes[i].items[c], k)
    <3>1. CASE i \in Saving(p, c)
      BY <1>1, <1>12, <3>1 DEF Ages
    <3>2. CASE i \notin Saving(p, c)
      <4>1. c \in new
        BY <1>3, <2>1, <3>2
      <4>2. q.writes[i].items[c] = marked[c]
        BY <1>3, <2>1, <3>2, <4>1
      <4>3. QED
        BY <1>1, <4>1, <4>2 DEF Ages, Aged
    <3>3. QED
      BY <3>1, <3>2
  <2>2. ASSUME ~k.lostWrite, NEW c \in k.ids \ Excused(k), NEW i \in Saving(q, c)
        PROVE  /\ c \in DOMAIN d => d[c].at <= q.writes[i].items[c].at
               /\ \A j \in Saving(q, c) : i <= j => q.writes[i].items[c].at <= q.writes[j].items[c].at
    <3>1. CASE c \notin new
      <4>1. Saving(q, c) = Saving(p, c)
        BY <1>3, <3>1
      <4>2. QED
        BY <1>1, <1>12, <2>2, <4>1 DEF Ages
    <3>2. CASE c \in new
      <4>1. PICK x \in DOMAIN q.writes : x > n /\ Saving(q, c) = Saving(p, c) \cup {x}
                                         /\ q.writes[x].items[c] = marked[c]
        BY <1>3, <3>2
      <4>2. q.writes[x].items[c].at = k.now
        BY <3>2, <4>1
      <4>3. \A j \in Saving(q, c) : q.writes[j].items[c].at \in Nat /\ q.writes[j].items[c].at <= k.now
        BY <2>1 DEF Aged
      <4>4. k.now \in Nat /\ (c \in DOMAIN d => d[c].at \in Nat /\ d[c].at <= k.now)
        BY <1>1 DEF Ages, Aged
      <4>5. x \in Nat
        <5>1. Len(q.writes) \in Nat /\ DOMAIN q.writes = 1 .. Len(q.writes)
          BY <1>3, Indices
        <5>2. QED
          BY <4>1, <5>1
      <4>6. CASE i = x
        <5>1. \A j \in Saving(q, c) : i <= j => j = x
          BY <1>3, <1>12, <4>1, <4>5, <4>6
        <5>2. QED
          BY <4>2, <4>4, <4>6, <5>1
      <4>7. CASE i # x
        <5>1. i \in Saving(p, c)
          BY <4>1, <4>7
        <5>2. /\ c \in DOMAIN d => d[c].at <= q.writes[i].items[c].at
              /\ \A j \in Saving(p, c) : i <= j => q.writes[i].items[c].at <= q.writes[j].items[c].at
          BY <1>1, <1>12, <2>2, <5>1 DEF Ages
        <5>3. q.writes[i].items[c].at <= q.writes[x].items[c].at
          BY <4>2, <4>3, <2>2
        <5>4. QED
          BY <4>1, <5>2, <5>3
      <4>8. QED
        BY <4>6, <4>7
    <3>3. QED
      BY <3>1, <3>2
  <2>3. QED
    BY <1>1, <1>6, <2>1, <2>2 DEF Ages
<1>14. ASSUME NEW c, c \notin new, NEW v, Settles(p, d, c, v)
       PROVE  Settles(q, d, c, v)
  <2>1. Saving(q, c) = Saving(p, c)
    BY <1>3, <1>14
  <2>2. CASE Saving(p, c) = {}
    BY <1>14, <2>1, <2>2 DEF Settles
  <2>3. CASE Saving(p, c) # {}
    <3>1. PICK i \in Saving(p, c) : (\A j \in Saving(p, c) : j <= i) /\ p.writes[i].items[c] = v
      BY <1>14, <2>3 DEF Settles
    <3>2. q.writes[i].items[c] = v
      BY <1>12, <3>1
    <3>3. QED
      BY <2>1, <2>3, <3>1, <3>2 DEF Settles
  <2>4. QED
    BY <2>2, <2>3
<1>15. ASSUME NEW c \in new
       PROVE  Settles(q, d, c, marked[c])
  <2>1. PICK x \in DOMAIN q.writes : x > n /\ Saving(q, c) = Saving(p, c) \cup {x}
                                     /\ q.writes[x].items[c] = marked[c]
    BY <1>3
  <2>2. x \in Nat
    <3>1. Len(q.writes) \in Nat /\ DOMAIN q.writes = 1 .. Len(q.writes)
      BY <1>3, Indices
    <3>2. QED
      BY <2>1, <3>1
  <2>3. \A j \in Saving(q, c) : j <= x
    BY <1>3, <1>12, <2>1, <2>2
  <2>4. QED
    BY <2>1, <2>3 DEF Settles
<1>16. Fits(q, d, k)
  <2> SUFFICES ASSUME ~k.lostWrite
               PROVE  /\ \A c \in DOMAIN q.ref[1] \ Excused(k) : Settles(q, d, c, q.ref[1][c])
                      /\ q.load[1].pc \in {"save", "fetch"} =>
                           \A c \in DOMAIN q.load[1].items \ Excused(k) :
                              Settles(q, d, c, q.load[1].items[c])
                      /\ q.load[1].pc = "list" => \A c \in k.ids \ Excused(k) : Saving(q, c) = {}
                      /\ q.load[1].pc # "done" => DOMAIN q.ref[1] \subseteq k.loose
                      /\ \A i \in DOMAIN q.writes :
                           q.writes[i].by = "early" =>
                             q.writes[i].conv \in k.loose
                      /\ k.back = {}
    BY DEF Fits
  <2>1. /\ \A c \in DOMAIN p.ref[1] \ Excused(k) : Settles(p, d, c, p.ref[1][c])
        /\ p.load[1].pc \in {"save", "fetch"} =>
             \A c \in DOMAIN p.load[1].items \ Excused(k) : Settles(p, d, c, p.load[1].items[c])
        /\ p.load[1].pc = "list" => \A c \in k.ids \ Excused(k) : Saving(p, c) = {}
        /\ p.load[1].pc # "done" => DOMAIN p.ref[1] \subseteq k.loose
        /\ \A i \in DOMAIN p.writes :
             p.writes[i].by = "early" => p.writes[i].conv \in k.loose
        /\ k.back = {}
    BY <1>1 DEF Fits
  <2>2. p.load[1].pc # "done" => new \subseteq k.loose
    BY DEF Welcome
  <2>3. ASSUME NEW c \in DOMAIN q.ref[1] \ Excused(k)
        PROVE  Settles(q, d, c, q.ref[1][c])
    <3>1. CASE c \in new
      BY <1>5, <1>15, <3>1
    <3>2. CASE c \notin new
      <4>1. c \in DOMAIN p.ref[1] /\ q.ref[1][c] = p.ref[1][c]
        BY <1>5, <3>2
      <4>2. Settles(p, d, c, p.ref[1][c])
        BY <2>1, <2>3, <4>1
      <4>3. QED
        BY <1>14, <3>2, <4>1, <4>2
    <3>3. QED
      BY <3>1, <3>2
  <2>4. ASSUME q.load[1].pc \in {"save", "fetch"}, NEW c \in DOMAIN q.load[1].items \ Excused(k)
        PROVE  Settles(q, d, c, q.load[1].items[c])
    <3>1. c \notin new
      BY <1>6, <2>2, <2>4 DEF Excused
    <3>2. Settles(p, d, c, p.load[1].items[c])
      BY <1>6, <2>1, <2>4
    <3>3. QED
      BY <1>6, <1>14, <3>1, <3>2
  <2>5. ASSUME q.load[1].pc = "list", NEW c \in k.ids \ Excused(k)
        PROVE  Saving(q, c) = {}
    <3>1. c \notin new
      BY <1>6, <2>2, <2>5 DEF Excused
    <3>2. QED
      BY <1>3, <1>6, <2>1, <2>5, <3>1
  <2>6. q.load[1].pc # "done" => DOMAIN q.ref[1] \subseteq k.loose
    BY <1>5, <1>6, <2>1, <2>2
  <2>7. ASSUME NEW i \in DOMAIN q.writes, q.writes[i].by = "early"
        PROVE  q.writes[i].conv \in k.loose
    <3>1. i \in DOMAIN p.writes
      BY <1>7, <2>7
    <3>2. QED
      BY <1>3, <2>1, <2>7, <3>1
  <2>8. QED
    BY <2>1, <2>3, <2>4, <2>5, <2>6, <2>7
<1>17. QED
  BY <1>8, <1>9, <1>10, <1>11, <1>13, <1>16 DEF Sound

-----------------------------------------------------------------------------
(* What the operators on a page leave.                                     *)

LEMMA SetRunIs ==
  ASSUME NEW p, DOMAIN p = PageFields, NEW c, NEW r
  PROVE  /\ DOMAIN SetRun(p, c, r) = PageFields
         /\ SetRun(p, c, r).here = p.here /\ (SetRun(p, c, r).due <=> p.due)
         /\ SetRun(p, c, r).ref = p.ref /\ SetRun(p, c, r).load = p.load
         /\ SetRun(p, c, r).writes = p.writes
         /\ SetRun(p, c, r).run = [p.run EXCEPT ![c] = r]
BY DEF SetRun, PageFields

LEMMA SetShownIs ==
  ASSUME NEW p, DOMAIN p = PageFields, NEW m, NEW convs
  PROVE  /\ DOMAIN SetShown(p, m, convs) = PageFields
         /\ SetShown(p, m, convs).here = p.here
         /\ SetShown(p, m, convs).due <=> (p.due \/ p.here = m)
         /\ SetShown(p, m, convs).ref = [p.ref EXCEPT ![m] = convs]
         /\ SetShown(p, m, convs).load = p.load
         /\ SetShown(p, m, convs).writes = p.writes
         /\ SetShown(p, m, convs).run = p.run
<1> DEFINE f == [p.ref EXCEPT ![m] = convs]
           b == p.due \/ p.here = m
<1>1. SetShown(p, m, convs) = [p EXCEPT !.ref = f, !.due = b]
  BY DEF SetShown
<1> HIDE DEF f
<1>2. b \in BOOLEAN
  OBVIOUS
<1> HIDE DEF b
<1>3. QED
  BY <1>1, <1>2 DEF PageFields, f, b

LEMMA SetLoadIs ==
  ASSUME NEW p, DOMAIN p = PageFields, NEW m, NEW pc, NEW items
  PROVE  /\ DOMAIN SetLoad(p, m, pc, items) = PageFields
         /\ SetLoad(p, m, pc, items).here = p.here
         /\ SetLoad(p, m, pc, items).due <=> p.due
         /\ SetLoad(p, m, pc, items).ref = p.ref
         /\ SetLoad(p, m, pc, items).load = [p.load EXCEPT ![m] = [pc |-> pc, items |-> items]]
         /\ SetLoad(p, m, pc, items).writes = p.writes
         /\ SetLoad(p, m, pc, items).run = p.run
BY DEF SetLoad, PageFields

LEMMA QueueIs ==
  ASSUME NEW p, DOMAIN p = PageFields, NEW ws
  PROVE  /\ DOMAIN QueueAll(p, ws) = PageFields
         /\ QueueAll(p, ws).here = p.here
         /\ QueueAll(p, ws).due <=> p.due
         /\ QueueAll(p, ws).ref = p.ref
         /\ QueueAll(p, ws).load = p.load
         /\ QueueAll(p, ws).run = p.run
         /\ QueueAll(p, ws).writes = p.writes \o ws
BY DEF QueueAll, PageFields

LEMMA OneSave ==
  ASSUME NEW c, NEW cv, NEW by
  PROVE  /\ Saves(<<c>>, JustOne(c, cv), by) = <<Write("save", c, JustOne(c, cv), by, 1)>>
         /\ Ordering(<<c>>, {c})
         /\ DOMAIN JustOne(c, cv) = {c} /\ JustOne(c, cv)[c] = cv
<1> DEFINE o == <<c>>
           v == JustOne(c, cv)
<1>1. IsSeq(o) /\ DOMAIN o = {1} /\ o[1] = c
  BY OneOnly
<1>2. DOMAIN v = {c} /\ v[c] = cv
  BY DEF JustOne
<1>3. Ordering(o, {c})
  BY <1>1 DEF Ordering
<1> HIDE DEF o
<1>4. JustOne(o[1], v[o[1]]) = v
  BY <1>1, <1>2
<1> HIDE DEF v
<1>5. Saves(o, v, by) = [i \in {1} |-> Write("save", c, v, by, 1)]
  <2>1. \A i \in {1} : Write("save", o[i], JustOne(o[i], v[o[i]]), by, 1) = Write("save", c, v, by, 1)
    BY <1>1, <1>4
  <2>2. Saves(o, v, by) = [i \in {1} |-> Write("save", o[i], JustOne(o[i], v[o[i]]), by, 1)]
    BY <1>1 DEF Saves
  <2>3. QED
    BY <2>1, <2>2
<1>6. \A w : [i \in {1} |-> w] = <<w>>
  OBVIOUS
<1>7. QED
  BY <1>2, <1>3, <1>5, <1>6 DEF o, v

LEMMA PersistIs ==
  ASSUME NEW p, DOMAIN p = PageFields, NEW c, NEW cv, NEW by
  PROVE  /\ Extends(Persist(p, 1, c, cv, by), p, <<c>>, JustOne(c, cv), by, p.run)
         /\ Persist(p, 1, c, cv, by).due <=> (p.due \/ p.here = 1)
<1> DEFINE s == SetShown(p, 1, Laid(JustOne(c, cv), p.ref[1]))
           w == Write("save", c, JustOne(c, cv), by, 1)
           q == QueueAll(s, <<w>>)
<1>1. Persist(p, 1, c, cv, by) = q
  BY DEF Persist, Queue, ShownIn
<1>2. /\ DOMAIN s = PageFields
      /\ s.here = p.here
      /\ s.due <=> (p.due \/ p.here = 1)
      /\ s.ref = [p.ref EXCEPT ![1] = Laid(JustOne(c, cv), p.ref[1])]
      /\ s.load = p.load
      /\ s.writes = p.writes
      /\ s.run = p.run
  BY SetShownIs
<1> HIDE DEF s, w
<1>3. /\ DOMAIN q = PageFields
      /\ q.here = s.here
      /\ q.due <=> s.due
      /\ q.ref = s.ref
      /\ q.load = s.load
      /\ q.run = s.run
      /\ q.writes = s.writes \o <<w>>
  <2> DEFINE ws == <<w>>
  <2> HIDE DEF ws
  <2>1. /\ DOMAIN QueueAll(s, ws) = PageFields
        /\ QueueAll(s, ws).here = s.here
        /\ QueueAll(s, ws).due <=> s.due
        /\ QueueAll(s, ws).ref = s.ref
        /\ QueueAll(s, ws).load = s.load
        /\ QueueAll(s, ws).run = s.run
        /\ QueueAll(s, ws).writes = s.writes \o ws
    <3>1. DOMAIN s = PageFields
      BY <1>2
    <3>2. QED
      BY <3>1, QueueIs
  <2>2. QED
    BY <2>1 DEF ws
<1>4. Saves(<<c>>, JustOne(c, cv), by) = <<w>>
  BY OneSave DEF w
<1> HIDE DEF q
<1>5. QED
  BY <1>1, <1>2, <1>3, <1>4 DEF Extends

Free(p, c) == \A i \in DOMAIN p.writes : ~(p.writes[i].by = "run" /\ p.writes[i].conv = c)

(* A runner without a queued write may go on, or end.                      *)
LEMMA RunChanged ==
  ASSUME NEW p, NEW d, NEW k, NEW c, NEW r,
         Sound(p, d, k), Free(p, c), r = NoRun \/ Runner(r)
  PROVE  Sound(SetRun(p, c, r), d, k)
<1> DEFINE q == SetRun(p, c, r)
<1>1. PageShape(p) /\ Awaited(p) /\ Known(p, d, k) /\ Sticks(p, d, k) /\ Ages(p, d, k) /\ Fits(p, d, k)
  BY DEF Sound
<1>2. /\ DOMAIN q = PageFields /\ q.here = p.here /\ q.ref = p.ref /\ q.load = p.load
      /\ q.writes = p.writes /\ q.run = [p.run EXCEPT ![c] = r]
  <2>1. DOMAIN p = PageFields
    BY <1>1 DEF PageShape
  <2>2. QED
    BY <2>1, SetRunIs
<1> HIDE DEF q
<1>3. /\ DOMAIN q.run = Convs
      /\ \A x \in Convs : q.run[x] = IF x = c THEN r ELSE p.run[x]
  BY <1>1, <1>2 DEF PageShape
<1>4. PageShape(q)
  BY <1>1, <1>2, <1>3 DEF PageShape
<1>5. Awaited(q)
  <2>1. ASSUME NEW i \in DOMAIN q.writes, q.writes[i].by = "run"
        PROVE  q.run[q.writes[i].conv] = p.run[q.writes[i].conv]
    <3>1. q.writes[i].conv \in Convs /\ q.writes[i].conv # c
      BY <1>1, <1>2, <2>1 DEF PageShape, WriteShape, Free
    <3>2. QED
      BY <1>3, <3>1
  <2>2. QED
    BY <1>1, <1>2, <2>1 DEF Awaited
<1>6. \A x : Saving(q, x) = Saving(p, x)
  BY <1>2 DEF Saving
<1>7. Known(q, d, k) /\ Sticks(q, d, k) /\ Ages(q, d, k)
  BY <1>1, <1>2, <1>6 DEF Known, Sticks, Ages
<1>8. Fits(q, d, k)
  BY <1>1, <1>2, <1>6 DEF Fits, Settles
<1>9. QED
  BY <1>4, <1>5, <1>7, <1>8 DEF Sound, q

LEMMA ShownWelcome ==
  ASSUME NEW p, NEW d, NEW k, Sound(p, d, k), NEW c \in DOMAIN p.ref[1]
  PROVE  Welcome(p, k, c) /\ c \in Convs
<1>1. Known(p, d, k) /\ Sticks(p, d, k) /\ Fits(p, d, k)
  BY DEF Sound
<1>2. c \in k.ids /\ c \in Convs
  BY <1>1 DEF Known
<1>3. c \notin k.kept \ k.back
  BY <1>1 DEF Sticks
<1>4. \A i \in DOMAIN p.writes : p.writes[i].by = "delete" /\ p.writes[i].conv = c => c \in k.back
  BY <1>1 DEF Sticks
<1>5. p.load[1].pc # "done" /\ ~k.lostWrite => c \in k.loose
  BY <1>1 DEF Fits
<1>6. QED
  BY <1>2, <1>3, <1>4, <1>5 DEF Welcome

-----------------------------------------------------------------------------
(* Runners.                                                                *)

LEMMA RunnerIsSome ==
  ASSUME NEW r, Runner(r)
  PROVE  r # NoRun
<1>1. NoRun.pc = "none" /\ r.pc # "none"
  BY DEF NoRun, Runner, Waits
<1>2. QED
  BY <1>1

LEMMA RunnerMoved ==
  ASSUME NEW r, Runner(r), NEW pc \in Waits, NEW w \in BOOLEAN
  PROVE  LET s == [r EXCEPT !.pc = pc, !.wait = w]
         IN  Runner(s) /\ s.pc = pc /\ s.wait = w
<1> DEFINE s == [r EXCEPT !.pc = pc, !.wait = w]
<1>1. DOMAIN r = RunFields /\ r.m = 1
  BY DEF Runner
<1>2. DOMAIN s = RunFields /\ s.m = 1 /\ s.pc = pc /\ s.wait = w
  BY <1>1 DEF RunFields
<1> HIDE DEF s
<1>3. Runner(s)
  BY <1>2 DEF Runner
<1>4. QED
  BY <1>2, <1>3 DEF s

LEMMA WatchedRun ==
  ASSUME NEW p, NEW d, NEW k, NEW c, NEW r, NEW cs,
         Sound(p, d, k), Watched(p, cs), Runner(r) \/ c \in cs
  PROVE  Watched(SetRun(p, c, r), cs)
<1> DEFINE q == SetRun(p, c, r)
<1>1. DOMAIN p = PageFields /\ DOMAIN p.run = Convs /\ DOMAIN p.ref[1] \subseteq Convs
  BY DEF Sound, PageShape, Known
<1>2. /\ q.here = p.here /\ (q.due <=> p.due) /\ q.ref = p.ref /\ q.run = [p.run EXCEPT ![c] = r]
  <2>1. DOMAIN p = PageFields
    BY <1>1
  <2>2. QED
    BY <2>1, SetRunIs
<1> HIDE DEF q
<1>3. \A x \in Convs : q.run[x] = IF x = c THEN r ELSE p.run[x]
  BY <1>1, <1>2
<1>4. Runner(r) => r # NoRun
  BY RunnerIsSome
<1>5. ASSUME q.here = 1, NEW x \in DOMAIN q.ref[1] \ cs, Ready(q.ref[1][x])
      PROVE  q.due \/ q.run[x] # NoRun
  <2>1. x \in Convs /\ x \in DOMAIN p.ref[1] \ cs /\ Ready(p.ref[1][x]) /\ p.here = 1
    BY <1>1, <1>2, <1>5
  <2>2. p.due \/ p.run[x] # NoRun
    BY <2>1 DEF Watched
  <2>3. QED
    BY <1>2, <1>3, <1>4, <2>1, <2>2
<1>6. QED
  BY <1>5 DEF Watched, q

(* After a change of the list everything on the screen is looked at again. *)
LEMMA WatchedShown ==
  ASSUME NEW q, NEW p, NEW cs, q.here = p.here, q.due <=> (p.due \/ p.here = 1)
  PROVE  Watched(q, cs)
BY DEF Watched

LEMMA RunnerUpdateSound ==
  ASSUME NEW p, NEW d, NEW k, NEW c \in Convs, NEW turns, NEW pc \in Waits,
         Sound(p, d, k), Free(p, c), Runner(p.run[c]), k.now = past.now
  PROVE  LET q == RunnerUpdate(p, c, turns, pc)
         IN  Sound(q, d, k) /\ (Watched(p, {}) => Watched(q, {}))
<1> DEFINE q == RunnerUpdate(p, c, turns, pc)
           shown == p.ref[1]
<1>1. PageShape(p) /\ Awaited(p) /\ Known(p, d, k)
  BY DEF Sound
<1>2. DOMAIN p = PageFields /\ DOMAIN p.run = Convs
  BY <1>1 DEF PageShape
<1>3. p.run[c].m = 1
  BY DEF Runner
<1>4. q = IF c \notin DOMAIN shown THEN RunnerAt(p, c, pc, FALSE)
          ELSE Persist(RunnerAt(p, c, pc, TRUE), 1, c, Stamped(shown[c], turns), "run")
  BY <1>3 DEF RunnerUpdate, ShownIn
<1> HIDE DEF q
<1>5. CASE c \notin DOMAIN shown
  <2> DEFINE r == [p.run[c] EXCEPT !.pc = pc, !.wait = FALSE]
  <2>1. Runner(r)
    <3>1. FALSE \in BOOLEAN
      OBVIOUS
    <3>2. QED
      BY <3>1, RunnerMoved
  <2>2. q = SetRun(p, c, r)
    BY <1>4, <1>5 DEF RunnerAt
  <2> HIDE DEF r
  <2>3. Sound(q, d, k)
    BY <2>1, <2>2, RunChanged
  <2>4. Watched(p, {}) => Watched(q, {})
    BY <2>1, <2>2, WatchedRun
  <2>5. QED
    BY <2>3, <2>4 DEF q
<1>6. CASE c \in DOMAIN shown
  <2> DEFINE r == [p.run[c] EXCEPT !.pc = pc, !.wait = TRUE]
             s == SetRun(p, c, r)
             cv == Stamped(shown[c], turns)
  <2>1. Runner(r) /\ r.pc = pc /\ r.wait = TRUE
    <3>1. TRUE \in BOOLEAN
      OBVIOUS
    <3>2. QED
      BY <3>1, RunnerMoved
  <2>2. q = Persist(s, 1, c, cv, "run")
    BY <1>4, <1>6 DEF RunnerAt
  <2>3. cv.at = k.now
    BY DEF Stamped
  <2> HIDE DEF r, cv
  <2>4. /\ DOMAIN s = PageFields
        /\ s.here = p.here /\ (s.due <=> p.due)
        /\ s.ref = p.ref /\ s.load = p.load
        /\ s.writes = p.writes
        /\ s.run = [p.run EXCEPT ![c] = r]
    BY <1>2, SetRunIs
  <2> HIDE DEF s
  <2>5. /\ Extends(q, s, <<c>>, JustOne(c, cv), "run", s.run)
        /\ q.due <=> (s.due \/ s.here = 1)
    BY <2>2, <2>4, PersistIs
  <2>6. Extends(q, p, <<c>>, JustOne(c, cv), "run", s.run)
    BY <2>4, <2>5 DEF Extends
  <2>7. Ordering(<<c>>, {c}) /\ DOMAIN JustOne(c, cv) = {c} /\ JustOne(c, cv)[c] = cv
    BY OneSave
  <2>8. Welcome(p, k, c)
    BY <1>6, ShownWelcome
  <2>9. DOMAIN s.run = Convs /\ s.run[c] = r /\ \A x \in Convs : x # c => s.run[x] = p.run[x]
    BY <1>2, <2>4
  <2>10. Running(s.run) /\ AwaitsRun(s.run[c])
    BY <1>1, <2>1, <2>9 DEF Running, AwaitsRun, PageShape
  <2>11. ASSUME NEW i \in DOMAIN p.writes, p.writes[i].by = "run"
         PROVE  AwaitsRun(s.run[p.writes[i].conv]) /\ p.writes[i].conv \notin {c}
    <3>1. p.writes[i].conv # c
      BY <2>11 DEF Free
    <3>2. p.writes[i].conv \in Convs
      BY <1>1, <2>11 DEF PageShape, WriteShape
    <3>3. AwaitsRun(p.run[p.writes[i].conv])
      BY <1>1, <2>11 DEF Awaited, AwaitsRun
    <3>4. QED
      BY <2>9, <3>1, <3>2, <3>3
  <2>12. Sound(q, d, k)
    <3> DEFINE o == <<c>>
               v == JustOne(c, cv)
               by == "run"
               run == s.run
               new == {c}
    <3>1. by \in {"run", "start", "none"}
      OBVIOUS
    <3>2. /\ Ordering(o, new) /\ DOMAIN v = new
          /\ \A x \in new : v[x].at = k.now /\ Welcome(p, k, x)
          /\ Running(run)
          /\ \A i \in DOMAIN p.writes : p.writes[i].by = "run" =>
               AwaitsRun(run[p.writes[i].conv]) /\ (by = "run" => p.writes[i].conv \notin new)
          /\ by = "run" => \A x \in new : AwaitsRun(run[x])
          /\ Extends(q, p, o, v, by, run)
      BY <2>3, <2>6, <2>7, <2>8, <2>10, <2>11
    <3> HIDE DEF o, v, by, run, new
    <3>3. QED
      BY <3>1, <3>2, Persisted
  <2>13. Watched(q, {})
    <3>1. q.here = s.here
      BY <2>5 DEF Extends
    <3>2. QED
      BY <2>5, <3>1, WatchedShown
  <2>14. QED
    BY <2>12, <2>13 DEF q
<1>7. QED
  BY <1>5, <1>6

LEMMA InOrder ==
  ASSUME NEW S, IsFiniteSet(S)
  PROVE  Ordering(SetToSeq(S), S)
<1> DEFINE n == Cardinality(S)
           f == SetToSeq(S)
<1>1. n \in Nat /\ ExistsBijection(1 .. n, S)
  BY FS_CardinalityType
<1>2. PICK g : g \in Bijection(1 .. n, S)
  BY <1>1, Fun_ExistsBij
<1>3. g \in [1 .. n -> S] /\ \A a, b \in 1 .. n : g[a] = g[b] => a = b
  BY <1>2, Fun_BijectionProperties
<1>4. f = CHOOSE h \in [1 .. n -> S] : IsInjective(h)
  BY DEF SetToSeq
<1>5. IsInjective(g)
  BY <1>3 DEF IsInjective
<1> HIDE DEF f
<1>6. f \in [1 .. n -> S] /\ IsInjective(f)
  BY <1>3, <1>4, <1>5
<1> HIDE DEF n
<1>7. \A a, b \in 1 .. n : f[a] = f[b] => a = b
  BY <1>6 DEF IsInjective
<1> DEFINE T == {f[i] : i \in 1 .. n}
<1>8. f \in [1 .. n -> T] /\ T \in SUBSET S
  BY <1>6
<1>9. \A t \in T : \E i \in 1 .. n : f[i] = t
  OBVIOUS
<1> HIDE DEF T
<1>10. f \in Bijection(1 .. n, T)
  <2>1. f \in Surjection(1 .. n, T)
    BY <1>8, <1>9 DEF Surjection
  <2>2. f \in Injection(1 .. n, T)
    BY <1>6, <1>8 DEF Injection
  <2>3. QED
    BY <2>1, <2>2 DEF Bijection
<1>11. ExistsBijection(1 .. n, T)
  BY <1>10, Fun_ExistsBij
<1>12. Cardinality(T) = n
  BY <1>1, <1>11, FS_CountingElements
<1>13. T = S
  BY <1>8, <1>12, FS_Subset DEF n
<1>14. IsSeq(f)
  <2>1. f \in Seq(S)
    BY <1>1, <1>6, SeqDef
  <2>2. QED
    BY <2>1, IsSeqOf
<1>15. DOMAIN f = 1 .. n
  BY <1>6
<1>16. QED
  BY <1>6, <1>7, <1>9, <1>13, <1>14, <1>15 DEF Ordering, f

LEMMA ReadyIsOpen ==
  ASSUME NEW cv, Ready(cv)
  PROVE  OpenTurns(cv) # {}
BY DEF Ready, OpenTurns

LEMMA NewRunner ==
  ASSUME NEW t
  PROVE  Runner(RunOf(1, t)) /\ RunOf(1, t).pc \in Waits /\ RunOf(1, t).wait = TRUE
<1> DEFINE pend == {t.imgs[i].id : i \in Positions(t, "loading")}
           b == t.broken
           e == {}
           id == t.id
<1>1. RunOf(1, t) = [pc |-> "mark", wait |-> TRUE, m |-> 1, turn |-> id, pend |-> pend,
                     broken |-> b, again |-> FALSE, ask |-> e, got |-> NoTasks]
  BY DEF RunOf
<1> HIDE DEF pend, b, e, id
<1>2. \A x, y \in BOOLEAN :
        LET r == [pc |-> "mark", wait |-> x, m |-> 1, turn |-> id, pend |-> pend,
                  broken |-> b, again |-> y, ask |-> e, got |-> NoTasks]
        IN  DOMAIN r = RunFields /\ r.m = 1 /\ r.pc = "mark" /\ r.wait = x
  BY 1 \in Int DEF RunFields
<1>3. TRUE \in BOOLEAN /\ FALSE \in BOOLEAN
  OBVIOUS
<1> DEFINE r == RunOf(1, t)
<1> HIDE DEF r
<1>4. DOMAIN r = RunFields /\ r.m = 1 /\ r.pc = "mark" /\ r.wait = TRUE
  BY <1>1, <1>2, <1>3 DEF r
<1>5. QED
  BY <1>4 DEF Runner, Waits, r

(* Starting runners for all the conversations that have work: those of cs  *)
(* need nothing else to be looked after.                                   *)
LEMMA StartedSound ==
  ASSUME NEW p, NEW d, NEW k, NEW cs, Sound(p, d, k), Watched(p, cs), k.now = past.now
  PROVE  Sound(StartedAll(p, 1, cs), d, k) /\ Watched(StartedAll(p, 1, cs), {})
<1> DEFINE shown == p.ref[1]
           new == {c \in cs \cap DOMAIN shown : p.run[c] = NoRun /\ OpenTurns(shown[c]) # {}}
           marked == [c \in new |-> Marked(shown[c])]
           order == SetToSeq(new)
           run == [c \in Convs |-> IF c \in new THEN RunOf(1, shown[c].turns[FirstOpen(shown[c])])
                                                 ELSE p.run[c]]
           saves == Saves(order, marked, "run")
           s == SetShown(p, 1, Laid(marked, shown))
           u == QueueAll(s, saves)
           q == StartedAll(p, 1, cs)
<1>1. PageShape(p) /\ Awaited(p) /\ Known(p, d, k)
  BY DEF Sound
<1>2. DOMAIN p = PageFields /\ DOMAIN p.run = Convs /\ DOMAIN shown \subseteq Convs
  BY <1>1 DEF PageShape, Known
<1>3. q = IF new = {} THEN p ELSE [u EXCEPT !.run = run]
  BY DEF StartedAll, ShownIn, Saves
<1>4. \A c : c \in new <=> /\ c \in cs /\ c \in DOMAIN shown
                          /\ p.run[c] = NoRun /\ OpenTurns(shown[c]) # {}
  OBVIOUS
<1>5. \A c \in new : marked[c].at = k.now
  BY DEF Marked, Stamped
<1>6. DOMAIN marked = new
  OBVIOUS
<1>7. DOMAIN run = Convs /\ \A c \in Convs :
        /\ c \in new => run[c] = RunOf(1, shown[c].turns[FirstOpen(shown[c])])
        /\ c \notin new => run[c] = p.run[c]
  OBVIOUS
<1>8. IsFiniteSet(new)
  <2>1. new \in SUBSET Convs
    BY <1>2
  <2>2. QED
    BY <2>1, ImageAssumption, FS_Subset
<1>9. Ordering(order, new)
  BY <1>8, InOrder
<1> HIDE DEF q, new, marked, order, run
<1>10. CASE new = {}
  <2>1. q = p
    BY <1>3, <1>10
  <2>2. ASSUME p.here = 1, NEW c \in DOMAIN p.ref[1] \ {}, Ready(p.ref[1][c])
        PROVE  p.due \/ p.run[c] # NoRun
    <3>1. CASE c \in cs
      BY <1>4, <1>10, <2>2, <3>1, ReadyIsOpen
    <3>2. CASE c \notin cs
      BY <2>2, <3>2 DEF Watched
    <3>3. QED
      BY <3>1, <3>2
  <2>3. QED
    BY <2>1, <2>2 DEF Watched, q
<1>11. CASE new # {}
  <2>1. /\ DOMAIN s = PageFields
        /\ s.here = p.here
        /\ s.due <=> (p.due \/ p.here = 1)
        /\ s.ref = [p.ref EXCEPT ![1] = Laid(marked, shown)]
        /\ s.load = p.load
        /\ s.writes = p.writes
        /\ s.run = p.run
    <3>1. DOMAIN p = PageFields
      BY <1>2
    <3>2. QED
      BY <3>1, SetShownIs
  <2> HIDE DEF s
  <2>2. /\ DOMAIN u = PageFields
        /\ u.here = s.here
        /\ u.due <=> s.due
        /\ u.ref = s.ref
        /\ u.load = s.load
        /\ u.run = s.run
        /\ u.writes = s.writes \o saves
    <3> HIDE DEF saves
    <3>1. DOMAIN s = PageFields
      BY <2>1
    <3>2. QED
      BY <3>1, QueueIs
  <2> HIDE DEF u
  <2>3. q = [u EXCEPT !.run = run]
    BY <1>3, <1>11
  <2>4. /\ DOMAIN q = PageFields /\ q.here = u.here /\ (q.due <=> u.due)
        /\ q.ref = u.ref /\ q.load = u.load /\ q.run = run /\ q.writes = u.writes
    BY <2>2, <2>3 DEF PageFields
  <2>5. Extends(q, p, order, marked, "run", run)
    BY <2>1, <2>2, <2>4 DEF Extends
  <2>6. q.here = p.here /\ (q.due <=> (p.due \/ p.here = 1))
    BY <2>1, <2>2, <2>4
  <2>7. ASSUME NEW c \in Convs, c \in new
        PROVE  AwaitsRun(run[c])
    BY <1>7, <2>7, NewRunner DEF AwaitsRun
  <2>8. Running(run)
    BY <1>1, <1>7, <2>7 DEF Running, PageShape, AwaitsRun
  <2>9. ASSUME NEW i \in DOMAIN p.writes, p.writes[i].by = "run"
        PROVE  AwaitsRun(run[p.writes[i].conv]) /\ p.writes[i].conv \notin new
    <3>1. p.writes[i].conv \in Convs
      BY <1>1, <2>9 DEF PageShape, WriteShape
    <3>2. AwaitsRun(p.run[p.writes[i].conv])
      BY <1>1, <2>9 DEF Awaited, AwaitsRun
    <3>3. p.writes[i].conv \notin new
      BY <1>4, <3>2, RunnerIsSome DEF AwaitsRun
    <3>4. QED
      BY <1>7, <3>1, <3>2, <3>3
  <2>10. \A c \in new : marked[c].at = k.now /\ Welcome(p, k, c) /\ AwaitsRun(run[c])
    BY <1>2, <1>4, <1>5, <2>7, ShownWelcome
  <2>11. Sound(q, d, k)
    <3> DEFINE by == "run"
    <3>1. by \in {"run", "start", "none"}
      OBVIOUS
    <3>2. /\ \A c \in new : marked[c].at = k.now /\ Welcome(p, k, c)
          /\ \A i \in DOMAIN p.writes : p.writes[i].by = "run" =>
               AwaitsRun(run[p.writes[i].conv]) /\ (by = "run" => p.writes[i].conv \notin new)
          /\ by = "run" => \A x \in new : AwaitsRun(run[x])
          /\ Extends(q, p, order, marked, by, run)
      BY <2>5, <2>9, <2>10
    <3> HIDE DEF by
    <3>3. QED
      BY <1>6, <1>9, <2>8, <3>1, <3>2, Persisted
  <2>12. Watched(q, {})
    BY <2>6, WatchedShown
  <2>13. QED
    BY <2>11, <2>12 DEF q
<1>12. QED
  BY <1>10, <1>11

(* A page on which everything is as it should be.                          *)
Fine(p, d, k) == Sound(p, d, k) /\ Watched(p, {})

(* The runner of c goes on: nothing it queued is still to be written.      *)
GoesOn(p, d, k, c) ==
  /\ Fine(p, d, k) /\ Free(p, c)
  /\ c \in Convs /\ Runner(p.run[c])
  /\ k.now = past.now

LEMMA UpdateFine ==
  ASSUME NEW p, NEW d, NEW k, NEW c, GoesOn(p, d, k, c), NEW turns, NEW pc \in Waits
  PROVE  Fine(RunnerUpdate(p, c, turns, pc), d, k)
BY RunnerUpdateSound DEF GoesOn, Fine

LEMMA RunFine ==
  ASSUME NEW p, NEW d, NEW k, NEW c, GoesOn(p, d, k, c), NEW r, Runner(r)
  PROVE  Fine(SetRun(p, c, r), d, k)
<1>1. Sound(SetRun(p, c, r), d, k)
  BY RunChanged DEF GoesOn, Fine
<1>2. Watched(SetRun(p, c, r), {})
  BY WatchedRun DEF GoesOn, Fine
<1>3. QED
  BY <1>1, <1>2 DEF Fine

LEMMA CaughtFine ==
  ASSUME NEW p, NEW d, NEW k, NEW c, GoesOn(p, d, k, c)
  PROVE  Fine(Caught(p, c), d, k)
<1>1. "caught" \in Waits
  BY DEF Waits
<1>2. \A turns : Fine(RunnerUpdate(p, c, turns, "caught"), d, k)
  BY <1>1, UpdateFine
<1>3. QED
  BY <1>2 DEF Caught

LEMMA FailingFine ==
  ASSUME NEW p, NEW d, NEW k, NEW c, GoesOn(p, d, k, c)
  PROVE  Fine(Failing(p, c), d, k)
<1>1. "failmark" \in Waits
  BY DEF Waits
<1>2. \A turns : Fine(RunnerUpdate(p, c, turns, "failmark"), d, k)
  BY <1>1, UpdateFine
<1>3. QED
  BY <1>2 DEF Failing

LEMMA HeededFine ==
  ASSUME NEW p, NEW d, NEW k, NEW c, GoesOn(p, d, k, c), NEW got, NEW pc \in Waits
  PROVE  Fine(Heeded(p, c, got, pc), d, k)
<1>1. \A turns : Fine(RunnerUpdate(p, c, turns, pc), d, k)
  BY UpdateFine
<1>2. QED
  BY <1>1 DEF Heeded

LEMMA AskingFine ==
  ASSUME NEW p, NEW d, NEW k, NEW c, GoesOn(p, d, k, c), NEW ids, NEW again \in BOOLEAN
  PROVE  Fine(Asking(p, c, ids, again), d, k)
<1> DEFINE r == [p.run[c] EXCEPT !.pc = "create", !.ask = ids, !.got = NoTasks, !.again = again]
<1>1. DOMAIN p.run[c] = RunFields /\ p.run[c].m = 1
  BY DEF GoesOn, Runner
<1>2. DOMAIN r = RunFields /\ r.m = 1 /\ r.pc = "create"
  BY <1>1 DEF RunFields
<1>3. Asking(p, c, ids, again) = SetRun(p, c, r)
  BY DEF Asking
<1> HIDE DEF r
<1>4. Runner(r)
  BY <1>2 DEF Runner
<1>5. QED
  BY <1>3, <1>4, RunFine

LEMMA LoopedFine ==
  ASSUME NEW p, NEW d, NEW k, NEW c, GoesOn(p, d, k, c)
  PROVE  Fine(Looped(p, c), d, k)
<1> DEFINE shown == ShownIn(p, p.run[c].m)
           mine == IF c \in DOMAIN shown THEN TurnsOf(shown[c], p.run[c].turn) ELSE {}
           ids == UNION {LoadingIds(shown[c].turns[i]) : i \in mine}
           pc == IF ids = {} THEN "quota" ELSE "sleep"
<1>1. Looped(p, c) = SetRun(p, c, [p.run[c] EXCEPT !.pc = pc, !.wait = FALSE,
                                                  !.ask = ids, !.got = NoTasks])
  BY DEF Looped
<1>2. pc \in {"quota", "sleep"}
  OBVIOUS
<1> HIDE DEF ids, pc
<1>3. DOMAIN p.run[c] = RunFields /\ p.run[c].m = 1
  BY DEF GoesOn, Runner
<1>4. \A w \in BOOLEAN :
        LET r == [p.run[c] EXCEPT !.pc = pc, !.wait = w, !.ask = ids, !.got = NoTasks]
        IN  DOMAIN r = RunFields /\ r.m = 1 /\ r.pc = pc
  BY <1>3 DEF RunFields
<1>5. FALSE \in BOOLEAN
  OBVIOUS
<1> DEFINE r == [p.run[c] EXCEPT !.pc = pc, !.wait = FALSE, !.ask = ids, !.got = NoTasks]
<1>6. DOMAIN r = RunFields /\ r.m = 1 /\ r.pc = pc
  BY <1>4, <1>5
<1> HIDE DEF r
<1>7. Runner(r)
  BY <1>2, <1>6 DEF Runner
<1>8. Looped(p, c) = SetRun(p, c, r)
  BY <1>1 DEF r
<1>9. QED
  BY <1>7, <1>8, RunFine

LEMMA FinishedFine ==
  ASSUME NEW p, NEW d, NEW k, NEW c, GoesOn(p, d, k, c)
  PROVE  Fine(Finished(p, c), d, k)
<1> DEFINE q == SetRun(p, c, NoRun)
           cs == DOMAIN p.ref[1]
<1>1. DOMAIN p = PageFields /\ p.run[c].m = 1
  BY DEF GoesOn, Fine, Sound, PageShape, Runner
<1>2. Finished(p, c) = StartedAll(q, 1, cs)
  BY <1>1 DEF Finished, ShownIn
<1>3. Sound(q, d, k)
  BY RunChanged DEF GoesOn, Fine
<1>4. /\ DOMAIN q = PageFields /\ q.here = p.here /\ (q.due <=> p.due)
      /\ q.ref = p.ref /\ q.load = p.load /\ q.writes = p.writes
      /\ q.run = [p.run EXCEPT ![c] = NoRun]
  <2>1. DOMAIN p = PageFields
    BY <1>1
  <2>2. QED
    BY <2>1, SetRunIs
<1> HIDE DEF q
<1>5. Watched(q, cs)
  BY <1>4 DEF Watched
<1>6. k.now = past.now
  BY DEF GoesOn
<1>7. QED
  BY <1>2, <1>3, <1>5, <1>6, StartedSound DEF Fine

LEMMA ResubmitFine ==
  ASSUME NEW p, NEW d, NEW k, NEW c, GoesOn(p, d, k, c)
  PROVE  Fine(Resubmit(p, c), d, k)
<1>1. TRUE \in BOOLEAN
  OBVIOUS
<1>2. \A ids : Fine(Asking(p, c, ids, TRUE), d, k)
  BY <1>1, AskingFine
<1>3. Fine(Looped(p, c), d, k)
  BY LoopedFine
<1>4. QED
  BY <1>2, <1>3 DEF Resubmit

LEMMA ResumedFine ==
  ASSUME NEW p, NEW d, NEW k, NEW c, GoesOn(p, d, k, c), p.run[c].pc \in Waits
  PROVE  Fine(Resumed(p, c), d, k)
<1>1. FALSE \in BOOLEAN
  OBVIOUS
<1>2. \A ids : Fine(Asking(p, c, ids, FALSE), d, k)
  BY <1>1, AskingFine
<1>3. /\ Fine(Caught(p, c), d, k) /\ Fine(Failing(p, c), d, k) /\ Fine(Looped(p, c), d, k)
      /\ Fine(Resubmit(p, c), d, k) /\ Fine(Finished(p, c), d, k)
  BY CaughtFine, FailingFine, LoopedFine, ResubmitFine, FinishedFine
<1>4. CASE p.run[c].pc = "mark"
  BY <1>2, <1>3, <1>4 DEF Resumed
<1>5. CASE p.run[c].pc = "submit"
  BY <1>3, <1>5 DEF Resumed
<1>6. CASE p.run[c].pc = "failmark"
  BY <1>3, <1>6 DEF Resumed
<1>7. CASE p.run[c].pc = "applied"
  BY <1>3, <1>7 DEF Resumed
<1>8. CASE p.run[c].pc = "caught"
  BY <1>3, <1>8 DEF Resumed
<1>9. QED
  BY <1>4, <1>5, <1>6, <1>7, <1>8 DEF Waits

-----------------------------------------------------------------------------
(* The head of the queue is written, or refused.                           *)

Popped(q, p) ==
  /\ DOMAIN q = PageFields
  /\ q.here = p.here /\ (q.due <=> p.due) /\ q.ref = p.ref /\ q.load = p.load /\ q.run = p.run
  /\ q.writes = Tail(p.writes)

LEMMA Shifted ==
  ASSUME NEW p, NEW q, IsSeq(p.writes), p.writes # <<>>, Popped(q, p)
  PROVE  /\ IsSeq(q.writes)
         /\ 1 \in DOMAIN p.writes /\ Head(p.writes) = p.writes[1]
         /\ \A i \in DOMAIN q.writes :
              i \in Nat /\ i + 1 \in DOMAIN p.writes /\ q.writes[i] = p.writes[i + 1]
         /\ \A c : \A i \in Saving(q, c) :
              /\ i \in Nat /\ i + 1 \in Saving(p, c) /\ i \in DOMAIN q.writes
              /\ q.writes[i] = p.writes[i + 1]
         /\ \A c : \A i \in Saving(p, c) :
              i # 1 => i \in Nat /\ i - 1 \in Saving(q, c) /\ q.writes[i - 1] = p.writes[i]
         /\ \A c : \A i \in Saving(p, c) : i \in Nat /\ i >= 1
<1> DEFINE n == Len(p.writes)
<1>1. /\ IsSeq(q.writes)
      /\ n \in Nat /\ DOMAIN p.writes = 1 .. n /\ 1 \in DOMAIN p.writes
      /\ DOMAIN q.writes = 1 .. n - 1
      /\ \A j \in DOMAIN q.writes : j + 1 \in DOMAIN p.writes /\ q.writes[j] = p.writes[j + 1]
      /\ Head(p.writes) = p.writes[1]
  <2> DEFINE s == p.writes
  <2>1. IsSeq(s) /\ s # <<>>
    OBVIOUS
  <2> HIDE DEF s
  <2>2. /\ IsSeq(Tail(s))
        /\ Len(s) \in Nat /\ DOMAIN s = 1 .. Len(s) /\ 1 \in DOMAIN s
        /\ DOMAIN Tail(s) = 1 .. Len(s) - 1
        /\ \A j \in DOMAIN Tail(s) : j + 1 \in DOMAIN s /\ Tail(s)[j] = s[j + 1]
        /\ Head(s) = s[1]
    BY <2>1, ShorterSeq
  <2>3. q.writes = Tail(s)
    BY DEF Popped, s
  <2>4. QED
    BY <2>2, <2>3 DEF s
<1> HIDE DEF n
<1>2. \A i \in DOMAIN q.writes :
        i \in Nat /\ i + 1 \in DOMAIN p.writes /\ q.writes[i] = p.writes[i + 1]
  BY <1>1
<1>3. ASSUME NEW c, NEW i \in Saving(q, c)
      PROVE  /\ i \in Nat /\ i + 1 \in Saving(p, c) /\ i \in DOMAIN q.writes
             /\ q.writes[i] = p.writes[i + 1]
  BY <1>2 DEF Saving
<1>4. ASSUME NEW c, NEW i \in Saving(p, c)
      PROVE  /\ i \in Nat /\ i >= 1
             /\ i # 1 => i - 1 \in Saving(q, c) /\ q.writes[i - 1] = p.writes[i]
  <2>1. i \in 1 .. n /\ i \in DOMAIN p.writes
    BY <1>1 DEF Saving
  <2>2. ASSUME i # 1
        PROVE  i - 1 \in Saving(q, c) /\ q.writes[i - 1] = p.writes[i]
    <3>1. i - 1 \in 1 .. n - 1 /\ i - 1 + 1 = i
      BY <1>1, <2>1, <2>2
    <3>2. i - 1 \in DOMAIN q.writes /\ q.writes[i - 1] = p.writes[i]
      BY <1>1, <3>1
    <3>3. QED
      BY <3>2 DEF Saving
  <2>3. QED
    BY <1>1, <2>1, <2>2
<1>5. QED
  BY <1>1, <1>2, <1>3, <1>4

LEMMA PoppedShape ==
  ASSUME NEW p, NEW q, PageShape(p), Awaited(p), p.writes # <<>>, Popped(q, p)
  PROVE  /\ PageShape(q) /\ Awaited(q)
         /\ WriteShape(p.writes[1])
         /\ p.writes[1].by = "run" =>
              /\ Runner(q.run[p.writes[1].conv]) /\ q.run[p.writes[1].conv].pc \in Waits
              /\ Free(q, p.writes[1].conv)
         /\ p.writes[1].by \in {"recover", "sync"} =>
              /\ q.load[1].pc = "save"
              /\ \A i \in DOMAIN q.writes : q.writes[i].by \notin {"recover", "sync"}
<1>1. IsSeq(p.writes)
  BY DEF PageShape
<1>2. /\ IsSeq(q.writes)
      /\ 1 \in DOMAIN p.writes
      /\ \A i \in DOMAIN q.writes :
           i \in Nat /\ i + 1 \in DOMAIN p.writes /\ q.writes[i] = p.writes[i + 1]
  BY <1>1, Shifted
<1>3. \A i \in DOMAIN q.writes : WriteShape(q.writes[i])
  BY <1>2 DEF PageShape
<1>4. DOMAIN q = PageFields /\ q.here = p.here /\ q.ref = p.ref /\ q.load = p.load /\ q.run = p.run
  BY DEF Popped
<1>5. PageShape(q)
  BY <1>2, <1>3, <1>4 DEF PageShape
<1>6. \A i, j \in DOMAIN q.writes : i + 1 = j + 1 => i = j
  BY <1>2
<1>7. \A i \in DOMAIN q.writes : i + 1 # 1
  <2>1. \A i \in DOMAIN q.writes : i > 0
    BY <1>2, Indices
  <2>2. QED
    BY <1>2, <2>1
<1>8. Awaited(q)
  BY <1>2, <1>4, <1>6 DEF Awaited
<1>9. WriteShape(p.writes[1])
  BY <1>2 DEF PageShape
<1>10. ASSUME p.writes[1].by = "run"
       PROVE  /\ Runner(q.run[p.writes[1].conv]) /\ q.run[p.writes[1].conv].pc \in Waits
              /\ Free(q, p.writes[1].conv)
  <2>1. /\ Runner(p.run[p.writes[1].conv]) /\ p.run[p.writes[1].conv].pc \in Waits
        /\ \A j \in DOMAIN p.writes :
             p.writes[j].by = "run" /\ p.writes[j].conv = p.writes[1].conv => j = 1
    BY <1>2, <1>10 DEF Awaited
  <2>2. Free(q, p.writes[1].conv)
    BY <1>2, <1>7, <2>1 DEF Free
  <2>3. QED
    BY <1>4, <2>1, <2>2
<1>11. ASSUME p.writes[1].by \in {"recover", "sync"}
       PROVE  /\ q.load[1].pc = "save"
              /\ \A i \in DOMAIN q.writes : q.writes[i].by \notin {"recover", "sync"}
  <2>1. /\ p.load[1].pc = "save"
        /\ \A j \in DOMAIN p.writes : p.writes[j].by \in {"recover", "sync"} => j = 1
    BY <1>2, <1>11 DEF Awaited
  <2>2. QED
    BY <1>2, <1>4, <1>7, <2>1
<1>12. QED
  BY <1>5, <1>8, <1>9, <1>10, <1>11

LEMMA PoppedFailed ==
  ASSUME NEW p, NEW q, NEW d, NEW k, NEW k2, Sound(p, d, k), p.writes # <<>>, Popped(q, p),
         k2.ids = k.ids, k2.kept = k.kept, k2.back = k.back, k2.loose = k.loose,
         k2.gone = k.gone, k2.now = k.now, k2.lostWrite
  PROVE  Sound(q, d, k2)
<1>1. PageShape(p) /\ Awaited(p) /\ Known(p, d, k) /\ Sticks(p, d, k) /\ Ages(p, d, k)
  BY DEF Sound
<1>2. PageShape(q) /\ Awaited(q)
  BY <1>1, PoppedShape
<1>3. IsSeq(p.writes)
  BY <1>1 DEF PageShape
<1>4. /\ \A i \in DOMAIN q.writes :
           i \in Nat /\ i + 1 \in DOMAIN p.writes /\ q.writes[i] = p.writes[i + 1]
      /\ \A c : \A i \in Saving(q, c) :
           /\ i \in Nat /\ i + 1 \in Saving(p, c) /\ i \in DOMAIN q.writes
           /\ q.writes[i] = p.writes[i + 1]
  BY <1>3, Shifted
<1>5. q.ref = p.ref /\ q.load = p.load
  BY DEF Popped
<1>6. Known(q, d, k2)
  BY <1>1, <1>4, <1>5 DEF Known
<1>7. Sticks(q, d, k2)
  <2>1. ASSUME NEW c \in k.kept \ k.back
        PROVE  q.load[1].pc = "done" /\ c \notin DOMAIN q.ref[1] /\ c \notin DOMAIN d /\ Saving(q, c) = {}
    BY <1>1, <1>4, <1>5 DEF Sticks
  <2>2. ASSUME NEW i \in DOMAIN q.writes, q.writes[i].by = "delete", q.writes[i].conv \notin k.back
        PROVE  /\ q.load[1].pc = "done" /\ q.writes[i].conv \notin DOMAIN q.ref[1]
               /\ \A j \in Saving(q, q.writes[i].conv) : j < i
    <3>1. /\ i \in Nat /\ i + 1 \in DOMAIN p.writes /\ q.writes[i] = p.writes[i + 1]
      BY <1>4
    <3>2. /\ p.load[1].pc = "done" /\ q.writes[i].conv \notin DOMAIN p.ref[1]
          /\ \A j \in Saving(p, q.writes[i].conv) : j < i + 1
      BY <1>1, <2>2, <3>1 DEF Sticks
    <3>3. ASSUME NEW j \in Saving(q, q.writes[i].conv)
          PROVE  j < i
      <4>1. j \in Nat /\ j + 1 \in Saving(p, q.writes[i].conv)
        BY <1>4
      <4>2. j + 1 < i + 1
        BY <3>2, <4>1
      <4>3. QED
        BY <3>1, <4>1, <4>2
    <3>4. QED
      BY <1>5, <3>2, <3>3
  <2>3. QED
    BY <2>1, <2>2 DEF Sticks
<1>8. Ages(q, d, k2)
  <2>1. ASSUME NEW c \in k.ids, NEW i \in Saving(q, c)
        PROVE  Aged(q.writes[i].items[c], k2)
    BY <1>1, <1>4 DEF Ages, Aged
  <2>2. QED
    BY <1>1, <1>5, <2>1 DEF Ages, Aged
<1>9. Fits(q, d, k2)
  BY DEF Fits
<1>10. QED
  BY <1>2, <1>6, <1>7, <1>8, <1>9 DEF Sound

(* What a write leaves in the store.                                       *)
Leaves(e, d, w) ==
  /\ w.op = "save" =>
       /\ DOMAIN e = DOMAIN d \cup DOMAIN w.items
       /\ \A c \in DOMAIN d : c \notin DOMAIN w.items => e[c] = d[c]
       /\ \A c \in DOMAIN w.items : c \notin DOMAIN d => e[c] = w.items[c]
       /\ \A c \in DOMAIN w.items : c \in DOMAIN d =>
            e[c] = pickLatestConversation(d[c], w.items[c])
  /\ w.op = "rename" =>
       /\ DOMAIN e = DOMAIN d
       /\ \A c \in DOMAIN d : c # w.conv => e[c] = d[c]
       /\ w.conv \in DOMAIN d => e[w.conv].at = past.now
  /\ w.op = "delete" =>
       /\ DOMAIN e = DOMAIN d \ {w.conv}
       /\ \A c \in DOMAIN e : e[c] = d[c]
  /\ w.op = "clear" => DOMAIN e = {}

LEMMA WrittenIs ==
  ASSUME NEW d, NEW w, w.op \in {"save", "rename", "delete", "clear"}
  PROVE  Leaves(Written(d, w), d, w)
<1>1. ASSUME w.op = "save"
      PROVE  Written(d, w) = SaveInto(d, w.items)
  BY <1>1 DEF Written
<1>2. ASSUME w.op = "rename"
      PROVE  Written(d, w) = RenameIn(d, w.conv)
  BY <1>2 DEF Written
<1>3. ASSUME w.op = "delete"
      PROVE  Written(d, w) = Without(d, w.conv)
  BY <1>3 DEF Written
<1>4. ASSUME w.op = "clear"
      PROVE  Written(d, w) = NoConvs
  BY <1>4 DEF Written
<1>5. /\ DOMAIN SaveInto(d, w.items) = DOMAIN d \cup DOMAIN w.items
      /\ \A c \in DOMAIN d \cup DOMAIN w.items :
           SaveInto(d, w.items)[c] = IF c \notin DOMAIN w.items THEN d[c]
                                     ELSE IF c \notin DOMAIN d THEN w.items[c]
                                     ELSE pickLatestConversation(d[c], w.items[c])
  BY DEF SaveInto
<1>6. /\ DOMAIN RenameIn(d, w.conv) = DOMAIN d
      /\ \A c \in DOMAIN d : c # w.conv => RenameIn(d, w.conv)[c] = d[c]
      /\ w.conv \in DOMAIN d => RenameIn(d, w.conv)[w.conv].at = past.now
  <2>1. CASE w.conv \in DOMAIN d
    <3>1. RenameIn(d, w.conv) = [d EXCEPT ![w.conv] = Renamed(d[w.conv])]
      BY <2>1 DEF RenameIn
    <3>2. Renamed(d[w.conv]).at = past.now
      BY DEF Renamed
    <3>3. QED
      BY <2>1, <3>1, <3>2
  <2>2. CASE w.conv \notin DOMAIN d
    BY <2>2 DEF RenameIn
  <2>3. QED
    BY <2>1, <2>2
<1>7. /\ DOMAIN Without(d, w.conv) = DOMAIN d \ {w.conv}
      /\ \A c \in DOMAIN d \ {w.conv} : Without(d, w.conv)[c] = d[c]
  BY DEF Without
<1>8. DOMAIN NoConvs = {}
  BY DEF NoConvs
<1>9. QED
  BY <1>1, <1>2, <1>3, <1>4, <1>5, <1>6, <1>7, <1>8 DEF Leaves

(* The head is written.                                                    *)
Recorded(k2, k, d, w) ==
  /\ k2.ids = k.ids /\ k2.back = k.back /\ k2.loose = k.loose /\ k2.now = k.now
  /\ k2.lostWrite <=> k.lostWrite
  /\ k2.gone = IF w.op = "delete" THEN k.gone \cup {w.conv}
               ELSE IF w.op = "clear" THEN k.gone \cup DOMAIN d ELSE k.gone
  /\ k2.kept = IF w.by = "delete" THEN k.kept \cup {w.conv} ELSE k.kept

LEMMA PoppedDone ==
  ASSUME NEW p, NEW q, NEW d, NEW k, NEW k2, NEW w,
         Sound(p, d, k), p.writes # <<>>, Popped(q, p),
         w = p.writes[1], k.now = past.now, Recorded(k2, k, d, w)
  PROVE  Sound(q, Written(d, w), k2)
<1> DEFINE e == Written(d, w)
<1> k2.ids = k.ids /\ k2.back = k.back /\ k2.loose = k.loose /\ k2.now = k.now
  BY DEF Recorded
<1> k2.lostWrite <=> k.lostWrite
  BY DEF Recorded
<1> k2.gone = IF w.op = "delete" THEN k.gone \cup {w.conv}
              ELSE IF w.op = "clear" THEN k.gone \cup DOMAIN d ELSE k.gone
  BY DEF Recorded
<1> k2.kept = IF w.by = "delete" THEN k.kept \cup {w.conv} ELSE k.kept
  BY DEF Recorded
<1>1. PageShape(p) /\ Awaited(p) /\ Known(p, d, k) /\ Sticks(p, d, k) /\ Ages(p, d, k) /\ Fits(p, d, k)
  BY DEF Sound
<1>2. PageShape(q) /\ Awaited(q) /\ WriteShape(w)
  BY <1>1, PoppedShape
<1>3. IsSeq(p.writes)
  BY <1>1 DEF PageShape
<1>4. /\ 1 \in DOMAIN p.writes
      /\ \A i \in DOMAIN q.writes :
           i \in Nat /\ i + 1 \in DOMAIN p.writes /\ q.writes[i] = p.writes[i + 1]
      /\ \A c : \A i \in Saving(q, c) :
           /\ i \in Nat /\ i + 1 \in Saving(p, c) /\ i \in DOMAIN q.writes
           /\ q.writes[i] = p.writes[i + 1]
      /\ \A c : \A i \in Saving(p, c) :
           i # 1 => i \in Nat /\ i - 1 \in Saving(q, c) /\ q.writes[i - 1] = p.writes[i]
      /\ \A c : \A i \in Saving(p, c) : i \in Nat /\ i >= 1
  BY <1>3, Shifted
<1>5. q.ref = p.ref /\ q.load = p.load
  BY DEF Popped
<1>6. /\ w.op \in {"save", "rename", "delete", "clear"}
      /\ w.by = "delete" => w.op = "delete"
  BY <1>2 DEF WriteShape
<1>0. Leaves(e, d, w)
  BY <1>6, WrittenIs
<1> HIDE DEF e
<1>7. /\ w.op = "save" =>
           /\ DOMAIN e = DOMAIN d \cup DOMAIN w.items
           /\ \A c \in DOMAIN d : c \notin DOMAIN w.items => e[c] = d[c]
           /\ \A c \in DOMAIN w.items : c \notin DOMAIN d => e[c] = w.items[c]
           /\ \A c \in DOMAIN w.items : c \in DOMAIN d =>
                e[c] = pickLatestConversation(d[c], w.items[c])
      /\ w.op = "rename" =>
           /\ DOMAIN e = DOMAIN d
           /\ \A c \in DOMAIN d : c # w.conv => e[c] = d[c]
           /\ w.conv \in DOMAIN d => e[w.conv].at = past.now
      /\ w.op = "delete" =>
           /\ DOMAIN e = DOMAIN d \ {w.conv}
           /\ \A c \in DOMAIN e : e[c] = d[c]
      /\ w.op = "clear" => DOMAIN e = {}
  BY <1>0 DEF Leaves
<1>8. /\ w.op = "save" => DOMAIN w.items \subseteq k.ids
      /\ w.op = "delete" => w.conv \in k.ids
      /\ w.op = "rename" => w.conv \in k.loose
  BY <1>1, <1>4 DEF Known
<1>9. \A c : 1 \in Saving(p, c) <=> w.op = "save" /\ c \in DOMAIN w.items
  BY <1>4 DEF Saving
<1>10. Known(q, e, k2)
  <2>1. DOMAIN e \subseteq k.ids
    BY <1>1, <1>6, <1>7, <1>8 DEF Known
  <2>2. k2.kept \subseteq k.ids
    BY <1>1, <1>6, <1>8 DEF Known
  <2>3. QED
    BY <1>1, <1>4, <1>5, <2>1, <2>2 DEF Known
<1>11. Sticks(q, e, k2)
  <2>1. ASSUME NEW c \in k2.kept \ k2.back
        PROVE  q.load[1].pc = "done" /\ c \notin DOMAIN q.ref[1] /\ c \notin DOMAIN e /\ Saving(q, c) = {}
    <3>1. CASE c \in k.kept
      <4>1. /\ p.load[1].pc = "done" /\ c \notin DOMAIN p.ref[1]
            /\ c \notin DOMAIN d /\ Saving(p, c) = {}
        BY <1>1, <2>1, <3>1 DEF Sticks
      <4>2. Saving(q, c) = {}
        BY <1>4, <4>1
      <4>3. c \notin DOMAIN e
        BY <1>6, <1>7, <1>9, <4>1
      <4>4. QED
        BY <1>5, <4>1, <4>2, <4>3
    <3>2. CASE c \notin k.kept
      <4>1. w.by = "delete" /\ c = w.conv /\ w.op = "delete"
        BY <1>6, <2>1, <3>2
      <4>2. /\ p.load[1].pc = "done" /\ c \notin DOMAIN p.ref[1]
            /\ \A j \in Saving(p, c) : j < 1
        BY <1>1, <1>4, <2>1, <4>1 DEF Sticks
      <4>3. Saving(q, c) = {}
        <5>1. Saving(p, c) = {}
          BY <1>4, <4>2
        <5>2. QED
          BY <1>4, <5>1
      <4>4. c \notin DOMAIN e
        BY <1>7, <4>1
      <4>5. QED
        BY <1>5, <4>2, <4>3, <4>4
    <3>3. QED
      BY <3>1, <3>2
  <2>2. ASSUME NEW i \in DOMAIN q.writes, q.writes[i].by = "delete", q.writes[i].conv \notin k2.back
        PROVE  /\ q.load[1].pc = "done" /\ q.writes[i].conv \notin DOMAIN q.ref[1]
               /\ \A j \in Saving(q, q.writes[i].conv) : j < i
    <3>1. /\ i \in Nat /\ i + 1 \in DOMAIN p.writes /\ q.writes[i] = p.writes[i + 1]
      BY <1>4
    <3>2. /\ p.load[1].pc = "done" /\ q.writes[i].conv \notin DOMAIN p.ref[1]
          /\ \A j \in Saving(p, q.writes[i].conv) : j < i + 1
      BY <1>1, <2>2, <3>1 DEF Sticks
    <3>3. ASSUME NEW j \in Saving(q, q.writes[i].conv)
          PROVE  j < i
      <4>1. j \in Nat /\ j + 1 \in Saving(p, q.writes[i].conv)
        BY <1>4
      <4>2. j + 1 < i + 1
        BY <3>2, <4>1
      <4>3. QED
        BY <3>1, <4>1, <4>2
    <3>4. QED
      BY <1>5, <3>2, <3>3
  <2>3. QED
    BY <2>1, <2>2 DEF Sticks
<1>12. Ages(q, e, k2)
  <2>1. k.now \in Nat /\ (\A c \in DOMAIN d : Aged(d[c], k))
        /\ \A c \in k.ids : \A i \in Saving(p, c) : Aged(p.writes[i].items[c], k)
    BY <1>1 DEF Ages
  <2>2. ASSUME NEW c \in DOMAIN e
        PROVE  Aged(e[c], k)
    <3>1. w.op = "save" => \A x \in DOMAIN w.items : Aged(w.items[x], k)
      BY <1>8, <1>9, <2>1
    <3>2. CASE w.op = "save"
      <4>1. c \in DOMAIN d \/ c \in DOMAIN w.items
        BY <1>7, <3>2
      <4>2. \/ e[c] = d[c] /\ c \in DOMAIN d
            \/ e[c] = w.items[c] /\ c \in DOMAIN w.items
        <5>1. CASE c \notin DOMAIN w.items
          BY <1>7, <3>2, <4>1, <5>1
        <5>2. CASE c \in DOMAIN w.items /\ c \notin DOMAIN d
          BY <1>7, <3>2, <5>2
        <5>3. CASE c \in DOMAIN w.items /\ c \in DOMAIN d
          <6>1. e[c] = pickLatestConversation(d[c], w.items[c])
            BY <1>7, <3>2, <5>3
          <6>2. QED
            BY <5>3, <6>1 DEF pickLatestConversation
        <5>4. QED
          BY <5>1, <5>2, <5>3
      <4>3. QED
        BY <2>1, <3>1, <3>2, <4>2
    <3>3. CASE w.op = "rename"
      BY <1>7, <2>1, <3>3 DEF Aged
    <3>4. CASE w.op \in {"delete", "clear"}
      BY <1>7, <2>1, <3>4
    <3>5. QED
      BY <1>6, <3>2, <3>3, <3>4
  <2>3. ASSUME NEW c \in k.ids, NEW i \in Saving(q, c)
        PROVE  Aged(q.writes[i].items[c], k2)
    BY <1>4, <2>1 DEF Aged
  <2>4. ASSUME ~k2.lostWrite, NEW c \in k.ids \ Excused(k2), NEW i \in Saving(q, c)
        PROVE  /\ c \in DOMAIN e => e[c].at <= q.writes[i].items[c].at
               /\ \A j \in Saving(q, c) : i <= j => q.writes[i].items[c].at <= q.writes[j].items[c].at
    <3>1. c \in k.ids \ Excused(k)
      BY <1>6, <2>4 DEF Excused
    <3>2. /\ c \in DOMAIN d => d[c].at <= p.writes[i + 1].items[c].at
          /\ \A j \in Saving(p, c) : i + 1 <= j => p.writes[i + 1].items[c].at <= p.writes[j].items[c].at
      BY <1>1, <1>4, <2>4, <3>1 DEF Ages
    <3>3. ASSUME NEW j \in Saving(q, c), i <= j
          PROVE  q.writes[i].items[c].at <= q.writes[j].items[c].at
      <4>1. i \in Nat /\ j \in Nat /\ j + 1 \in Saving(p, c) /\ q.writes[j] = p.writes[j + 1]
            /\ q.writes[i] = p.writes[i + 1]
        BY <1>4
      <4>2. i + 1 <= j + 1
        BY <3>3, <4>1
      <4>3. QED
        BY <3>2, <4>1, <4>2
    <3>4. ASSUME 1 \in Saving(p, c)
          PROVE  w.items[c].at <= q.writes[i].items[c].at
      <4>1. i \in Nat /\ i + 1 \in Saving(p, c) /\ q.writes[i] = p.writes[i + 1] /\ 1 <= i + 1
        BY <1>4
      <4>2. \A j \in Saving(p, c) : 1 <= j => p.writes[1].items[c].at <= p.writes[j].items[c].at
        BY <1>1, <2>4, <3>1, <3>4 DEF Ages
      <4>3. QED
        BY <4>1, <4>2
    <3>5. ASSUME c \in DOMAIN e
          PROVE  e[c].at <= q.writes[i].items[c].at
      <4>1. q.writes[i] = p.writes[i + 1]
        BY <1>4
      <4>2. CASE w.op = "save"
        <5>1. \/ e[c] = d[c] /\ c \in DOMAIN d
              \/ e[c] = w.items[c] /\ c \in DOMAIN w.items
          BY <1>7, <3>5, <4>2 DEF pickLatestConversation
        <5>2. QED
          BY <1>9, <3>2, <3>4, <4>1, <4>2, <5>1
      <4>3. CASE w.op = "rename"
        <5>1. c # w.conv
          BY <1>8, <3>1, <4>3 DEF Excused
        <5>2. QED
          BY <1>7, <3>2, <3>5, <4>1, <4>3, <5>1
      <4>4. CASE w.op \in {"delete", "clear"}
        BY <1>7, <3>2, <3>5, <4>1, <4>4
      <4>5. QED
        BY <1>6, <4>2, <4>3, <4>4
    <3>6. QED
      BY <3>3, <3>5
  <2>5. \A c \in DOMAIN p.load[1].items : Aged(p.load[1].items[c], k)
    BY <1>1 DEF Ages
  <2>6. QED
    BY <1>5, <2>1, <2>2, <2>3, <2>4, <2>5 DEF Ages, Aged
<1>13. ASSUME ~k2.lostWrite, NEW c \in k.ids \ Excused(k2), NEW v, Settles(p, d, c, v)
       PROVE  Settles(q, e, c, v)
  <2>1. c \in k.ids \ Excused(k)
    BY <1>6, <1>13 DEF Excused
  <2>2. /\ w.op = "delete" => c # w.conv
        /\ w.op = "clear" => c \notin DOMAIN d
        /\ w.op = "rename" => c # w.conv
    BY <1>8, <1>13 DEF Excused
  <2>3. CASE Saving(p, c) = {}
    <3>1. c \in DOMAIN d /\ d[c] = v
      BY <1>13, <2>3 DEF Settles
    <3>2. Saving(q, c) = {}
      BY <1>4, <2>3
    <3>3. w.op = "save" => c \notin DOMAIN w.items
      BY <1>9, <2>3
    <3>4. c \in DOMAIN e /\ e[c] = v
      BY <1>6, <1>7, <2>2, <3>1, <3>3
    <3>5. QED
      BY <3>2, <3>4 DEF Settles
  <2>4. CASE Saving(p, c) # {}
    <3>1. PICK i \in Saving(p, c) : (\A j \in Saving(p, c) : j <= i) /\ p.writes[i].items[c] = v
      BY <1>13, <2>4 DEF Settles
    <3>2. CASE i = 1
      <4>1. Saving(q, c) = {}
        <5>1. \A j \in Saving(q, c) : j \in Nat /\ j + 1 <= 1 /\ j >= 1
          <6>1. \A j \in Saving(q, c) : j \in Nat /\ j + 1 <= 1
            BY <1>4, <3>1, <3>2
          <6>2. \A j \in DOMAIN q.writes : j >= 1
            BY <1>2, Indices DEF PageShape
          <6>3. QED
            BY <1>4, <6>1, <6>2
        <5>2. QED
          BY <5>1
      <4>2. w.op = "save" /\ c \in DOMAIN w.items /\ w.items[c] = v
        BY <1>9, <3>1, <3>2
      <4>3. c \in DOMAIN e /\ e[c] = v
        <5>1. CASE c \notin DOMAIN d
          BY <1>7, <4>2, <5>1
        <5>2. CASE c \in DOMAIN d
          <6>1. d[c].at <= w.items[c].at
            BY <1>1, <1>13, <2>1, <3>1, <3>2, <5>2 DEF Ages
          <6>2. d[c].at \in Nat /\ w.items[c].at \in Nat
            BY <1>1, <2>1, <3>1, <3>2, <5>2 DEF Ages, Aged
          <6>3. pickLatestConversation(d[c], w.items[c]) = w.items[c]
            BY <6>1, <6>2 DEF pickLatestConversation
          <6>4. QED
            BY <1>7, <4>2, <5>2, <6>3
        <5>3. QED
          BY <5>1, <5>2
      <4>4. QED
        BY <4>1, <4>3 DEF Settles
    <3>3. CASE i # 1
      <4>1. i \in Nat /\ i - 1 \in Saving(q, c) /\ q.writes[i - 1].items[c] = v
        BY <1>4, <3>1, <3>3
      <4>2. ASSUME NEW j \in Saving(q, c)
            PROVE  j <= i - 1
        <5>1. j \in Nat /\ j + 1 <= i
          BY <1>4, <3>1
        <5>2. QED
          BY <4>1, <5>1
      <4>3. QED
        BY <4>1, <4>2 DEF Settles
    <3>4. QED
      BY <3>2, <3>3
  <2>5. QED
    BY <2>3, <2>4
<1>14. Fits(q, e, k2)
  <2> SUFFICES ASSUME ~k2.lostWrite
               PROVE  /\ \A c \in DOMAIN q.ref[1] \ Excused(k2) : Settles(q, e, c, q.ref[1][c])
                      /\ q.load[1].pc \in {"save", "fetch"} =>
                           \A c \in DOMAIN q.load[1].items \ Excused(k2) :
                              Settles(q, e, c, q.load[1].items[c])
                      /\ q.load[1].pc = "list" => \A c \in k2.ids \ Excused(k2) : Saving(q, c) = {}
                      /\ q.load[1].pc # "done" => DOMAIN q.ref[1] \subseteq k2.loose
                      /\ \A i \in DOMAIN q.writes :
                           q.writes[i].by = "early" => q.writes[i].conv \in k2.loose
                      /\ k2.back = {}
    BY DEF Fits
  <2>1. /\ \A c \in DOMAIN p.ref[1] \ Excused(k) : Settles(p, d, c, p.ref[1][c])
        /\ p.load[1].pc \in {"save", "fetch"} =>
             \A c \in DOMAIN p.load[1].items \ Excused(k) : Settles(p, d, c, p.load[1].items[c])
        /\ p.load[1].pc = "list" => \A c \in k.ids \ Excused(k) : Saving(p, c) = {}
        /\ p.load[1].pc # "done" => DOMAIN p.ref[1] \subseteq k.loose
        /\ \A i \in DOMAIN p.writes : p.writes[i].by = "early" => p.writes[i].conv \in k.loose
        /\ k.back = {}
    BY <1>1 DEF Fits
  <2>2. Excused(k) \subseteq Excused(k2)
    BY <1>6 DEF Excused
  <2>3. /\ DOMAIN p.ref[1] \subseteq k.ids /\ DOMAIN p.load[1].items \subseteq k.ids
    BY <1>1 DEF Known
  <2>4. \A c \in DOMAIN q.ref[1] \ Excused(k2) : Settles(q, e, c, q.ref[1][c])
    BY <1>5, <1>13, <2>1, <2>2, <2>3
  <2>5. ASSUME q.load[1].pc \in {"save", "fetch"}, NEW c \in DOMAIN q.load[1].items \ Excused(k2)
        PROVE  Settles(q, e, c, q.load[1].items[c])
    BY <1>5, <1>13, <2>1, <2>2, <2>3, <2>5
  <2>6. ASSUME q.load[1].pc = "list", NEW c \in k2.ids \ Excused(k2)
        PROVE  Saving(q, c) = {}
    <3>1. Saving(p, c) = {}
      BY <1>5, <2>1, <2>2, <2>6
    <3>2. QED
      BY <1>4, <3>1
  <2>7. \A i \in DOMAIN q.writes : q.writes[i].by = "early" => q.writes[i].conv \in k2.loose
    BY <1>4, <2>1
  <2>8. QED
    BY <1>5, <2>1, <2>4, <2>5, <2>6, <2>7
<1>15. QED
  BY <1>2, <1>10, <1>11, <1>12, <1>14 DEF Sound, e

-----------------------------------------------------------------------------
(* What the page's other handlers do to it.                                *)

(* The same but for what is due and which page is shown.                   *)
Alike(q, p) ==
  /\ DOMAIN q = PageFields /\ q.here \in {0, 1}
  /\ q.ref = p.ref /\ q.load = p.load /\ q.run = p.run /\ q.writes = p.writes

LEMMA AlikeSound ==
  ASSUME NEW p, NEW q, NEW d, NEW k, Sound(p, d, k), Alike(q, p)
  PROVE  Sound(q, d, k)
<1>1. PageShape(p) /\ Awaited(p) /\ Known(p, d, k) /\ Sticks(p, d, k) /\ Ages(p, d, k) /\ Fits(p, d, k)
  BY DEF Sound
<1>2. \A c : Saving(q, c) = Saving(p, c)
  BY DEF Alike, Saving
<1>3. PageShape(q) /\ Awaited(q)
  BY <1>1 DEF PageShape, Awaited, Alike
<1>4. Known(q, d, k) /\ Sticks(q, d, k) /\ Ages(q, d, k)
  BY <1>1, <1>2 DEF Known, Sticks, Ages, Alike
<1>5. Fits(q, d, k)
  BY <1>1, <1>2 DEF Fits, Settles, Alike
<1>6. QED
  BY <1>3, <1>4, <1>5 DEF Sound

(* More conversations are made, renamed or brought back.                   *)
Grows(k, k2) ==
  /\ k.ids \subseteq k2.ids /\ k2.ids \subseteq Convs
  /\ k2.kept = k.kept /\ k2.gone = k.gone
  /\ k.back \subseteq k2.back /\ k.loose \subseteq k2.loose
  /\ k2.now \in Nat /\ k.now <= k2.now
  /\ ~k2.lostWrite => ~k.lostWrite /\ k2.back = {}

LEMMA PastGrows ==
  ASSUME NEW p, NEW d, NEW k, NEW k2, Sound(p, d, k), Grows(k, k2)
  PROVE  Sound(p, d, k2)
<1>1. PageShape(p) /\ Awaited(p) /\ Known(p, d, k) /\ Sticks(p, d, k) /\ Ages(p, d, k) /\ Fits(p, d, k)
  BY DEF Sound
<1>2. Known(p, d, k2)
  BY <1>1 DEF Known, Grows
<1>3. Sticks(p, d, k2)
  BY <1>1 DEF Sticks, Grows
<1>4. \A c : c \notin k.ids => Saving(p, c) = {}
  BY <1>1 DEF Known, Saving
<1>5. \A v : Aged(v, k) => Aged(v, k2)
  <2>1. k.now \in Nat /\ k2.now \in Nat /\ k.now <= k2.now
    BY <1>1 DEF Ages, Grows
  <2>2. QED
    BY <2>1 DEF Aged
<1>6. Ages(p, d, k2)
  <2>1. \A c \in k2.ids : \A i \in Saving(p, c) : Aged(p.writes[i].items[c], k2)
    BY <1>1, <1>4, <1>5 DEF Ages
  <2>2. k2.now \in Nat /\ (\A c \in DOMAIN d : Aged(d[c], k2))
        /\ \A c \in DOMAIN p.load[1].items : Aged(p.load[1].items[c], k2)
    BY <1>1, <1>5 DEF Ages, Grows
  <2>3. ASSUME ~k2.lostWrite, NEW c \in k2.ids \ Excused(k2), NEW i \in Saving(p, c)
        PROVE  /\ c \in DOMAIN d => d[c].at <= p.writes[i].items[c].at
               /\ \A j \in Saving(p, c) : i <= j => p.writes[i].items[c].at <= p.writes[j].items[c].at
    <3>1. ~k.lostWrite /\ c \in k.ids \ Excused(k)
      BY <1>4, <2>3 DEF Grows, Excused
    <3>2. QED
      BY <1>1, <2>3, <3>1 DEF Ages
  <2>4. QED
    BY <2>1, <2>2, <2>3 DEF Ages
<1>7. ASSUME ~k2.lostWrite
      PROVE  /\ \A c \in DOMAIN p.ref[1] \ Excused(k2) : Settles(p, d, c, p.ref[1][c])
             /\ p.load[1].pc \in {"save", "fetch"} =>
                  \A c \in DOMAIN p.load[1].items \ Excused(k2) : Settles(p, d, c, p.load[1].items[c])
             /\ p.load[1].pc = "list" => \A c \in k2.ids \ Excused(k2) : Saving(p, c) = {}
             /\ p.load[1].pc # "done" => DOMAIN p.ref[1] \subseteq k2.loose
             /\ \A i \in DOMAIN p.writes :
                  p.writes[i].by = "early" => p.writes[i].conv \in k2.loose
             /\ k2.back = {}
  <2>1. /\ \A c \in DOMAIN p.ref[1] \ Excused(k) : Settles(p, d, c, p.ref[1][c])
        /\ p.load[1].pc \in {"save", "fetch"} =>
             \A c \in DOMAIN p.load[1].items \ Excused(k) : Settles(p, d, c, p.load[1].items[c])
        /\ p.load[1].pc = "list" => \A c \in k.ids \ Excused(k) : Saving(p, c) = {}
        /\ p.load[1].pc # "done" => DOMAIN p.ref[1] \subseteq k.loose
        /\ \A i \in DOMAIN p.writes : p.writes[i].by = "early" => p.writes[i].conv \in k.loose
        /\ k.loose \subseteq k2.loose /\ k2.back = {}
    BY <1>1, <1>7 DEF Fits, Grows
  <2>2. Excused(k) \subseteq Excused(k2)
    BY DEF Grows, Excused
  <2>3. QED
    BY <1>4, <2>1, <2>2
<1>8. Fits(p, d, k2)
  BY <1>7 DEF Fits
<1>9. QED
  BY <1>1, <1>2, <1>3, <1>6, <1>8 DEF Sound

(* Another list of conversations is shown.                                 *)
LEMMA ShownSound ==
  ASSUME NEW p, NEW d, NEW k, NEW convs, Sound(p, d, k),
         \A c \in DOMAIN convs : Welcome(p, k, c),
         ~k.lostWrite => \A c \in DOMAIN convs \ Excused(k) : Settles(p, d, c, convs[c])
  PROVE  Sound(SetShown(p, 1, convs), d, k)
<1> DEFINE q == SetShown(p, 1, convs)
<1>1. PageShape(p) /\ Awaited(p) /\ Known(p, d, k) /\ Sticks(p, d, k) /\ Ages(p, d, k) /\ Fits(p, d, k)
  BY DEF Sound
<1>2. /\ DOMAIN q = PageFields /\ q.here = p.here /\ (q.due <=> (p.due \/ p.here = 1))
      /\ q.ref = [p.ref EXCEPT ![1] = convs] /\ q.load = p.load
      /\ q.writes = p.writes /\ q.run = p.run
  <2>1. DOMAIN p = PageFields
    BY <1>1 DEF PageShape
  <2>2. QED
    BY <2>1, SetShownIs
<1> HIDE DEF q
<1>3. DOMAIN q.ref = Mounts /\ q.ref[1] = convs
  BY <1>1, <1>2, MountOne DEF PageShape
<1>4. PageShape(q) /\ Awaited(q)
  BY <1>1, <1>2, <1>3 DEF PageShape, Awaited
<1>5. \A c : Saving(q, c) = Saving(p, c)
  BY <1>2 DEF Saving
<1>6. DOMAIN convs \subseteq k.ids /\ \A c \in DOMAIN convs : c \notin k.kept \ k.back
  BY DEF Welcome
<1>7. Known(q, d, k)
  BY <1>1, <1>2, <1>3, <1>6 DEF Known
<1>8. \A i \in DOMAIN p.writes :
        p.writes[i].by = "delete" /\ p.writes[i].conv \notin k.back => p.writes[i].conv \notin DOMAIN convs
  BY DEF Welcome
<1>9. Sticks(q, d, k)
  BY <1>1, <1>2, <1>3, <1>5, <1>6, <1>8 DEF Sticks
<1>10. Ages(q, d, k)
  BY <1>1, <1>2, <1>5 DEF Ages
<1>11. \A c, v : Settles(p, d, c, v) => Settles(q, d, c, v)
  BY <1>2, <1>5 DEF Settles
<1>12. ~k.lostWrite /\ p.load[1].pc # "done" => DOMAIN convs \subseteq k.loose
  BY DEF Welcome
<1>13. Fits(q, d, k)
  BY <1>1, <1>2, <1>3, <1>5, <1>11, <1>12 DEF Fits
<1>14. QED
  BY <1>4, <1>7, <1>9, <1>10, <1>13 DEF Sound, q

(* A write that saves nothing is put behind the queue.                     *)
LEMMA QueuedIs ==
  ASSUME NEW p, IsSeq(p.writes), DOMAIN p = PageFields, NEW w
  PROVE  LET q == Queue(p, w)
             n == Len(p.writes)
         IN  /\ DOMAIN q = PageFields /\ q.here = p.here /\ (q.due <=> p.due) /\ q.ref = p.ref
             /\ q.load = p.load /\ q.run = p.run
             /\ IsSeq(q.writes)
             /\ n \in Nat /\ DOMAIN p.writes = 1 .. n
             /\ DOMAIN q.writes = DOMAIN p.writes \cup {n + 1}
             /\ \A i \in DOMAIN p.writes : i \in Nat /\ i < n + 1 /\ q.writes[i] = p.writes[i]
             /\ q.writes[n + 1] = w
<1> DEFINE s == p.writes
           n == Len(s)
           e == <<w>>
           q == Queue(p, w)
<1>1. q = QueueAll(p, e)
  BY DEF Queue
<1>2. /\ DOMAIN q = PageFields /\ q.here = p.here /\ (q.due <=> p.due) /\ q.ref = p.ref
      /\ q.load = p.load /\ q.run = p.run /\ q.writes = s \o e
  <2> HIDE DEF q, e
  <2>1. DOMAIN p = PageFields
    OBVIOUS
  <2>2. /\ DOMAIN QueueAll(p, e) = PageFields
        /\ QueueAll(p, e).here = p.here
        /\ QueueAll(p, e).due <=> p.due
        /\ QueueAll(p, e).ref = p.ref
        /\ QueueAll(p, e).load = p.load
        /\ QueueAll(p, e).run = p.run
        /\ QueueAll(p, e).writes = p.writes \o e
    BY <2>1, QueueIs
  <2>3. /\ DOMAIN q = PageFields
        /\ q.here = p.here
        /\ q.due <=> p.due
        /\ q.ref = p.ref
        /\ q.load = p.load
        /\ q.run = p.run
        /\ q.writes = p.writes \o e
    BY <1>1, <2>2, Zenon
  <2>4. QED
    BY <2>3
<1>3. IsSeq(e) /\ DOMAIN e = {1} /\ Len(e) = 1 /\ e[1] = w
  BY OneOnly
<1>4. IsSeq(s)
  OBVIOUS
<1> HIDE DEF q, e, s
<1>5. /\ IsSeq(s \o e)
      /\ Len(s) \in Nat /\ Len(e) \in Nat
      /\ DOMAIN s = 1 .. Len(s) /\ DOMAIN e = 1 .. Len(e)
      /\ DOMAIN (s \o e) = 1 .. Len(s) + Len(e)
      /\ \A j \in DOMAIN s : (s \o e)[j] = s[j]
      /\ \A j \in 1 .. Len(e) : (s \o e)[Len(s) + j] = e[j]
  BY <1>3, <1>4, JoinedSeq
<1>6. (s \o e)[n + 1] = w
  <2>1. 1 \in 1 .. Len(e)
    BY <1>3
  <2>2. (s \o e)[Len(s) + 1] = e[1]
    BY <1>5, <2>1
  <2>3. QED
    BY <1>3, <2>2
<1>7. DOMAIN (s \o e) = DOMAIN s \cup {n + 1} /\ \A i \in DOMAIN s : i \in Nat /\ i < n + 1
  BY <1>3, <1>5
<1>8. QED
  BY <1>2, <1>5, <1>6, <1>7 DEF q, s

LEMMA QueuedSound ==
  ASSUME NEW p, NEW d, NEW k, NEW w, Sound(p, d, k), WriteShape(w),
         w.op \in {"rename", "delete", "clear"},
         w.op = "delete" => w.conv \in k.ids,
         w.op = "rename" => w.conv \in k.loose,
         w.by = "delete" /\ w.conv \notin k.back =>
           p.load[1].pc = "done" /\ w.conv \notin DOMAIN p.ref[1],
         w.by = "early" /\ ~k.lostWrite => w.conv \in k.loose
  PROVE  Sound(Queue(p, w), d, k)
<1> DEFINE q == Queue(p, w)
           n == Len(p.writes)
<1>1. PageShape(p) /\ Awaited(p) /\ Known(p, d, k) /\ Sticks(p, d, k) /\ Ages(p, d, k) /\ Fits(p, d, k)
  BY DEF Sound
<1>2. /\ DOMAIN q = PageFields /\ q.here = p.here /\ (q.due <=> p.due) /\ q.ref = p.ref
      /\ q.load = p.load /\ q.run = p.run
      /\ IsSeq(q.writes)
      /\ n \in Nat /\ DOMAIN p.writes = 1 .. n
      /\ DOMAIN q.writes = DOMAIN p.writes \cup {n + 1}
      /\ \A i \in DOMAIN p.writes : i \in Nat /\ i < n + 1 /\ q.writes[i] = p.writes[i]
      /\ q.writes[n + 1] = w
  <2>1. IsSeq(p.writes) /\ DOMAIN p = PageFields
    BY <1>1 DEF PageShape
  <2>2. QED
    BY <2>1, QueuedIs
<1> HIDE DEF q, n
<1>3. w.by \notin {"run", "start", "recover", "sync"} /\ w.op # "save"
  BY DEF WriteShape
<1>4. PageShape(q)
  BY <1>1, <1>2 DEF PageShape
<1>5. Awaited(q)
  BY <1>1, <1>2, <1>3 DEF Awaited
<1>6. \A c : Saving(q, c) = Saving(p, c) /\ \A i \in Saving(p, c) :
        i \in DOMAIN p.writes /\ q.writes[i] = p.writes[i] /\ i < n + 1
  BY <1>2, <1>3 DEF Saving
<1>7. Known(q, d, k)
  BY <1>1, <1>2, <1>3 DEF Known
<1>8. Sticks(q, d, k)
  BY <1>1, <1>2, <1>6 DEF Sticks
<1>9. Ages(q, d, k)
  BY <1>1, <1>2, <1>6 DEF Ages
<1>10. \A c, v : Settles(p, d, c, v) => Settles(q, d, c, v)
  BY <1>2, <1>6 DEF Settles
<1>11. Fits(q, d, k)
  BY <1>1, <1>2, <1>6, <1>10 DEF Fits
<1>12. QED
  BY <1>4, <1>5, <1>7, <1>8, <1>9, <1>11 DEF Sound, q

(* The history: read, looked up, shown.  No save of it is queued.          *)
NoHistory(p) == \A i \in DOMAIN p.writes : p.writes[i].by \notin {"recover", "sync"}

LEMMA LoadChanged ==
  ASSUME NEW p, NEW d, NEW k, NEW pc \in {"fetch", "done"}, NEW items,
         Sound(p, d, k), NoHistory(p),
         DOMAIN items \subseteq k.ids, \A c \in DOMAIN items : Aged(items[c], k),
         pc # "done" => p.load[1].pc # "done",
         pc = "fetch" /\ ~k.lostWrite =>
           \A c \in DOMAIN items \ Excused(k) : Settles(p, d, c, items[c])
  PROVE  Sound(SetLoad(p, 1, pc, items), d, k)
<1> DEFINE q == SetLoad(p, 1, pc, items)
<1>1. PageShape(p) /\ Awaited(p) /\ Known(p, d, k) /\ Sticks(p, d, k) /\ Ages(p, d, k) /\ Fits(p, d, k)
  BY DEF Sound
<1>2. /\ DOMAIN q = PageFields /\ q.here = p.here /\ (q.due <=> p.due) /\ q.ref = p.ref
      /\ q.load = [p.load EXCEPT ![1] = [pc |-> pc, items |-> items]]
      /\ q.writes = p.writes /\ q.run = p.run
  <2>1. DOMAIN p = PageFields
    BY <1>1 DEF PageShape
  <2>2. QED
    BY <2>1, SetLoadIs
<1> HIDE DEF q
<1>3. /\ DOMAIN q.load = Mounts /\ q.load[1].pc = pc /\ q.load[1].items = items
      /\ \A m \in Mounts \ {1} : q.load[m] = p.load[m]
  BY <1>1, <1>2, MountOne DEF PageShape
<1>4. PageShape(q)
  BY <1>1, <1>2, <1>3 DEF PageShape
<1>5. Awaited(q)
  BY <1>1, <1>2 DEF Awaited, NoHistory
<1>6. \A c : Saving(q, c) = Saving(p, c)
  BY <1>2 DEF Saving
<1>7. Known(q, d, k)
  BY <1>1, <1>2, <1>3 DEF Known
<1>8. Sticks(q, d, k)
  BY <1>1, <1>2, <1>3, <1>6 DEF Sticks
<1>9. Ages(q, d, k)
  BY <1>1, <1>2, <1>3, <1>6 DEF Ages
<1>10. \A c, v : Settles(p, d, c, v) => Settles(q, d, c, v)
  BY <1>2, <1>6 DEF Settles
<1>11. Fits(q, d, k)
  BY <1>1, <1>2, <1>3, <1>6, <1>10 DEF Fits
<1>12. QED
  BY <1>4, <1>5, <1>7, <1>8, <1>9, <1>11 DEF Sound, q

LEMMA LoadedFine ==
  ASSUME NEW p, NEW d, NEW k, Fine(p, d, k), NoHistory(p), p.load[1].pc \in {"save", "fetch"},
         NEW items, items = p.load[1].items
  PROVE  Fine(Loaded(p, 1, items), d, k)
<1> DEFINE q == SetLoad(p, 1, "done", NoConvs)
           s == SetShown(q, 1, items)
<1>1. Sound(p, d, k) /\ Watched(p, {})
  BY DEF Fine
<1>2. PageShape(p) /\ Known(p, d, k) /\ Sticks(p, d, k) /\ Ages(p, d, k) /\ Fits(p, d, k)
  BY <1>1 DEF Sound
<1>3. DOMAIN NoConvs = {}
  BY DEF NoConvs
<1>4. Sound(q, d, k)
  <2> DEFINE pc == "done"
  <2>1. pc \in {"fetch", "done"} /\ pc # "fetch" /\ pc = "done"
    OBVIOUS
  <2>2. DOMAIN NoConvs \subseteq k.ids /\ \A c \in DOMAIN NoConvs : Aged(NoConvs[c], k)
    BY <1>3
  <2> HIDE DEF pc
  <2>3. Sound(SetLoad(p, 1, pc, NoConvs), d, k)
    BY <1>1, <2>1, <2>2, LoadChanged
  <2>4. QED
    BY <2>1, <2>3
<1>5. /\ DOMAIN q = PageFields /\ q.here = p.here /\ (q.due <=> p.due) /\ q.ref = p.ref
      /\ q.load = [p.load EXCEPT ![1] = [pc |-> "done", items |-> NoConvs]]
      /\ q.writes = p.writes /\ q.run = p.run
  <2> DEFINE pc == "done"
  <2>1. DOMAIN p = PageFields
    BY <1>2 DEF PageShape
  <2>2. q = SetLoad(p, 1, pc, NoConvs) /\ pc = "done"
    OBVIOUS
  <2> HIDE DEF q, pc
  <2>3. /\ DOMAIN SetLoad(p, 1, pc, NoConvs) = PageFields
        /\ SetLoad(p, 1, pc, NoConvs).here = p.here
        /\ SetLoad(p, 1, pc, NoConvs).due <=> p.due
        /\ SetLoad(p, 1, pc, NoConvs).ref = p.ref
        /\ SetLoad(p, 1, pc, NoConvs).load = [p.load EXCEPT ![1] = [pc |-> pc, items |-> NoConvs]]
        /\ SetLoad(p, 1, pc, NoConvs).writes = p.writes
        /\ SetLoad(p, 1, pc, NoConvs).run = p.run
    BY <2>1, SetLoadIs
  <2>4. QED
    BY <2>2, <2>3, Zenon
<1>6. Watched(q, {})
  BY <1>1, <1>5 DEF Watched
<1> HIDE DEF q
<1>7. \A c : Saving(q, c) = Saving(p, c)
  BY <1>5 DEF Saving
<1>8. p.load[1].pc # "done"
  OBVIOUS
<1>9. q.load[1].pc = "done"
  BY <1>2, <1>5, MountOne DEF PageShape
<1>10. ASSUME NEW c \in DOMAIN items
       PROVE  Welcome(q, k, c)
  <2>1. c \in k.ids
    BY <1>2 DEF Known
  <2>2. c \notin k.kept \ k.back
    BY <1>2, <1>8 DEF Sticks
  <2>3. \A i \in DOMAIN p.writes : p.writes[i].by = "delete" => p.writes[i].conv \in k.back
    BY <1>2, <1>8 DEF Sticks
  <2>4. QED
    BY <1>5, <1>9, <2>1, <2>2, <2>3 DEF Welcome
<1>11. ~k.lostWrite => \A c \in DOMAIN items \ Excused(k) : Settles(q, d, c, items[c])
  BY <1>2, <1>5, <1>7 DEF Fits, Settles
<1>12. Sound(s, d, k)
  BY <1>4, <1>10, <1>11, ShownSound
<1>13. Watched(s, {})
  <2>1. DOMAIN q = PageFields
    BY <1>5
  <2>2. /\ DOMAIN s = PageFields
        /\ s.here = q.here
        /\ s.due <=> (q.due \/ q.here = 1)
        /\ s.ref = [q.ref EXCEPT ![1] = items]
        /\ s.load = q.load
        /\ s.writes = q.writes
        /\ s.run = q.run
    <3> HIDE DEF q
    <3>1. DOMAIN q = PageFields
      BY <2>1
    <3>2. \A convs :
            /\ DOMAIN SetShown(q, 1, convs) = PageFields
            /\ SetShown(q, 1, convs).here = q.here
            /\ SetShown(q, 1, convs).due <=> (q.due \/ q.here = 1)
            /\ SetShown(q, 1, convs).ref = [q.ref EXCEPT ![1] = convs]
            /\ SetShown(q, 1, convs).load = q.load
            /\ SetShown(q, 1, convs).writes = q.writes
            /\ SetShown(q, 1, convs).run = q.run
      BY <3>1, SetShownIs
    <3>3. QED
      BY <3>2, Zenon
  <2> HIDE DEF s
  <2>3. QED
    BY <2>2, WatchedShown
<1>14. Loaded(p, 1, items) = IF p.here = 1 THEN s ELSE q
  BY DEF Loaded, q
<1>15. QED
  BY <1>4, <1>6, <1>12, <1>13, <1>14 DEF Fine

(* A history with changes is saved as a whole.                             *)
Newest(p, d, c, v) ==
  /\ c \in DOMAIN d => d[c].at <= v.at
  /\ \A i \in Saving(p, c) : p.writes[i].items[c].at <= v.at

LEMMA HistorySaved ==
  ASSUME NEW p, NEW d, NEW k, NEW items, NEW by \in {"recover", "sync"},
         Sound(p, d, k), NoHistory(p), p.load[1].pc \in {"list", "fetch"},
         DOMAIN items \subseteq k.ids, \A c \in DOMAIN items : Aged(items[c], k),
         ~k.lostWrite => \A c \in DOMAIN items \ Excused(k) : Newest(p, d, c, items[c])
  PROVE  Sound(Queue(SetLoad(p, 1, "save", items), Write("save", "all", items, by, 1)), d, k)
<1> DEFINE s == SetLoad(p, 1, "save", items)
           w == Write("save", "all", items, by, 1)
           q == Queue(s, w)
           n == Len(s.writes)
<1>1. PageShape(p) /\ Awaited(p) /\ Known(p, d, k) /\ Sticks(p, d, k) /\ Ages(p, d, k) /\ Fits(p, d, k)
  BY DEF Sound
<1>2. /\ DOMAIN s = PageFields /\ s.here = p.here /\ (s.due <=> p.due) /\ s.ref = p.ref
      /\ s.load = [p.load EXCEPT ![1] = [pc |-> "save", items |-> items]]
      /\ s.writes = p.writes /\ s.run = p.run
  <2>1. DOMAIN p = PageFields
    BY <1>1 DEF PageShape
  <2>2. QED
    BY <2>1, SetLoadIs
<1>3. w.op = "save" /\ w.conv = "all" /\ w.items = items /\ w.by = by /\ w.m = 1
  BY DEF Write
<1> HIDE DEF s, w
<1>4. /\ DOMAIN q = PageFields /\ q.here = s.here /\ (q.due <=> s.due) /\ q.ref = s.ref
      /\ q.load = s.load /\ q.run = s.run
      /\ IsSeq(q.writes)
      /\ n \in Nat /\ DOMAIN s.writes = 1 .. n
      /\ DOMAIN q.writes = DOMAIN s.writes \cup {n + 1}
      /\ \A i \in DOMAIN s.writes : i \in Nat /\ i < n + 1 /\ q.writes[i] = s.writes[i]
      /\ q.writes[n + 1] = w
  <2>1. IsSeq(s.writes) /\ DOMAIN s = PageFields
    BY <1>1, <1>2 DEF PageShape
  <2>2. QED
    BY <2>1, QueuedIs
<1> HIDE DEF q, n
<1>5. /\ DOMAIN q = PageFields /\ q.here = p.here /\ (q.due <=> p.due) /\ q.ref = p.ref /\ q.run = p.run
      /\ DOMAIN p.writes = 1 .. n
      /\ DOMAIN q.writes = DOMAIN p.writes \cup {n + 1}
      /\ n + 1 \notin DOMAIN p.writes
      /\ \A i \in DOMAIN p.writes : i \in Nat /\ i < n + 1 /\ q.writes[i] = p.writes[i]
  BY <1>2, <1>4
<1>6. /\ DOMAIN q.load = Mounts /\ q.load[1].pc = "save" /\ q.load[1].items = items
      /\ \A m \in Mounts \ {1} : q.load[m] = p.load[m]
  BY <1>1, <1>2, <1>4, MountOne DEF PageShape
<1>7. WriteShape(w)
  BY <1>3 DEF WriteShape
<1>8. PageShape(q)
  BY <1>1, <1>4, <1>5, <1>6, <1>7 DEF PageShape
<1>9. Awaited(q)
  BY <1>1, <1>3, <1>4, <1>5, <1>6 DEF Awaited, NoHistory
<1>10. \A c : Saving(q, c) = IF c \in DOMAIN items THEN Saving(p, c) \cup {n + 1} ELSE Saving(p, c)
  BY <1>3, <1>4, <1>5 DEF Saving
<1>11. \A c : \A i \in Saving(p, c) :
         i \in DOMAIN p.writes /\ q.writes[i] = p.writes[i] /\ i \in Nat /\ i < n + 1
  BY <1>5 DEF Saving
<1>12. q.writes[n + 1].items = items
  BY <1>3, <1>4
<1>13. Known(q, d, k)
  BY <1>1, <1>3, <1>4, <1>5, <1>6 DEF Known
<1>14. Sticks(q, d, k)
  <2>1. k.kept \ k.back = {} /\ \A i \in DOMAIN p.writes : p.writes[i].by = "delete" => p.writes[i].conv \in k.back
    BY <1>1 DEF Sticks
  <2>2. QED
    BY <1>3, <1>4, <1>5, <2>1 DEF Sticks
<1>15. Ages(q, d, k)
  <2>1. k.now \in Nat /\ (\A c \in DOMAIN d : Aged(d[c], k))
        /\ (\A c \in DOMAIN q.load[1].items : Aged(q.load[1].items[c], k))
        /\ \A c \in k.ids : \A i \in Saving(p, c) : Aged(p.writes[i].items[c], k)
    BY <1>1, <1>6 DEF Ages
  <2>2. \A c \in k.ids : \A i \in Saving(q, c) : Aged(q.writes[i].items[c], k)
    BY <1>10, <1>11, <1>12, <2>1
  <2>3. ASSUME ~k.lostWrite, NEW c \in k.ids \ Excused(k), NEW i \in Saving(q, c)
        PROVE  /\ c \in DOMAIN d => d[c].at <= q.writes[i].items[c].at
               /\ \A j \in Saving(q, c) : i <= j => q.writes[i].items[c].at <= q.writes[j].items[c].at
    <3>1. \A j \in Saving(p, c) :
            /\ c \in DOMAIN d => d[c].at <= p.writes[j].items[c].at
            /\ \A x \in Saving(p, c) : j <= x => p.writes[j].items[c].at <= p.writes[x].items[c].at
      BY <1>1, <2>3 DEF Ages
    <3>2. c \in DOMAIN items => Newest(p, d, c, items[c]) /\ items[c].at \in Nat
      BY <2>3 DEF Aged
    <3>3. CASE c \notin DOMAIN items
      BY <1>10, <1>11, <2>3, <3>1, <3>3
    <3>4. CASE c \in DOMAIN items /\ i = n + 1
      <4>1. \A j \in Saving(q, c) : i <= j => j = n + 1
        BY <1>4, <1>10, <1>11, <3>4
      <4>2. QED
        BY <1>12, <3>2, <3>4, <4>1 DEF Newest
    <3>5. CASE c \in DOMAIN items /\ i # n + 1
      <4>1. i \in Saving(p, c)
        BY <1>10, <2>3, <3>5
      <4>2. q.writes[i].items[c].at <= q.writes[n + 1].items[c].at
        BY <1>11, <1>12, <3>2, <3>5, <4>1 DEF Newest
      <4>3. QED
        BY <1>10, <1>11, <3>1, <4>1, <4>2
    <3>6. QED
      BY <3>3, <3>4, <3>5
  <2>4. QED
    BY <2>1, <2>2, <2>3 DEF Ages
<1>16. Fits(q, d, k)
  <2> SUFFICES ASSUME ~k.lostWrite
               PROVE  /\ \A c \in DOMAIN q.ref[1] \ Excused(k) : Settles(q, d, c, q.ref[1][c])
                      /\ q.load[1].pc \in {"save", "fetch"} =>
                           \A c \in DOMAIN q.load[1].items \ Excused(k) :
                              Settles(q, d, c, q.load[1].items[c])
                      /\ q.load[1].pc = "list" => \A c \in k.ids \ Excused(k) : Saving(q, c) = {}
                      /\ q.load[1].pc # "done" => DOMAIN q.ref[1] \subseteq k.loose
                      /\ \A i \in DOMAIN q.writes :
                           q.writes[i].by = "early" => q.writes[i].conv \in k.loose
                      /\ k.back = {}
    BY DEF Fits
  <2>1. /\ DOMAIN p.ref[1] \subseteq k.loose /\ k.back = {}
        /\ \A i \in DOMAIN p.writes : p.writes[i].by = "early" => p.writes[i].conv \in k.loose
    BY <1>1 DEF Fits
  <2>2. \A c \in DOMAIN q.ref[1] \ Excused(k) : Settles(q, d, c, q.ref[1][c])
    BY <1>5, <2>1 DEF Excused
  <2>3. ASSUME NEW c \in DOMAIN items
        PROVE  Settles(q, d, c, items[c])
    <3>1. Saving(q, c) = Saving(p, c) \cup {n + 1}
      BY <1>10, <2>3
    <3>2. \A j \in Saving(q, c) : j <= n + 1
      BY <1>4, <1>11, <3>1
    <3>3. QED
      BY <1>12, <3>1, <3>2 DEF Settles
  <2>4. \A i \in DOMAIN q.writes : q.writes[i].by = "early" => q.writes[i].conv \in k.loose
    BY <1>3, <1>4, <1>5, <2>1
  <2>5. QED
    BY <1>5, <1>6, <2>1, <2>2, <2>3, <2>4
<1>17. QED
  BY <1>8, <1>9, <1>13, <1>14, <1>15, <1>16 DEF Sound, q, s, w

LEMMA WatchedSame ==
  ASSUME NEW p, NEW q, NEW cs, Watched(p, cs),
         q.here = p.here, q.due <=> p.due, q.ref = p.ref, q.run = p.run
  PROVE  Watched(q, cs)
BY DEF Watched

LEMMA PersistFine ==
  ASSUME NEW p, NEW d, NEW k, NEW c, NEW cv, NEW by \in {"start", "none"},
         Sound(p, d, k), Welcome(p, k, c), cv.at = k.now
  PROVE  Fine(Persist(p, 1, c, cv, by), d, k)
<1> DEFINE q == Persist(p, 1, c, cv, by)
           order == <<c>>
           marked == JustOne(c, cv)
           new == {c}
           run == p.run
<1>1. PageShape(p) /\ Awaited(p)
  BY DEF Sound
<1>2. DOMAIN p = PageFields
  BY <1>1 DEF PageShape
<1>3. Extends(q, p, order, marked, by, run) /\ (q.due <=> (p.due \/ p.here = 1))
  BY <1>2, PersistIs
<1>4. Ordering(order, new) /\ DOMAIN marked = new /\ marked[c] = cv
  BY OneSave
<1>5. Running(run)
  BY <1>1 DEF Running, PageShape
<1>6. \A i \in DOMAIN p.writes : p.writes[i].by = "run" => AwaitsRun(run[p.writes[i].conv])
  BY <1>1 DEF Awaited, AwaitsRun
<1>7. \A x \in new : marked[x].at = k.now /\ Welcome(p, k, x)
  BY <1>4
<1>8. by # "run" /\ by \in {"run", "start", "none"}
  OBVIOUS
<1> HIDE DEF q, order, marked, new, run
<1>9. Sound(q, d, k)
  <2>1. /\ \A i \in DOMAIN p.writes : p.writes[i].by = "run" =>
             AwaitsRun(run[p.writes[i].conv]) /\ (by = "run" => p.writes[i].conv \notin new)
        /\ by = "run" => \A x \in new : AwaitsRun(run[x])
    BY <1>6, <1>8
  <2>2. Extends(q, p, order, marked, by, run)
    BY <1>3
  <2>3. Ordering(order, new) /\ DOMAIN marked = new
    BY <1>4
  <2>4. QED
    BY <1>5, <1>7, <1>8, <2>1, <2>2, <2>3, Persisted
<1>10. Watched(q, {})
  <2>1. q.here = p.here /\ (q.due <=> (p.due \/ p.here = 1))
    BY <1>3 DEF Extends
  <2>2. QED
    BY <2>1, WatchedShown
<1>11. QED
  BY <1>9, <1>10 DEF Fine, q

LEMMA ShownFine ==
  ASSUME NEW p, NEW d, NEW k, NEW convs, Sound(p, d, k),
         \A c \in DOMAIN convs : Welcome(p, k, c),
         ~k.lostWrite => \A c \in DOMAIN convs \ Excused(k) : Settles(p, d, c, convs[c])
  PROVE  Fine(SetShown(p, 1, convs), d, k)
<1> DEFINE q == SetShown(p, 1, convs)
<1>1. Sound(q, d, k)
  BY ShownSound
<1>2. DOMAIN p = PageFields
  BY DEF Sound, PageShape
<1>3. /\ DOMAIN q = PageFields
      /\ q.here = p.here
      /\ q.due <=> (p.due \/ p.here = 1)
      /\ q.ref = [p.ref EXCEPT ![1] = convs]
      /\ q.load = p.load
      /\ q.writes = p.writes
      /\ q.run = p.run
  BY <1>2, SetShownIs
<1> HIDE DEF q
<1>4. Watched(q, {})
  BY <1>3, WatchedShown
<1>5. QED
  BY <1>1, <1>4 DEF Fine, q

LEMMA QueuedFine ==
  ASSUME NEW p, NEW d, NEW k, NEW w, Fine(p, d, k), WriteShape(w),
         w.op \in {"rename", "delete", "clear"},
         w.op = "delete" => w.conv \in k.ids,
         w.op = "rename" => w.conv \in k.loose,
         w.by = "delete" /\ w.conv \notin k.back =>
           p.load[1].pc = "done" /\ w.conv \notin DOMAIN p.ref[1],
         w.by = "early" /\ ~k.lostWrite => w.conv \in k.loose
  PROVE  Fine(Queue(p, w), d, k)
<1> DEFINE q == Queue(p, w)
<1>1. Sound(p, d, k) /\ Watched(p, {})
  BY DEF Fine
<1>2. Sound(q, d, k)
  BY <1>1, QueuedSound
<1>3. IsSeq(p.writes) /\ DOMAIN p = PageFields
  BY <1>1 DEF Sound, PageShape
<1>4. q.here = p.here /\ (q.due <=> p.due) /\ q.ref = p.ref /\ q.run = p.run
  <2> DEFINE n == Len(p.writes)
  <2>1. /\ DOMAIN q = PageFields /\ q.here = p.here /\ (q.due <=> p.due) /\ q.ref = p.ref
        /\ q.load = p.load /\ q.run = p.run
        /\ IsSeq(q.writes)
        /\ n \in Nat /\ DOMAIN p.writes = 1 .. n
        /\ DOMAIN q.writes = DOMAIN p.writes \cup {n + 1}
        /\ \A i \in DOMAIN p.writes : i \in Nat /\ i < n + 1 /\ q.writes[i] = p.writes[i]
        /\ q.writes[n + 1] = w
    BY <1>3, QueuedIs
  <2>2. QED
    BY <2>1
<1> HIDE DEF q
<1>5. Watched(q, {})
  BY <1>1, <1>4, WatchedSame
<1>6. QED
  BY <1>2, <1>5 DEF Fine, q

LEMMA LoadFine ==
  ASSUME NEW p, NEW d, NEW k, NEW pc \in {"fetch", "done"}, NEW items,
         Fine(p, d, k), NoHistory(p),
         DOMAIN items \subseteq k.ids, \A c \in DOMAIN items : Aged(items[c], k),
         pc # "done" => p.load[1].pc # "done",
         pc = "fetch" /\ ~k.lostWrite =>
           \A c \in DOMAIN items \ Excused(k) : Settles(p, d, c, items[c])
  PROVE  Fine(SetLoad(p, 1, pc, items), d, k)
<1> DEFINE q == SetLoad(p, 1, pc, items)
<1>1. Sound(p, d, k) /\ Watched(p, {})
  BY DEF Fine
<1>2. Sound(q, d, k)
  BY <1>1, LoadChanged
<1>3. DOMAIN p = PageFields
  BY <1>1 DEF Sound, PageShape
<1>4. /\ DOMAIN q = PageFields
      /\ q.here = p.here
      /\ q.due <=> p.due
      /\ q.ref = p.ref
      /\ q.load = [p.load EXCEPT ![1] = [pc |-> pc, items |-> items]]
      /\ q.writes = p.writes
      /\ q.run = p.run
  BY <1>3, SetLoadIs
<1> HIDE DEF q
<1>5. Watched(q, {})
  BY <1>1, <1>4, WatchedSame
<1>6. QED
  BY <1>2, <1>5 DEF Fine, q

(* What follows a write.                                                   *)
Answers(p, d, k, w) ==
  /\ Fine(p, d, k) /\ WriteShape(w) /\ k.now = past.now
  /\ w.by = "run" =>
       Runner(p.run[w.conv]) /\ p.run[w.conv].pc \in Waits /\ Free(p, w.conv)
  /\ w.by \in {"recover", "sync"} => p.load[1].pc = "save" /\ NoHistory(p)

LEMMA AfterWriteFine ==
  ASSUME NEW p, NEW d, NEW k, NEW w, Answers(p, d, k, w)
  PROVE  Fine(AfterWrite(p, w), d, k)
<1>1. Sound(p, d, k) /\ Watched(p, {}) /\ Fine(p, d, k) /\ WriteShape(w) /\ w.m = 1
  BY DEF Answers, Fine, WriteShape
<1>2. CASE w.by = "run"
  <2>1. AfterWrite(p, w) = Resumed(p, w.conv)
    BY <1>2 DEF AfterWrite
  <2>2. GoesOn(p, d, k, w.conv) /\ p.run[w.conv].pc \in Waits
    BY <1>1, <1>2 DEF Answers, GoesOn, WriteShape
  <2>3. QED
    BY <2>1, <2>2, ResumedFine
<1>3. CASE w.by = "start"
  <2>1. AfterWrite(p, w) = StartedAll(p, 1, {w.conv})
    BY <1>1, <1>3 DEF AfterWrite, Started
  <2>2. Watched(p, {w.conv}) /\ k.now = past.now
    BY <1>1 DEF Watched, Answers
  <2> DEFINE cs == {w.conv}
  <2> HIDE DEF cs
  <2>3. Watched(p, cs)
    BY <2>2 DEF cs
  <2>4. Fine(StartedAll(p, 1, cs), d, k)
    BY <1>1, <2>2, <2>3, StartedSound DEF Fine
  <2>5. QED
    BY <2>1, <2>4 DEF cs
<1>4. CASE w.by = "recover"
  <2> DEFINE items == p.load[1].items
             pc == "fetch"
  <2>1. AfterWrite(p, w) = SetLoad(p, 1, pc, items)
    BY <1>1, <1>4 DEF AfterWrite
  <2>2. pc \in {"fetch", "done"} /\ pc = "fetch"
    OBVIOUS
  <2>3. NoHistory(p) /\ p.load[1].pc = "save"
    BY <1>4 DEF Answers
  <2>4. DOMAIN items \subseteq k.ids /\ \A c \in DOMAIN items : Aged(items[c], k)
    BY <1>1 DEF Sound, Known, Ages
  <2>5. ~k.lostWrite => \A c \in DOMAIN items \ Excused(k) : Settles(p, d, c, items[c])
    BY <1>1, <2>3 DEF Sound, Fits
  <2> HIDE DEF items, pc
  <2>6. QED
    BY <1>1, <2>1, <2>2, <2>3, <2>4, <2>5, LoadFine
<1>5. CASE w.by = "sync"
  <2>1. AfterWrite(p, w) = Loaded(p, 1, p.load[1].items)
    BY <1>1, <1>5 DEF AfterWrite
  <2>2. NoHistory(p) /\ p.load[1].pc \in {"save", "fetch"}
    BY <1>5 DEF Answers
  <2>3. QED
    BY <1>1, <2>1, <2>2, LoadedFine
<1>6. CASE w.by = "clear"
  <2>1. AfterWrite(p, w) = SetShown(p, 1, NoConvs)
    BY <1>1, <1>6 DEF AfterWrite
  <2>2. DOMAIN NoConvs = {}
    BY DEF NoConvs
  <2>3. QED
    BY <1>1, <2>1, <2>2, ShownFine
<1>7. CASE w.by \notin {"run", "start", "recover", "sync", "clear"}
  <2>1. AfterWrite(p, w) = p
    BY <1>7 DEF AfterWrite
  <2>2. QED
    BY <1>1, <2>1
<1>8. QED
  BY <1>2, <1>3, <1>4, <1>5, <1>6, <1>7

LEMMA AfterFailedWriteFine ==
  ASSUME NEW p, NEW d, NEW k, NEW w, Answers(p, d, k, w)
  PROVE  Fine(AfterFailedWrite(p, w), d, k)
<1>1. Fine(p, d, k) /\ WriteShape(w) /\ w.m = 1
  BY DEF Answers, WriteShape
<1>2. CASE w.by = "run"
  <2>1. AfterFailedWrite(p, w) = IF p.run[w.conv].pc = "caught" THEN Finished(p, w.conv)
                                                                ELSE Caught(p, w.conv)
    BY <1>2 DEF AfterFailedWrite
  <2>2. GoesOn(p, d, k, w.conv)
    BY <1>1, <1>2 DEF Answers, GoesOn, WriteShape
  <2>3. Fine(Finished(p, w.conv), d, k) /\ Fine(Caught(p, w.conv), d, k)
    BY <2>2, FinishedFine, CaughtFine
  <2>4. QED
    BY <2>1, <2>3
<1>3. CASE w.by \in {"recover", "sync"}
  <2> DEFINE pc == "done"
  <2>1. AfterFailedWrite(p, w) = SetLoad(p, 1, pc, NoConvs)
    BY <1>1, <1>3 DEF AfterFailedWrite
  <2>2. pc \in {"fetch", "done"} /\ pc = "done"
    OBVIOUS
  <2>3. NoHistory(p)
    BY <1>3 DEF Answers
  <2>4. DOMAIN NoConvs \subseteq k.ids /\ \A c \in DOMAIN NoConvs : Aged(NoConvs[c], k)
    BY DEF NoConvs
  <2> HIDE DEF pc
  <2>5. QED
    BY <1>1, <2>1, <2>2, <2>3, <2>4, LoadFine
<1>4. CASE w.by \notin {"run", "recover", "sync"}
  <2>1. AfterFailedWrite(p, w) = p
    BY <1>4 DEF AfterFailedWrite
  <2>2. QED
    BY <1>1, <2>1
<1>5. QED
  BY <1>2, <1>3, <1>4

-----------------------------------------------------------------------------
(* The lists of a refused deletion, on their way.                          *)
Relists(cs, k) ==
  \A i \in DOMAIN cs : cs[i].op = "relist" =>
    /\ DOMAIN cs[i] = {"op", "arg", "at", "data"}
    /\ k.lostWrite /\ cs[i].arg = 1
    /\ cs[i].at # "sent" => DOMAIN cs[i].data \subseteq k.ids

Framed ==
  /\ page = "image"
  /\ DOMAIN ui = {"here", "last", "due", "ref", "load"}
  /\ DOMAIN mem = {"run", "writes"}
  /\ DOMAIN past = PastFields
  /\ ui.last = 1 => IsSeq(calls)
  /\ ui.last \in Nat \ {0}

ImageInv ==
  /\ Framed
  /\ ui.last = 1 => Fine(Tab, disk, past) /\ Relists(calls, past)

LEMMA MoreCalls ==
  ASSUME NEW cs, IsSeq(cs), NEW k, NEW e
  PROVE  /\ IsSeq(Append(cs, e))
         /\ Relists(cs, k) /\ (e.op = "relist" => /\ k.lostWrite /\ e.arg = 1 /\ e.at = "sent"
                                                 /\ DOMAIN e = {"op", "arg", "at", "data"})
              => Relists(Append(cs, e), k)
<1> DEFINE S == {cs[i] : i \in DOMAIN cs}
           T == S \cup {e}
           t == Append(cs, e)
<1>1. cs \in Seq(S) /\ S \subseteq T /\ e \in T
  BY DEF IsSeq
<1> HIDE DEF S, T, t
<1>2. cs \in Seq(T)
  BY <1>1, Widened
<1>3. /\ Append(cs, e) \in Seq(T)
      /\ DOMAIN Append(cs, e) = 1 .. Len(cs) + 1
      /\ DOMAIN cs = 1 .. Len(cs) /\ Len(cs) \in Nat
      /\ \A j \in DOMAIN cs : Append(cs, e)[j] = cs[j]
      /\ Append(cs, e)[Len(cs) + 1] = e
  BY <1>1, <1>2, AppendedSeq
<1>4. IsSeq(t)
  BY <1>3, IsSeqOf DEF t
<1>5. \A j \in DOMAIN t : (j \in DOMAIN cs /\ t[j] = cs[j]) \/ t[j] = e
  BY <1>3 DEF t
<1>6. Relists(cs, k) /\ (e.op = "relist" => /\ k.lostWrite /\ e.arg = 1 /\ e.at = "sent"
                                                 /\ DOMAIN e = {"op", "arg", "at", "data"})
        => Relists(t, k)
  BY <1>5 DEF Relists
<1>7. QED
  BY <1>4, <1>6 DEF t

LEMMA FewerCalls ==
  ASSUME NEW cs, IsSeq(cs), NEW k, NEW i \in DOMAIN cs
  PROVE  /\ IsSeq(RemoveAt(cs, i))
         /\ Relists(cs, k) => Relists(RemoveAt(cs, i), k)
<1> DEFINE S == {cs[j] : j \in DOMAIN cs}
           t == RemoveAt(cs, i)
<1>1. cs \in Seq(S)
  BY DEF IsSeq
<1> HIDE DEF S, t
<1>2. /\ RemoveAt(cs, i) \in Seq(S)
      /\ DOMAIN RemoveAt(cs, i) = 1 .. Len(cs) - 1
      /\ \A j \in DOMAIN RemoveAt(cs, i) :
           /\ j \in DOMAIN cs /\ j + 1 \in DOMAIN cs
           /\ RemoveAt(cs, i)[j] = IF j < i THEN cs[j] ELSE cs[j + 1]
  BY <1>1, RemovedSeq
<1>3. IsSeq(t)
  BY <1>2, IsSeqOf DEF t
<1>4. \A j \in DOMAIN t : \E x \in DOMAIN cs : t[j] = cs[x]
  BY <1>2 DEF t
<1>5. Relists(cs, k) => Relists(t, k)
  BY <1>4 DEF Relists
<1>6. QED
  BY <1>3, <1>5 DEF t

LEMMA CallAnswered ==
  ASSUME NEW i \in Pending("relist"), IsSeq(calls), NEW k, Relists(calls, k), NEW data,
         DOMAIN data \subseteq k.ids
  PROVE  IsSeq(Answered(i, data)) /\ Relists(Answered(i, data), k)
<1> DEFINE S == {calls[j] : j \in DOMAIN calls}
           e == [calls[i] EXCEPT !.at = "ok", !.data = data]
           T == S \cup {e}
           t == Answered(i, data)
<1>1. calls \in Seq(S) /\ S \subseteq T /\ e \in T /\ i \in DOMAIN calls /\ calls[i].op = "relist"
  BY DEF IsSeq, Pending
<1>2. DOMAIN calls[i] = {"op", "arg", "at", "data"} /\ calls[i].arg = 1 /\ k.lostWrite
  BY <1>1 DEF Relists
<1>3. DOMAIN e = {"op", "arg", "at", "data"} /\ e.op = "relist" /\ e.arg = 1 /\ e.data = data
  BY <1>1, <1>2
<1>4. t = [calls EXCEPT ![i] = e]
  BY DEF Answered
<1> HIDE DEF S, T, t, e
<1>6. calls \in Seq(T)
  BY <1>1, Widened
<1>7. t \in Seq(T)
  BY <1>1, <1>4, <1>6, ChangedSeq
<1>8. IsSeq(t)
  BY <1>7, IsSeqOf
<1>9. \A j \in DOMAIN t : j \in DOMAIN calls /\ t[j] = IF j = i THEN e ELSE calls[j]
  BY <1>1, <1>4
<1>10. Relists(t, k)
  BY <1>2, <1>3, <1>9 DEF Relists
<1>11. QED
  BY <1>8, <1>10 DEF t

-----------------------------------------------------------------------------
(* The steps.  Only those of the first mount need an argument.             *)

LEMMA TabFine ==
  ASSUME NEW p, NEW d, NEW k, Fine(p, d, k),
         ui'.here = p.here, ui'.due <=> p.due, ui'.ref = p.ref, ui'.load = p.load,
         mem'.run = p.run, mem'.writes = p.writes
  PROVE  Fine(Tab', d, k)
<1> DEFINE q == Tab'
<1>1. /\ DOMAIN q = PageFields /\ q.here = p.here /\ (q.due <=> p.due)
      /\ q.ref = p.ref /\ q.load = p.load /\ q.run = p.run /\ q.writes = p.writes
  BY DEF Tab, PageFields
<1> HIDE DEF q
<1>2. Sound(p, d, k) /\ Watched(p, {}) /\ p.here \in {0, 1}
  BY DEF Fine, Sound, PageShape
<1>3. Alike(q, p)
  BY <1>1, <1>2 DEF Alike
<1>4. Sound(q, d, k)
  BY <1>2, <1>3, AlikeSound
<1>5. Watched(q, {})
  BY <1>1, <1>2, WatchedSame
<1>6. QED
  BY <1>4, <1>5 DEF Fine, q

LEMMA BecomesFine ==
  ASSUME NEW p, NEW d, NEW k, Become(p), Fine(p, d, k)
  PROVE  Fine(Tab', d, k)
<1>1. /\ ui'.here = p.here /\ (ui'.due <=> p.due) /\ ui'.ref = p.ref /\ ui'.load = p.load
      /\ mem'.run = p.run /\ mem'.writes = p.writes
  BY DEF Become
<1>2. QED
  BY <1>1, TabFine

LEMMA BecomesFramed ==
  ASSUME NEW p, Become(p)
  PROVE  /\ DOMAIN ui' = {"here", "last", "due", "ref", "load"}
         /\ DOMAIN mem' = {"run", "writes"}
         /\ ui'.last = ui.last
BY DEF Become

(* A step that composes the page.                                          *)
LEMMA Composed ==
  ASSUME ImageInv, NEW p, Become(p), page' = page, DOMAIN past' = PastFields, ui.last = 1 => IsSeq(calls'),
         ui.last = 1 => Fine(p, disk', past') /\ Relists(calls', past')
  PROVE  ImageInv'
<1>1. /\ DOMAIN ui' = {"here", "last", "due", "ref", "load"}
      /\ DOMAIN mem' = {"run", "writes"}
      /\ ui'.last = ui.last
  BY BecomesFramed
<1>2. Framed'
  BY <1>1 DEF ImageInv, Framed
<1>3. ASSUME ui.last = 1
      PROVE  Fine(Tab', disk', past') /\ Relists(calls', past')
  <2>1. Fine(p, disk', past')
    BY <1>3
  <2> DEFINE d == disk'
             k == past'
  <2> HIDE DEF d, k
  <2>2. Fine(Tab', d, k)
    BY <2>1, BecomesFine DEF d, k
  <2>3. QED
    BY <1>3, <2>2 DEF d, k
<1>4. QED
  BY <1>1, <1>2, <1>3 DEF ImageInv

(* A step that leaves the page alone.                                      *)
LEMMA PageKept ==
  ASSUME ImageInv, UNCHANGED <<page, ui, mem>>, DOMAIN past' = PastFields, ui.last = 1 => IsSeq(calls'),
         ui.last = 1 => Sound(Tab, disk', past') /\ Relists(calls', past')
  PROVE  ImageInv'
<1>1. Framed'
  BY DEF ImageInv, Framed
<1>2. Tab' = Tab /\ ui'.last = ui.last
  BY DEF Tab
<1>3. ui.last = 1 => Watched(Tab, {})
  BY DEF ImageInv, Fine
<1>4. ui.last = 1 => Fine(Tab, disk', past')
  BY <1>3 DEF Fine
<1>5. ui'.last = 1 => Fine(Tab', disk', past') /\ Relists(calls', past')
  BY <1>2, <1>4
<1>6. QED
  BY <1>1, <1>5 DEF ImageInv

LEMMA RelistsGrow ==
  ASSUME NEW cs, NEW k, NEW k2, Relists(cs, k), k.ids \subseteq k2.ids,
         k.lostWrite => k2.lostWrite
  PROVE  Relists(cs, k2)
BY DEF Relists

(* A move more, nothing else.                                              *)
LEMMA Spending ==
  ASSUME ImageInv, past' = [past EXCEPT !.moves = past.moves + 1]
  PROVE  /\ DOMAIN past' = PastFields
         /\ past'.now = past.now /\ past'.ids = past.ids /\ past'.lostWrite = past.lostWrite
         /\ past'.kept = past.kept /\ past'.gone = past.gone /\ past'.back = past.back
         /\ past'.loose = past.loose
         /\ \A p, d : Fine(p, d, past) => Fine(p, d, past')
         /\ \A cs : Relists(cs, past) => Relists(cs, past')
<1>1. DOMAIN past = PastFields
  BY DEF ImageInv, Framed
<1>2. /\ DOMAIN past' = PastFields
      /\ past'.now = past.now /\ past'.ids = past.ids /\ past'.lostWrite = past.lostWrite
      /\ past'.kept = past.kept /\ past'.gone = past.gone /\ past'.back = past.back
      /\ past'.loose = past.loose
  BY <1>1 DEF PastFields
<1> DEFINE k == past
           k2 == past'
<1>3. /\ k2.now = k.now /\ k2.ids = k.ids /\ k2.lostWrite = k.lostWrite
      /\ k2.kept = k.kept /\ k2.gone = k.gone /\ k2.back = k.back
      /\ k2.loose = k.loose
  BY <1>2
<1> HIDE DEF k, k2
<1>4. ASSUME NEW p, NEW d, Fine(p, d, k)
      PROVE  Fine(p, d, k2)
  <2>1. Sound(p, d, k) /\ Watched(p, {})
    BY <1>4 DEF Fine
  <2>2. k.ids \subseteq Convs /\ k.now \in Nat /\ (~k.lostWrite => k.back = {})
    BY <2>1 DEF Sound, Known, Ages, Fits
  <2>3. k.now <= k.now
    BY <2>2
  <2>4. Grows(k, k2)
    BY <1>3, <2>2, <2>3 DEF Grows
  <2>5. QED
    BY <2>1, <2>4, PastGrows DEF Fine
<1>5. ASSUME NEW cs, Relists(cs, k)
      PROVE  Relists(cs, k2)
  BY <1>3, <1>5, RelistsGrow
<1>6. QED
  BY <1>2, <1>4, <1>5 DEF k, k2

(* A runner at a place where it awaits no write.                           *)
LEMMA RunnerFree ==
  ASSUME ImageInv, ui.last = 1, NEW c \in Convs,
         mem.run[c].pc # "none",
         mem.run[c].pc \in Waits => ~mem.run[c].wait
  PROVE  GoesOn(Tab, disk, past, c)
<1> DEFINE p == Tab
<1>1. p.run = mem.run
  BY DEF Tab
<1>2. Fine(p, disk, past)
  BY DEF ImageInv
<1> HIDE DEF p
<1>3. PageShape(p) /\ Awaited(p)
  BY <1>2 DEF Fine, Sound
<1>4. Runner(p.run[c])
  BY <1>1, <1>3 DEF PageShape, NoRun
<1>5. Free(p, c)
  BY <1>1, <1>3 DEF Awaited, Free
<1>6. QED
  BY <1>2, <1>4, <1>5 DEF GoesOn, p

(* One answer more, or a poll answered, is heard by its runner.            *)
LEMMA RunnerHears ==
  ASSUME ImageInv, NEW c \in Convs, At(c, "create") \/ At(c, "sleep"), NEW r,
         DOMAIN r = DOMAIN mem.run[c], r.m = mem.run[c].m,
         r.pc \in {"create", "polled"},
         mem' = [mem EXCEPT !.run = [mem.run EXCEPT ![c] = r]],
         UNCHANGED <<page, ui, calls, disk>>,
         past' = past \/ past' = [past EXCEPT !.moves = past.moves + 1]
  PROVE  ImageInv'
<1>1. DOMAIN mem = {"run", "writes"} /\ DOMAIN past = PastFields
  BY DEF ImageInv, Framed
<1>2. /\ DOMAIN mem' = {"run", "writes"} /\ mem'.writes = mem.writes
      /\ mem'.run = [mem.run EXCEPT ![c] = r]
  BY <1>1
<1>3. /\ DOMAIN past' = PastFields
      /\ \A p, d : Fine(p, d, past) => Fine(p, d, past')
      /\ \A cs : Relists(cs, past) => Relists(cs, past')
  BY <1>1, Spending
<1>4. Framed'
  BY <1>2, <1>3 DEF ImageInv, Framed
<1>5. ASSUME ui.last = 1
      PROVE  Fine(Tab', disk', past') /\ Relists(calls', past')
  <2>1. GoesOn(Tab, disk, past, c)
    BY <1>5, RunnerFree DEF At, Waits
  <2> DEFINE p == Tab
             q == SetRun(p, c, r)
  <2>2. /\ p.here = ui.here /\ p.due = ui.due /\ p.ref = ui.ref /\ p.load = ui.load
        /\ p.run = mem.run /\ p.writes = mem.writes /\ DOMAIN p = PageFields
    BY DEF Tab, PageFields
  <2>3. Runner(r)
    <3>1. Runner(p.run[c])
      BY <2>1 DEF GoesOn
    <3>2. QED
      BY <2>2, <3>1 DEF Runner
  <2> HIDE DEF p
  <2>4. Fine(q, disk, past)
    BY <2>1, <2>3, RunFine DEF p
  <2>5. Fine(q, disk, past')
    BY <1>3, <2>4
  <2>6. /\ DOMAIN q = PageFields
        /\ q.here = p.here /\ (q.due <=> p.due)
        /\ q.ref = p.ref /\ q.load = p.load
        /\ q.writes = p.writes
        /\ q.run = [p.run EXCEPT ![c] = r]
    <3>1. DOMAIN p = PageFields
      BY <2>2
    <3>2. \A x :
            /\ DOMAIN SetRun(p, c, x) = PageFields
            /\ SetRun(p, c, x).here = p.here /\ (SetRun(p, c, x).due <=> p.due)
            /\ SetRun(p, c, x).ref = p.ref /\ SetRun(p, c, x).load = p.load
            /\ SetRun(p, c, x).writes = p.writes
            /\ SetRun(p, c, x).run = [p.run EXCEPT ![c] = x]
      BY <3>1, SetRunIs
    <3>3. QED
      BY <3>2, Zenon
  <2> HIDE DEF q
  <2>7. /\ ui'.here = q.here /\ (ui'.due <=> q.due) /\ ui'.ref = q.ref /\ ui'.load = q.load
        /\ mem'.run = q.run /\ mem'.writes = q.writes
    BY <1>2, <2>2, <2>6
  <2>8. Fine(Tab', disk, past')
    <3> DEFINE k == past'
    <3>1. Fine(q, disk, k)
      BY <2>5
    <3> HIDE DEF k
    <3>2. Fine(Tab', disk, k)
      BY <2>7, <3>1, TabFine
    <3>3. QED
      BY <3>2 DEF k
  <2>9. Relists(calls, past)
    BY <1>5 DEF ImageInv
  <2>10. QED
    BY <1>3, <2>8, <2>9
<1>6. QED
  BY <1>4, <1>5 DEF ImageInv

LEMMA HeardIs ==
  ASSUME NEW c, NEW t, NEW status, Heard(c, t, status), At(c, "create")
  PROVE  \E r : /\ DOMAIN r = DOMAIN mem.run[c] /\ r.m = mem.run[c].m /\ r.pc = "create"
                /\ mem' = [mem EXCEPT !.run = [mem.run EXCEPT ![c] = r]]
<1> DEFINE r == [mem.run[c] EXCEPT !.ask = @ \ {t}, !.got = Laid(JustOne(t, status), @)]
<1>1. DOMAIN r = DOMAIN mem.run[c] /\ r.m = mem.run[c].m /\ r.pc = mem.run[c].pc
  OBVIOUS
<1>2. mem' = [mem EXCEPT !.run = [mem.run EXCEPT ![c] = r]]
  BY DEF Heard
<1> HIDE DEF r
<1>3. QED
  BY <1>1, <1>2 DEF At

LEMMA CreateServedStep ==
  ASSUME ImageInv, CreateServed
  PROVE  ImageInv'
<1>1. PICK c, t, status :
        c \in Convs /\ t \in Tasks /\ At(c, "create") /\ Heard(c, t, status)
  BY DEF CreateServed
<1>2. UNCHANGED <<page, ui, calls, disk>> /\ past' = past
  BY DEF CreateServed
<1>3. QED
  BY <1>1, <1>2, HeardIs, RunnerHears

LEMMA CreateFailsStep ==
  ASSUME ImageInv, CreateFails
  PROVE  ImageInv'
<1>1. PICK c \in Convs, t \in Tasks :
        At(c, "create") /\ Heard(c, t, "failed")
  BY DEF CreateFails
<1>2. UNCHANGED <<page, ui, calls, disk>> /\ past' = [past EXCEPT !.moves = past.moves + 1]
  BY DEF CreateFails
<1>3. QED
  BY <1>1, <1>2, HeardIs, RunnerHears

LEMMA PollServedStep ==
  ASSUME ImageInv, PollServed
  PROVE  ImageInv'
<1>1. PICK c \in Convs :
        /\ At(c, "sleep")
        /\ mem' = [mem EXCEPT !.run = [mem.run EXCEPT ![c] =
             [mem.run[c] EXCEPT !.pc = "polled", !.got = [t \in mem.run[c].ask |-> server[t]]]]]
  BY DEF PollServed
<1>2. UNCHANGED <<page, ui, calls, disk>> /\ past' = past
  BY DEF PollServed
<1>3. CASE ui.last = 1
  <2> DEFINE got == [t \in mem.run[c].ask |-> server[t]]
             r == [mem.run[c] EXCEPT !.pc = "polled", !.got = got]
  <2>1. mem' = [mem EXCEPT !.run = [mem.run EXCEPT ![c] = r]]
    BY <1>1
  <2> HIDE DEF got
  <2>2. Runner(mem.run[c])
    <3>1. GoesOn(Tab, disk, past, c)
      BY <1>1, <1>3, RunnerFree DEF At, Waits
    <3>2. QED
      BY <3>1 DEF GoesOn, Tab
  <2>3. DOMAIN mem.run[c] = RunFields
    BY <2>2 DEF Runner
  <2>4. DOMAIN r = DOMAIN mem.run[c] /\ r.m = mem.run[c].m /\ r.pc = "polled"
    BY <2>3 DEF RunFields
  <2> HIDE DEF r
  <2>5. QED
    BY <1>1, <1>2, <2>1, <2>4, RunnerHears
<1>4. CASE ui.last # 1
  <2>1. DOMAIN mem' = {"run", "writes"}
    BY <1>1 DEF ImageInv, Framed
  <2>2. QED
    BY <1>2, <1>4, <2>1 DEF ImageInv, Framed
<1>5. QED
  BY <1>3, <1>4

(* A step of a runner.                                                     *)
LEMMA RunnerStep ==
  ASSUME ImageInv, NEW p, Become(p), UNCHANGED <<page, calls, disk>>,
         past' = past \/ past' = [past EXCEPT !.moves = past.moves + 1],
         ui.last = 1 => Fine(p, disk, past)
  PROVE  ImageInv'
<1>1. DOMAIN past = PastFields /\ (ui.last = 1 => IsSeq(calls))
  BY DEF ImageInv, Framed
<1>2. /\ DOMAIN past' = PastFields
      /\ \A x, d : Fine(x, d, past) => Fine(x, d, past')
      /\ \A cs : Relists(cs, past) => Relists(cs, past')
  BY <1>1, Spending
<1>3. ui.last = 1 => Fine(p, disk', past') /\ Relists(calls', past')
  BY <1>2 DEF ImageInv
<1>4. QED
  BY <1>1, <1>2, <1>3, Composed

LEMMA CreatesAnsweredStep ==
  ASSUME ImageInv, CreatesAnswered
  PROVE  ImageInv'
<1>1. PICK c \in Convs :
       /\ At(c, "create")
       /\ Become(IF DOMAIN Made(mem.run[c]) # {}
                   THEN Heeded(Tab, c, Made(mem.run[c]), "submit")
                   ELSE Failing(Tab, c))
  BY DEF CreatesAnswered
<1>2. UNCHANGED <<page, calls, disk>> /\ past' = past
  BY DEF CreatesAnswered
<1> DEFINE p == IF DOMAIN Made(mem.run[c]) # {}
                  THEN Heeded(Tab, c, Made(mem.run[c]), "submit") ELSE Failing(Tab, c)
<1>3. ASSUME ui.last = 1
      PROVE  Fine(p, disk, past)
  <2>1. GoesOn(Tab, disk, past, c)
    BY <1>1, <1>3, RunnerFree DEF At, Waits
  <2>2. "submit" \in Waits
    BY DEF Waits
  <2>3. \A got : Fine(Heeded(Tab, c, got, "submit"), disk, past)
    BY <2>1, <2>2, HeededFine
  <2>4. Fine(Failing(Tab, c), disk, past)
    BY <2>1, FailingFine
  <2>5. QED
    BY <2>3, <2>4
<1> HIDE DEF p
<1>4. Become(p)
  BY <1>1 DEF p
<1>5. QED
  BY <1>2, <1>3, <1>4, RunnerStep

LEMMA PollFailsStep ==
  ASSUME ImageInv, PollFails
  PROVE  ImageInv'
<1>1. PICK c \in Convs : At(c, "sleep") /\ Become(Caught(Tab, c))
  BY DEF PollFails
<1>2. UNCHANGED <<page, calls, disk>> /\ past' = [past EXCEPT !.moves = past.moves + 1]
  BY DEF PollFails
<1>3. ASSUME ui.last = 1
      PROVE  Fine(Caught(Tab, c), disk, past)
  <2>1. GoesOn(Tab, disk, past, c)
    BY <1>1, <1>3, RunnerFree DEF At, Waits
  <2>2. QED
    BY <2>1, CaughtFine
<1>4. QED
  BY <1>1, <1>2, <1>3, RunnerStep

LEMMA PollAnsweredStep ==
  ASSUME ImageInv, PollAnswered
  PROVE  ImageInv'
<1>1. PICK c \in Convs :
       /\ At(c, "polled")
       /\ Become(IF DOMAIN Found(mem.run[c]) # {}
                   THEN Heeded(Tab, c, Found(mem.run[c]), "applied")
                   ELSE Resubmit(Tab, c))
  BY DEF PollAnswered
<1>2. UNCHANGED <<page, calls, disk>> /\ past' = past
  BY DEF PollAnswered
<1> DEFINE p == IF DOMAIN Found(mem.run[c]) # {}
                  THEN Heeded(Tab, c, Found(mem.run[c]), "applied") ELSE Resubmit(Tab, c)
<1>3. ASSUME ui.last = 1
      PROVE  Fine(p, disk, past)
  <2>1. GoesOn(Tab, disk, past, c)
    BY <1>1, <1>3, RunnerFree DEF At, Waits
  <2>2. "applied" \in Waits
    BY DEF Waits
  <2>3. \A got : Fine(Heeded(Tab, c, got, "applied"), disk, past)
    BY <2>1, <2>2, HeededFine
  <2>4. Fine(Resubmit(Tab, c), disk, past)
    BY <2>1, ResubmitFine
  <2>5. QED
    BY <2>3, <2>4
<1> HIDE DEF p
<1>4. Become(p)
  BY <1>1 DEF p
<1>5. QED
  BY <1>2, <1>3, <1>4, RunnerStep

LEMMA RunGoesOnStep ==
  ASSUME ImageInv, RunGoesOn
  PROVE  ImageInv'
<1>1. PICK c \in Convs :
       /\ mem.run[c].pc \in Waits
       /\ ~mem.run[c].wait
       /\ Become(Resumed(Tab, c))
  BY DEF RunGoesOn, Waits
<1>2. UNCHANGED <<page, calls, disk>> /\ past' = past
  BY DEF RunGoesOn
<1>3. ASSUME ui.last = 1
      PROVE  Fine(Resumed(Tab, c), disk, past)
  <2>1. GoesOn(Tab, disk, past, c)
    BY <1>1, <1>3, RunnerFree DEF Waits
  <2>2. Tab.run[c].pc \in Waits
    BY <1>1 DEF Tab
  <2>3. QED
    BY <2>1, <2>2, ResumedFine
<1>4. QED
  BY <1>1, <1>2, <1>3, RunnerStep

LEMMA RunEndsStep ==
  ASSUME ImageInv, RunEnds
  PROVE  ImageInv'
<1>1. PICK c \in Convs : At(c, "quota") /\ Become(Finished(Tab, c))
  BY DEF RunEnds
<1>2. UNCHANGED <<page, calls, disk>> /\ past' = past
  BY DEF RunEnds
<1>3. ASSUME ui.last = 1
      PROVE  Fine(Finished(Tab, c), disk, past)
  <2>1. GoesOn(Tab, disk, past, c)
    BY <1>1, <1>3, RunnerFree DEF At, Waits
  <2>2. QED
    BY <2>1, FinishedFine
<1>4. QED
  BY <1>1, <1>2, <1>3, RunnerStep

LEMMA AutoStartStep ==
  ASSUME ImageInv, AutoStart
  PROVE  ImageInv'
<1> DEFINE p == [Tab EXCEPT !.due = FALSE]
           shown == ShownIn(Tab, ui.here)
           ready(c) == \E i \in DOMAIN shown[c].turns :
                         NeedsRun(shown[c].turns[i]) /\ ~shown[c].turns[i].cut
           cs == {c \in DOMAIN shown : ready(c)}
           q == StartedAll(p, ui.here, cs)
<1>1. Become(q) /\ ui.here # 0
  BY DEF AutoStart
<1>2. UNCHANGED <<page, calls, disk>> /\ past' = past
  BY DEF AutoStart
<1>3. ASSUME ui.last = 1
      PROVE  Fine(q, disk, past)
  <2>1. /\ DOMAIN p = PageFields /\ p.here = ui.here /\ p.ref = ui.ref /\ p.load = ui.load
        /\ p.run = mem.run /\ p.writes = mem.writes
    BY DEF Tab, PageFields
  <2>2. Fine(Tab, disk, past)
    BY <1>3 DEF ImageInv
  <2>3. ui.here = 1
    BY <1>1, <2>2 DEF Fine, Sound, PageShape, Tab
  <2>4. Alike(p, Tab)
    BY <2>1, <2>3 DEF Alike, Tab
  <2>5. shown = p.ref[1]
    BY <2>1, <2>3 DEF ShownIn, Tab
  <2>6. \A c \in DOMAIN p.ref[1] \ cs : ~Ready(p.ref[1][c])
    BY <2>5 DEF Ready
  <2> HIDE DEF p, cs
  <2>7. Sound(p, disk, past)
    BY <2>2, <2>4, AlikeSound DEF Fine
  <2>8. Watched(p, cs)
    BY <2>6 DEF Watched
  <2>9. QED
    BY <2>3, <2>7, <2>8, StartedSound DEF Fine
<1> HIDE DEF q
<1>4. QED
  BY <1>1, <1>2, <1>3, RunnerStep

LEMMA ShortenedIs == Popped(Shortened, Tab)
BY DEF Popped, Shortened, Tab, PageFields

LEMMA WriteDoneStep ==
  ASSUME ImageInv, WriteDone
  PROVE  ImageInv'
<1> DEFINE w == Head(mem.writes)
           p == Tab
           q == Shortened
           e == disk'
           k == past
           k2 == past'
<1>1. /\ mem.writes # <<>>
      /\ e = Written(disk, w)
      /\ Become(AfterWrite(q, w))
      /\ calls' = IF w.op = "clear" THEN Sent("cancel", w.items) ELSE calls
      /\ past' = [past EXCEPT
           !.gone = IF w.op = "delete" THEN past.gone \cup {w.conv}
                    ELSE IF w.op = "clear" THEN past.gone \cup DOMAIN disk ELSE past.gone,
           !.kept = IF w.by = "delete" THEN past.kept \cup {w.conv} ELSE past.kept]
      /\ page' = page
  BY DEF WriteDone
<1>2. DOMAIN past = PastFields /\ (ui.last = 1 => IsSeq(calls))
  BY DEF ImageInv, Framed
<1>3. /\ DOMAIN k2 = PastFields
      /\ k2.ids = k.ids /\ k2.back = k.back /\ k2.loose = k.loose /\ k2.now = k.now
      /\ k2.lostWrite = k.lostWrite
      /\ k2.gone = IF w.op = "delete" THEN k.gone \cup {w.conv}
                   ELSE IF w.op = "clear" THEN k.gone \cup DOMAIN disk ELSE k.gone
      /\ k2.kept = IF w.by = "delete" THEN k.kept \cup {w.conv} ELSE k.kept
  BY <1>1, <1>2 DEF PastFields
<1>4. ui.last = 1 => IsSeq(calls') /\ (Relists(calls, k) => Relists(calls', k))
  <2> DEFINE r == Request("cancel", w.items)
  <2>1. r.op = "cancel" /\ calls' = IF w.op = "clear" THEN Append(calls, r) ELSE calls
    BY <1>1 DEF Sent, Request
  <2> HIDE DEF r
  <2>2. ui.last = 1 =>
          IsSeq(Append(calls, r)) /\ (Relists(calls, k) => Relists(Append(calls, r), k))
    BY <1>2, <2>1, MoreCalls
  <2>3. QED
    BY <1>2, <2>1, <2>2
<1>5. p.writes = mem.writes
  BY DEF Tab
<1>6. Popped(q, p)
  BY ShortenedIs
<1>7. k.now = past.now
  OBVIOUS
<1>8. Head(p.writes) = w
  BY <1>5
<1> HIDE DEF w, p, q, e, k, k2
<1>9. ASSUME ui.last = 1
      PROVE  Fine(AfterWrite(q, w), e, k2) /\ Relists(calls', k2)
  <2>1. Sound(p, disk, k) /\ Watched(p, {}) /\ Relists(calls, k)
    BY <1>9 DEF ImageInv, Fine, p, k
  <2>2. PageShape(p) /\ Awaited(p) /\ IsSeq(p.writes) /\ p.writes # <<>>
    BY <1>1, <1>5, <2>1 DEF Sound, PageShape
  <2>3. w = p.writes[1]
    BY <1>6, <1>8, <2>2, Shifted
  <2>4. Sound(q, e, k2)
    <3>1. k2.lostWrite <=> k.lostWrite
      BY <1>3
    <3>2. Recorded(k2, k, disk, w)
      BY <1>3, <3>1 DEF Recorded
    <3>3. Sound(q, Written(disk, w), k2)
      BY <1>6, <1>7, <2>1, <2>2, <2>3, <3>2, PoppedDone
    <3>4. QED
      BY <1>1, <3>3
  <2>5. /\ WriteShape(p.writes[1])
        /\ p.writes[1].by = "run" =>
             /\ Runner(q.run[p.writes[1].conv]) /\ q.run[p.writes[1].conv].pc \in Waits
             /\ Free(q, p.writes[1].conv)
        /\ p.writes[1].by \in {"recover", "sync"} =>
             /\ q.load[1].pc = "save"
             /\ \A i \in DOMAIN q.writes : q.writes[i].by \notin {"recover", "sync"}
    BY <1>6, <2>2, PoppedShape
  <2>6. Watched(q, {})
    BY <1>6, <2>1, WatchedSame DEF Popped
  <2>7. Answers(q, e, k2, w)
    BY <1>3, <1>7, <2>3, <2>4, <2>5, <2>6 DEF Answers, Fine, NoHistory
  <2>8. Relists(calls', k)
    BY <1>4, <1>9, <2>1
  <2>9. Relists(calls', k2)
    BY <1>3, <2>8, RelistsGrow
  <2>10. QED
    BY <2>7, <2>9, AfterWriteFine
<1>10. QED
  <2> DEFINE n == AfterWrite(q, w)
  <2>1. Become(n) /\ page' = page /\ DOMAIN past' = PastFields /\ (ui.last = 1 => IsSeq(calls'))
    BY <1>1, <1>3, <1>4 DEF k2
  <2>2. ui.last = 1 => Fine(n, disk', past') /\ Relists(calls', past')
    BY <1>9 DEF k2, e
  <2> HIDE DEF n
  <2>3. QED
    BY <2>1, <2>2, Composed

LEMMA WriteFailsStep ==
  ASSUME ImageInv, WriteFails
  PROVE  ImageInv'
<1> DEFINE w == Head(mem.writes)
           p == Tab
           q == Shortened
           k == past
           k2 == past'
<1>1. /\ mem.writes # <<>>
      /\ Become(AfterFailedWrite(q, w))
      /\ calls' = IF w.op = "delete" THEN Sent("relist", w.m) ELSE calls
      /\ past' = [past EXCEPT !.moves = @ + 1, !.lostWrite = TRUE]
      /\ page' = page /\ disk' = disk
  BY DEF WriteFails
<1>2. DOMAIN past = PastFields /\ (ui.last = 1 => IsSeq(calls))
  BY DEF ImageInv, Framed
<1>3. /\ DOMAIN k2 = PastFields
      /\ k2.ids = k.ids /\ k2.back = k.back /\ k2.loose = k.loose /\ k2.now = k.now
      /\ k2.gone = k.gone /\ k2.kept = k.kept /\ k2.lostWrite
  BY <1>1, <1>2 DEF PastFields
<1>4. p.writes = mem.writes
  BY DEF Tab
<1>5. Popped(q, p)
  BY ShortenedIs
<1>6. k.now = past.now
  OBVIOUS
<1>7. Head(p.writes) = w
  BY <1>4
<1> DEFINE r == Request("relist", w.m)
<1>8. /\ r.op = "relist" /\ r.arg = w.m /\ r.at = "sent" /\ DOMAIN r = {"op", "arg", "at", "data"}
      /\ calls' = IF w.op = "delete" THEN Append(calls, r) ELSE calls
  BY <1>1 DEF Sent, Request
<1> HIDE DEF w, p, q, k, k2, r
<1>9. ASSUME ui.last = 1
      PROVE  IsSeq(calls') /\ (w.m = 1 /\ Relists(calls, k2) => Relists(calls', k2))
  <2>1. IsSeq(Append(calls, r))
    BY <1>2, <1>9, MoreCalls
  <2>2. w.m = 1 /\ Relists(calls, k2) => Relists(Append(calls, r), k2)
    BY <1>2, <1>3, <1>8, <1>9, MoreCalls
  <2>3. QED
    BY <1>2, <1>8, <1>9, <2>1, <2>2
<1>10. ASSUME ui.last = 1
       PROVE  Fine(AfterFailedWrite(q, w), disk, k2) /\ Relists(calls', k2)
  <2>1. Sound(p, disk, k) /\ Watched(p, {}) /\ Relists(calls, k)
    BY <1>10 DEF ImageInv, Fine, p, k
  <2>2. PageShape(p) /\ Awaited(p) /\ IsSeq(p.writes) /\ p.writes # <<>>
    BY <1>1, <1>4, <2>1 DEF Sound, PageShape
  <2>3. w = p.writes[1]
    BY <1>5, <1>7, <2>2, Shifted
  <2>4. Sound(q, disk, k2)
    BY <1>3, <1>5, <2>1, <2>2, PoppedFailed
  <2>5. /\ WriteShape(p.writes[1])
        /\ p.writes[1].by = "run" =>
             /\ Runner(q.run[p.writes[1].conv]) /\ q.run[p.writes[1].conv].pc \in Waits
             /\ Free(q, p.writes[1].conv)
        /\ p.writes[1].by \in {"recover", "sync"} =>
             /\ q.load[1].pc = "save"
             /\ \A i \in DOMAIN q.writes : q.writes[i].by \notin {"recover", "sync"}
    BY <1>5, <2>2, PoppedShape
  <2>6. Watched(q, {})
    BY <1>5, <2>1, WatchedSame DEF Popped
  <2>7. Answers(q, disk, k2, w)
    BY <1>3, <1>6, <2>3, <2>4, <2>5, <2>6 DEF Answers, Fine, NoHistory
  <2>8. Relists(calls, k2)
    BY <1>3, <2>1, RelistsGrow
  <2>9. w.m = 1
    BY <2>3, <2>5 DEF WriteShape
  <2>10. QED
    BY <1>9, <1>10, <2>7, <2>8, <2>9, AfterFailedWriteFine
<1>11. QED
  <2> DEFINE n == AfterFailedWrite(q, w)
  <2>1. Become(n) /\ page' = page /\ DOMAIN past' = PastFields /\ (ui.last = 1 => IsSeq(calls'))
    BY <1>1, <1>3, <1>9 DEF k2
  <2>2. ui.last = 1 => Fine(n, disk', past') /\ Relists(calls', past')
    BY <1>1, <1>10 DEF k2
  <2> HIDE DEF n
  <2>3. QED
    BY <2>1, <2>2, Composed

LEMMA RelistReadStep ==
  ASSUME ImageInv, RelistRead
  PROVE  ImageInv'
<1>1. PICK i \in Pending("relist") : calls' = Answered(i, disk)
  BY DEF RelistRead, Waiting
<1>2. UNCHANGED <<page, ui, mem, disk, past>>
  BY DEF RelistRead
<1>3. DOMAIN past = PastFields /\ (ui.last = 1 => IsSeq(calls)) /\ i \in DOMAIN calls
  BY <1>1 DEF ImageInv, Framed, Pending
<1>4. ASSUME ui.last = 1
      PROVE  IsSeq(calls')
  <2> DEFINE S == {calls[j] : j \in DOMAIN calls}
             e == [calls[i] EXCEPT !.at = "ok", !.data = disk]
             T == S \cup {e}
  <2>1. calls \in Seq(S) /\ S \subseteq T /\ e \in T /\ calls' = [calls EXCEPT ![i] = e]
    BY <1>1, <1>3, <1>4 DEF IsSeq, Answered
  <2> HIDE DEF S, T, e
  <2>2. calls \in Seq(T)
    BY <2>1, Widened
  <2>3. QED
    BY <1>3, <2>1, <2>2, ChangedSeq, IsSeqOf
<1>5. ASSUME ui.last = 1
      PROVE  Sound(Tab, disk', past') /\ Relists(calls', past')
  <2>1. Sound(Tab, disk, past) /\ Relists(calls, past)
    BY <1>5 DEF ImageInv, Fine
  <2>2. DOMAIN disk \subseteq past.ids
    BY <2>1 DEF Sound, Known
  <2>3. Relists(calls', past)
    BY <1>1, <1>3, <1>5, <2>1, <2>2, CallAnswered
  <2>4. QED
    BY <1>2, <2>1, <2>3
<1>6. QED
  BY <1>2, <1>3, <1>4, <1>5, PageKept

LEMMA RelistedStep ==
  ASSUME ImageInv, Relisted
  PROVE  ImageInv'
<1>1. PICK i \in Arrived("relist") :
        /\ Become(SetShown(Tab, calls[i].arg, calls[i].data))
        /\ past' = [past EXCEPT
             !.back = past.back \cup (DOMAIN calls[i].data \ DOMAIN ShownIn(Tab, calls[i].arg))]
        /\ calls' = Dropped(i)
  BY DEF Relisted
<1>2. page' = page /\ disk' = disk
  BY DEF Relisted
<1> DEFINE p == Tab
           k == past
           k2 == past'
           m == calls[i].arg
           data == calls[i].data
           q == SetShown(p, m, data)
<1>3. /\ DOMAIN past = PastFields /\ (ui.last = 1 => IsSeq(calls)) /\ i \in DOMAIN calls
      /\ calls[i].op = "relist" /\ calls[i].at # "sent"
  BY <1>1 DEF ImageInv, Framed, Pending, Arrived
<1>4. /\ DOMAIN k2 = PastFields
      /\ k2.ids = k.ids /\ k2.loose = k.loose /\ k2.now = k.now
      /\ k2.gone = k.gone /\ k2.kept = k.kept /\ k2.lostWrite = k.lostWrite
      /\ k2.back = k.back \cup (DOMAIN data \ DOMAIN p.ref[m])
  BY <1>1, <1>3 DEF PastFields, ShownIn
<1>5. ui.last = 1 => IsSeq(calls') /\ (Relists(calls, k) => Relists(calls', k))
  BY <1>1, <1>3, FewerCalls DEF Dropped
<1>6. Become(q)
  BY <1>1
<1> HIDE DEF p, k, k2, data, q
<1>7. ASSUME ui.last = 1
      PROVE  Fine(q, disk, k2) /\ Relists(calls', k2)
  <2>1. Fine(p, disk, k) /\ Relists(calls, k)
    BY <1>7 DEF ImageInv, p, k
  <2>2. k.lostWrite /\ m = 1 /\ DOMAIN data \subseteq k.ids
    BY <1>3, <2>1 DEF Relists, data
  <2>3. Sound(p, disk, k)
    BY <2>1 DEF Fine
  <2>4. Grows(k, k2)
    <3>1. k.ids \subseteq Convs /\ k.now \in Nat /\ k.now <= k.now
      BY <2>3 DEF Sound, Known, Ages
    <3>2. QED
      BY <1>4, <2>2, <3>1 DEF Grows
  <2>5. Sound(p, disk, k2)
    BY <2>3, <2>4, PastGrows
  <2>6. ASSUME NEW c \in DOMAIN data
        PROVE  Welcome(p, k2, c)
    <3>1. CASE c \in DOMAIN p.ref[1]
      BY <2>5, <3>1, ShownWelcome
    <3>2. CASE c \notin DOMAIN p.ref[1]
      <4>1. c \in k2.back
        BY <1>4, <2>2, <2>6, <3>2
      <4>2. c \in k2.ids /\ k2.lostWrite
        BY <1>4, <2>2, <2>6
      <4>3. QED
        BY <4>1, <4>2 DEF Welcome
    <3>3. QED
      BY <3>1, <3>2
  <2>7. k2.lostWrite
    BY <1>4, <2>2
  <2>8. Fine(SetShown(p, 1, data), disk, k2)
    BY <2>5, <2>6, <2>7, ShownFine
  <2>9. Relists(calls', k2)
    BY <1>4, <1>5, <1>7, <2>1, RelistsGrow
  <2>10. QED
    BY <2>2, <2>8, <2>9 DEF q
<1>8. QED
  BY <1>2, <1>4, <1>5, <1>6, <1>7, Composed DEF k2

(* The history.                                                            *)
LEMMA EachTurnIs ==
  ASSUME NEW items
  PROVE  /\ DOMAIN recoverConversationHistory(items) = DOMAIN items
         /\ \A c \in DOMAIN items :
              LET v == recoverConversationHistory(items)[c]
              IN  v = items[c] \/ v.at = past.now
         /\ DOMAIN syncConversationImageTasks(items) = DOMAIN items
         /\ \A c \in DOMAIN items :
              LET v == syncConversationImageTasks(items)[c]
              IN  v = items[c] \/ v.at = past.now
<1>1. \A cv, turns : Stamped(cv, turns).at = past.now
  BY DEF Stamped
<1>2. DOMAIN recoverConversationHistory(items) = DOMAIN items
  BY DEF recoverConversationHistory, EachTurn
<1>3. ASSUME NEW c \in DOMAIN items
      PROVE  \/ recoverConversationHistory(items)[c] = items[c]
             \/ recoverConversationHistory(items)[c].at = past.now
  <2> DEFINE turns == [i \in DOMAIN items[c].turns |-> Recovered(items[c].turns[i])]
  <2>1. recoverConversationHistory(items)[c] =
          IF \E i \in DOMAIN turns : items[c].turns[i] # turns[i]
            THEN Stamped(items[c], turns) ELSE items[c]
    BY DEF recoverConversationHistory, EachTurn
  <2> HIDE DEF turns
  <2>2. QED
    BY <1>1, <2>1
<1>4. DOMAIN syncConversationImageTasks(items) = DOMAIN items
  BY DEF syncConversationImageTasks, EachTurn
<1>5. ASSUME NEW c \in DOMAIN items
      PROVE  \/ syncConversationImageTasks(items)[c] = items[c]
             \/ syncConversationImageTasks(items)[c].at = past.now
  <2> DEFINE turns == [i \in DOMAIN items[c].turns |-> Synced(items[c].turns[i])]
             touched(t) == ~t.cut /\ \E i \in Positions(t, "loading") :
                             t.imgs[i].has /\ server[t.imgs[i].id] # "absent"
  <2>1. syncConversationImageTasks(items)[c] =
          IF \E i \in DOMAIN turns : touched(items[c].turns[i])
            THEN Stamped(items[c], turns) ELSE items[c]
    BY DEF syncConversationImageTasks, EachTurn
  <2> HIDE DEF turns, touched
  <2>2. QED
    BY <1>1, <2>1
<1>6. QED
  BY <1>2, <1>3, <1>4, <1>5

(* Before the history is shown, a change of it is newer than every save.   *)
LEMMA ChangedIsNewest ==
  ASSUME NEW p, NEW d, NEW k, NEW c, Sound(p, d, k), ~k.lostWrite,
         c \in k.ids, c \notin Excused(k), NEW old, NEW v,
         Settles(p, d, c, old), v = old \/ v.at = k.now
  PROVE  Newest(p, d, c, v)
<1>1. /\ k.now \in Nat
      /\ \A x \in DOMAIN d : Aged(d[x], k)
      /\ \A i \in Saving(p, c) : Aged(p.writes[i].items[c], k)
      /\ \A i \in Saving(p, c) :
           /\ c \in DOMAIN d => d[c].at <= p.writes[i].items[c].at
           /\ \A j \in Saving(p, c) : i <= j => p.writes[i].items[c].at <= p.writes[j].items[c].at
  BY DEF Sound, Ages
<1>2. CASE v.at = k.now
  BY <1>1, <1>2 DEF Newest, Aged
<1>3. CASE v = old
  <2>1. CASE Saving(p, c) = {}
    <3>1. c \in DOMAIN d /\ d[c] = v
      BY <1>3, <2>1 DEF Settles
    <3>2. d[c].at \in Nat
      BY <1>1, <3>1 DEF Aged
    <3>3. QED
      BY <2>1, <3>1, <3>2 DEF Newest
  <2>2. CASE Saving(p, c) # {}
    <3>1. PICK i \in Saving(p, c) : (\A j \in Saving(p, c) : j <= i) /\ p.writes[i].items[c] = v
      BY <1>3, <2>2 DEF Settles
    <3>2. QED
      BY <1>1, <3>1 DEF Newest
  <2>3. QED
    BY <2>1, <2>2
<1>4. QED
  BY <1>2, <1>3

LoadTo(s, p, pc, items) ==
  /\ DOMAIN s = PageFields /\ s.here = p.here /\ (s.due <=> p.due) /\ s.ref = p.ref
  /\ s.load = [p.load EXCEPT ![1] = [pc |-> pc, items |-> items]]
  /\ s.writes = p.writes /\ s.run = p.run

LEMMA SetLoadTo ==
  ASSUME NEW p, DOMAIN p = PageFields, NEW pc, NEW items
  PROVE  LoadTo(SetLoad(p, 1, pc, items), p, pc, items)
<1> DEFINE s == SetLoad(p, 1, pc, items)
<1>1. /\ DOMAIN s = PageFields /\ s.here = p.here /\ (s.due <=> p.due) /\ s.ref = p.ref
      /\ s.load = [p.load EXCEPT ![1] = [pc |-> pc, items |-> items]]
      /\ s.writes = p.writes /\ s.run = p.run
  BY SetLoadIs
<1> HIDE DEF s
<1>2. LoadTo(s, p, pc, items)
  BY <1>1 DEF LoadTo
<1>3. QED
  BY <1>2 DEF s

LEMMA HistoryFine ==
  ASSUME NEW p, NEW d, NEW k, NEW items, NEW by \in {"recover", "sync"},
         Fine(p, d, k), NoHistory(p), p.load[1].pc \in {"list", "fetch"},
         DOMAIN items \subseteq k.ids, \A c \in DOMAIN items : Aged(items[c], k),
         ~k.lostWrite => \A c \in DOMAIN items \ Excused(k) : Newest(p, d, c, items[c])
  PROVE  Fine(Queue(SetLoad(p, 1, "save", items), Write("save", "all", items, by, 1)), d, k)
<1> DEFINE s == SetLoad(p, 1, "save", items)
           w == Write("save", "all", items, by, 1)
           q == Queue(s, w)
<1>1. Sound(p, d, k) /\ Watched(p, {})
  BY DEF Fine
<1>2. Sound(q, d, k)
  BY <1>1, HistorySaved
<1>3. DOMAIN p = PageFields /\ IsSeq(p.writes)
  BY <1>1 DEF Sound, PageShape
<1>4. /\ DOMAIN s = PageFields /\ s.here = p.here /\ (s.due <=> p.due) /\ s.ref = p.ref
      /\ s.load = [p.load EXCEPT ![1] = [pc |-> "save", items |-> items]]
      /\ s.writes = p.writes /\ s.run = p.run
  <2>1. DOMAIN p = PageFields
    BY <1>3
  <2>2. LoadTo(s, p, "save", items)
    BY <2>1, SetLoadTo
  <2> HIDE DEF s
  <2>3. QED
    BY <2>2 DEF LoadTo
<1> HIDE DEF s, w
<1>5. q.here = s.here /\ (q.due <=> s.due) /\ q.ref = s.ref /\ q.run = s.run
  <2> DEFINE n == Len(s.writes)
  <2>1. /\ DOMAIN q = PageFields /\ q.here = s.here /\ (q.due <=> s.due) /\ q.ref = s.ref
        /\ q.load = s.load /\ q.run = s.run
        /\ IsSeq(q.writes)
        /\ n \in Nat /\ DOMAIN s.writes = 1 .. n
        /\ DOMAIN q.writes = DOMAIN s.writes \cup {n + 1}
        /\ \A i \in DOMAIN s.writes : i \in Nat /\ i < n + 1 /\ q.writes[i] = s.writes[i]
        /\ q.writes[n + 1] = w
    <3>1. IsSeq(s.writes) /\ DOMAIN s = PageFields
      BY <1>3, <1>4
    <3>2. QED
      BY <3>1, QueuedIs
  <2>2. QED
    BY <2>1
<1> HIDE DEF q
<1>6. Watched(q, {})
  <2>1. q.here = p.here /\ (q.due <=> p.due) /\ q.ref = p.ref /\ q.run = p.run
    BY <1>4, <1>5
  <2>2. QED
    BY <1>1, <2>1, WatchedSame
<1>7. QED
  BY <1>2, <1>6 DEF Fine, q, s, w

(* The load of the first mount is the only one.                            *)
LEMMA OneLoad ==
  ASSUME ImageInv, ui.last = 1, NEW m \in Mounts, History(m).pc # "none"
  PROVE  /\ m = 1
         /\ History(1).pc # "save" => NoHistory(Tab)
<1>1. Sound(Tab, disk, past)
  BY DEF ImageInv, Fine
<1>2. Tab.load = ui.load
  BY DEF Tab
<1>3. m = 1
  BY <1>1, <1>2 DEF Sound, PageShape, History
<1>4. History(1).pc # "save" => NoHistory(Tab)
  BY <1>1, <1>2 DEF Sound, Awaited, NoHistory, History
<1>5. QED
  BY <1>3, <1>4

LEMMA HistoryListedStep ==
  ASSUME ImageInv, HistoryListed
  PROVE  ImageInv'
<1> DEFINE items == recoverConversationHistory(disk)
<1>1. PICK m \in Mounts :
        /\ History(m).pc = "list"
        /\ Become(IF items # disk THEN SaveAll(m, items, "recover")
                  ELSE SetLoad(Tab, m, "fetch", items))
  BY DEF HistoryListed
<1>2. UNCHANGED <<page, calls, disk>> /\ past' = past
  BY DEF HistoryListed
<1> DEFINE n == IF items # disk THEN SaveAll(m, items, "recover")
                ELSE SetLoad(Tab, m, "fetch", items)
<1>3. /\ DOMAIN items = DOMAIN disk
      /\ \A c \in DOMAIN disk : items[c] = disk[c] \/ items[c].at = past.now
  BY EachTurnIs
<1> HIDE DEF items
<1>4. ASSUME ui.last = 1
      PROVE  Fine(n, disk, past)
  <2> DEFINE p == Tab
             k == past
             by == "recover"
             pc == "fetch"
  <2>1. m = 1 /\ NoHistory(p)
    BY <1>1, <1>4, OneLoad
  <2>2. n = IF items # disk
              THEN Queue(SetLoad(p, 1, "save", items), Write("save", "all", items, by, 1))
              ELSE SetLoad(p, 1, pc, items)
    BY <2>1 DEF SaveAll
  <2>3. by \in {"recover", "sync"} /\ pc \in {"fetch", "done"} /\ pc = "fetch"
    OBVIOUS
  <2>4. Fine(p, disk, k)
    BY <1>4 DEF ImageInv
  <2>5. p.load[1].pc = "list"
    BY <1>1, <2>1 DEF History, Tab
  <2>6. \A c \in DOMAIN disk : items[c] = disk[c] \/ items[c].at = k.now
    BY <1>3
  <2> HIDE DEF p, k, by, pc, n
  <2>7. Sound(p, disk, k)
    BY <2>4 DEF Fine
  <2>8. /\ DOMAIN disk \subseteq k.ids /\ k.now \in Nat
        /\ \A c \in DOMAIN disk : Aged(disk[c], k)
    BY <2>7 DEF Sound, Known, Ages
  <2>9. DOMAIN items \subseteq k.ids /\ \A c \in DOMAIN items : Aged(items[c], k)
    BY <1>3, <2>6, <2>8 DEF Aged
  <2>10. ASSUME ~k.lostWrite, NEW c \in DOMAIN items \ Excused(k)
         PROVE  Settles(p, disk, c, disk[c]) /\ Newest(p, disk, c, items[c])
    <3>1. Saving(p, c) = {}
      BY <2>5, <2>7, <2>9, <2>10 DEF Sound, Fits
    <3>2. Settles(p, disk, c, disk[c])
      BY <1>3, <2>10, <3>1 DEF Settles
    <3>3. QED
      BY <1>3, <2>6, <2>7, <2>9, <2>10, <3>2, ChangedIsNewest
  <2>11. CASE items # disk
    <3>1. p.load[1].pc \in {"list", "fetch"}
      BY <2>5
    <3>2. ~k.lostWrite => \A c \in DOMAIN items \ Excused(k) : Newest(p, disk, c, items[c])
      BY <2>10
    <3>3. Fine(Queue(SetLoad(p, 1, "save", items), Write("save", "all", items, by, 1)), disk, k)
      BY <2>1, <2>3, <2>4, <2>9, <3>1, <3>2, HistoryFine
    <3>4. QED
      BY <2>2, <2>11, <3>3 DEF k
  <2>12. CASE items = disk
    <3>1. pc # "done" => p.load[1].pc # "done"
      BY <2>5
    <3>2. pc = "fetch" /\ ~k.lostWrite =>
            \A c \in DOMAIN items \ Excused(k) : Settles(p, disk, c, items[c])
      BY <2>10, <2>12
    <3>3. Fine(SetLoad(p, 1, pc, items), disk, k)
      BY <2>1, <2>3, <2>4, <2>9, <3>1, <3>2, LoadFine
    <3>4. QED
      BY <2>2, <2>12, <3>3 DEF k
  <2>13. QED
    BY <2>11, <2>12
<1> HIDE DEF n
<1>5. Become(n)
  BY <1>1 DEF n
<1>6. QED
  BY <1>2, <1>4, <1>5, RunnerStep

LEMMA HistoryFetchedStep ==
  ASSUME ImageInv, HistoryFetched
  PROVE  ImageInv'
<1>1. PICK m \in Mounts :
        /\ History(m).pc = "fetch"
        /\ \E changed \in BOOLEAN :
             Become(IF changed THEN SaveAll(m, syncConversationImageTasks(History(m).items), "sync")
                    ELSE Loaded(Tab, m, History(m).items))
  <2>1. PICK m \in Mounts :
         LET items == History(m).items
             synced == syncConversationImageTasks(items)
             changed == \E t \in Asks(items) : server[t] # "absent"
         IN  /\ History(m).pc = "fetch"
             /\ Become(IF changed THEN SaveAll(m, synced, "sync") ELSE Loaded(Tab, m, items))
    BY DEF HistoryFetched
  <2> DEFINE changed == \E t \in Asks(History(m).items) : server[t] # "absent"
  <2>2. changed \in BOOLEAN
    OBVIOUS
  <2>3. Become(IF changed THEN SaveAll(m, syncConversationImageTasks(History(m).items), "sync")
               ELSE Loaded(Tab, m, History(m).items))
    BY <2>1
  <2> HIDE DEF changed
  <2>4. QED
    BY <2>1, <2>2, <2>3
<1>2. PICK changed \in BOOLEAN :
        Become(IF changed THEN SaveAll(m, syncConversationImageTasks(History(m).items), "sync")
               ELSE Loaded(Tab, m, History(m).items))
  BY <1>1
<1>3. UNCHANGED <<page, calls, disk>> /\ past' = past
  BY DEF HistoryFetched
<1> DEFINE items == History(m).items
           synced == syncConversationImageTasks(items)
           n == IF changed THEN SaveAll(m, synced, "sync") ELSE Loaded(Tab, m, items)
<1>4. /\ DOMAIN synced = DOMAIN items
      /\ \A c \in DOMAIN items : synced[c] = items[c] \/ synced[c].at = past.now
  BY EachTurnIs
<1> HIDE DEF synced
<1>5. ASSUME ui.last = 1
      PROVE  Fine(n, disk, past)
  <2> DEFINE p == Tab
             k == past
             by == "sync"
  <2>1. m = 1 /\ NoHistory(p)
    BY <1>1, <1>5, OneLoad
  <2>2. n = IF changed
              THEN Queue(SetLoad(p, 1, "save", synced), Write("save", "all", synced, by, 1))
              ELSE Loaded(p, 1, items)
    BY <2>1 DEF SaveAll
  <2>3. by \in {"recover", "sync"}
    OBVIOUS
  <2>4. Fine(p, disk, k)
    BY <1>5 DEF ImageInv
  <2>5. p.load[1].pc = "fetch" /\ items = p.load[1].items
    BY <1>1, <2>1 DEF History, Tab
  <2>6. \A c \in DOMAIN items : synced[c] = items[c] \/ synced[c].at = k.now
    BY <1>4
  <2> HIDE DEF p, k, by, n, items
  <2>7. Sound(p, disk, k)
    BY <2>4 DEF Fine
  <2>8. /\ DOMAIN items \subseteq k.ids /\ k.now \in Nat
        /\ \A c \in DOMAIN items : Aged(items[c], k)
    BY <2>5, <2>7 DEF Sound, Known, Ages
  <2>9. DOMAIN synced \subseteq k.ids /\ \A c \in DOMAIN synced : Aged(synced[c], k)
    BY <1>4, <2>6, <2>8 DEF Aged
  <2>10. ASSUME ~k.lostWrite, NEW c \in DOMAIN synced \ Excused(k)
         PROVE  Newest(p, disk, c, synced[c])
    <3>1. Settles(p, disk, c, items[c])
      BY <1>4, <2>5, <2>7, <2>10 DEF Sound, Fits
    <3>2. QED
      BY <1>4, <2>6, <2>7, <2>9, <2>10, <3>1, ChangedIsNewest
  <2>11. CASE changed
    <3>1. p.load[1].pc \in {"list", "fetch"}
      BY <2>5
    <3>2. ~k.lostWrite => \A c \in DOMAIN synced \ Excused(k) : Newest(p, disk, c, synced[c])
      BY <2>10
    <3>3. Fine(Queue(SetLoad(p, 1, "save", synced), Write("save", "all", synced, by, 1)), disk, k)
      BY <2>1, <2>3, <2>4, <2>9, <3>1, <3>2, HistoryFine
    <3>4. QED
      BY <2>2, <2>11, <3>3 DEF k
  <2>12. CASE ~changed
    <3>1. p.load[1].pc \in {"save", "fetch"}
      BY <2>5
    <3>2. Fine(Loaded(p, 1, items), disk, k)
      BY <2>1, <2>4, <2>5, <3>1, LoadedFine
    <3>3. QED
      BY <2>2, <2>12, <3>2 DEF k
  <2>13. QED
    BY <2>11, <2>12
<1> HIDE DEF n
<1>6. Become(n)
  BY <1>2 DEF n, synced
<1>7. QED
  BY <1>3, <1>5, <1>6, RunnerStep

LEMMA HistoryUnsyncedStep ==
  ASSUME ImageInv, HistoryUnsynced
  PROVE  ImageInv'
<1>1. PICK m \in Mounts :
        History(m).pc = "fetch" /\ Become(Loaded(Tab, m, History(m).items))
  BY DEF HistoryUnsynced
<1>2. UNCHANGED <<page, calls, disk>> /\ past' = [past EXCEPT !.moves = past.moves + 1]
  BY DEF HistoryUnsynced
<1>3. ASSUME ui.last = 1
      PROVE  Fine(Loaded(Tab, m, History(m).items), disk, past)
  <2> DEFINE p == Tab
             items == History(m).items
  <2>1. m = 1 /\ NoHistory(p)
    BY <1>1, <1>3, OneLoad
  <2>2. Fine(p, disk, past)
    BY <1>3 DEF ImageInv
  <2>3. p.load[1].pc \in {"save", "fetch"} /\ items = p.load[1].items
    BY <1>1, <2>1 DEF History, Tab
  <2> HIDE DEF p, items
  <2>4. Fine(Loaded(p, 1, items), disk, past)
    BY <2>1, <2>2, <2>3, LoadedFine
  <2>5. QED
    BY <2>1, <2>4 DEF p, items
<1>4. QED
  BY <1>1, <1>2, <1>3, RunnerStep

(* What the user does, on the page that is shown.                          *)
Kept(k2, k) ==
  /\ k2.now = k.now /\ k2.kept = k.kept /\ k2.gone = k.gone /\ k2.back = k.back
  /\ k2.lostWrite <=> k.lostWrite
  /\ k.ids \subseteq k2.ids /\ k.loose \subseteq k2.loose

LEMMA KeptSound ==
  ASSUME NEW p, NEW d, NEW k, NEW k2, Sound(p, d, k), Kept(k2, k), k2.ids \subseteq Convs
  PROVE  Sound(p, d, k2)
<1>1. k.now \in Nat /\ (~k.lostWrite => k.back = {})
  BY DEF Sound, Ages, Fits
<1>2. k.now <= k.now
  BY <1>1
<1>3. Grows(k, k2)
  BY <1>1, <1>2 DEF Kept, Grows
<1>4. QED
  BY <1>3, PastGrows

LEMMA SpentIs ==
  ASSUME ImageInv, NEW n
  PROVE  LET k2 == Spent(n)
         IN  /\ DOMAIN k2 = PastFields /\ Kept(k2, past)
             /\ k2.ids = past.ids /\ k2.loose = past.loose
<1> DEFINE k2 == Spent(n)
<1>1. DOMAIN past = PastFields
  BY DEF ImageInv, Framed
<1>2. /\ DOMAIN k2 = PastFields
      /\ k2.now = past.now /\ k2.ids = past.ids /\ k2.lostWrite = past.lostWrite
      /\ k2.kept = past.kept /\ k2.gone = past.gone /\ k2.back = past.back
      /\ k2.loose = past.loose
  BY <1>1 DEF PastFields, Spent
<1> HIDE DEF k2
<1>3. k2.lostWrite <=> past.lostWrite
  BY <1>2
<1>4. Kept(k2, past)
  BY <1>2, <1>3 DEF Kept
<1>5. QED
  BY <1>2, <1>4 DEF k2

LEMMA SpentFine ==
  ASSUME ImageInv, NEW n
  PROVE  ui.last = 1 =>
           /\ Sound(Tab, disk, Spent(n))
           /\ Fine(Tab, disk, Spent(n))
           /\ Relists(calls, Spent(n))
<1> DEFINE k2 == Spent(n)
           p == Tab
<1>1. Kept(k2, past) /\ k2.ids = past.ids
  BY SpentIs
<1>2. ASSUME ui.last = 1
      PROVE  Fine(p, disk, past) /\ Relists(calls, past)
  BY <1>2 DEF ImageInv
<1> HIDE DEF k2, p
<1>3. ASSUME ui.last = 1
      PROVE  Sound(p, disk, k2) /\ Fine(p, disk, k2) /\ Relists(calls, k2)
  <2>1. Sound(p, disk, past) /\ Watched(p, {}) /\ Relists(calls, past)
    BY <1>2, <1>3 DEF Fine
  <2>2. k2.ids \subseteq Convs
    BY <1>1, <2>1 DEF Sound, Known
  <2>3. Sound(p, disk, k2)
    BY <1>1, <2>1, <2>2, KeptSound
  <2>4. Relists(calls, k2)
    BY <1>1, <2>1, RelistsGrow DEF Kept
  <2>5. QED
    BY <2>1, <2>3, <2>4 DEF Fine
<1>4. QED
  BY <1>3 DEF k2, p

LEMMA OnPage ==
  ASSUME ImageInv, ui.last = 1, Editing
  PROVE  /\ ui.here = 1 /\ Tab.here = 1
         /\ Here = Tab.ref[1] /\ Tab.load = ui.load
<1>1. Tab.here = ui.here /\ Tab.ref = ui.ref /\ Tab.load = ui.load
  BY DEF Tab
<1>2. Tab.here \in {0, 1}
  BY DEF ImageInv, Fine, Sound, PageShape
<1>3. ui.here = 1
  BY <1>1, <1>2 DEF Editing
<1>4. QED
  BY <1>1, <1>3 DEF Here, ShownIn

LEMMA SavesShown ==
  ASSUME ImageInv, ui.last = 1, Editing, NEW c \in DOMAIN Here, NEW turns,
         NEW by \in {"start", "none"}, NEW n
  PROVE  Fine(Persist(Tab, ui.here, c, Stamped(Here[c], turns), by), disk, Spent(n))
<1> DEFINE k2 == Spent(n)
           p == Tab
           cv == Stamped(Here[c], turns)
<1>1. Sound(p, disk, k2)
  BY SpentFine
<1>2. ui.here = 1 /\ c \in DOMAIN p.ref[1]
  BY OnPage
<1>3. cv.at = k2.now
  <2>1. Kept(k2, past)
    BY SpentIs
  <2>2. cv.at = past.now
    BY DEF Stamped
  <2> HIDE DEF k2, cv
  <2>3. QED
    BY <2>1, <2>2 DEF Kept
<1> HIDE DEF k2, p, cv
<1>4. Welcome(p, k2, c)
  BY <1>1, <1>2, ShownWelcome
<1>5. Fine(Persist(p, 1, c, cv, by), disk, k2)
  BY <1>1, <1>3, <1>4, PersistFine
<1>6. QED
  BY <1>2, <1>5 DEF p, k2, cv

LEMMA CancellingCalls ==
  ASSUME NEW ids, IsSeq(calls)
  PROVE  /\ IsSeq(Cancelling(ids))
         /\ \A k : Relists(calls, k) => Relists(Cancelling(ids), k)
<1> DEFINE r == Request("cancel", ids)
<1>1. r.op # "relist" /\ (Cancelling(ids) = calls \/ Cancelling(ids) = Append(calls, r))
  BY DEF Cancelling, Sent, Request
<1> HIDE DEF r
<1>2. IsSeq(Append(calls, r))
  BY MoreCalls
<1>3. \A k : Relists(calls, k) => Relists(Append(calls, r), k)
  BY <1>1, MoreCalls
<1>4. QED
  BY <1>1, <1>2, <1>3

LEMMA SubmitStep ==
  ASSUME ImageInv, Submit
  PROVE  ImageInv'
<1>1. PICK c \in Convs, n \in 1 .. 2 :
        LET t == NewTurn(past.used + 1, n)
        IN  /\ c \in DOMAIN Here \/ c \notin past.ids
            /\ Become(Persist(Tab, ui.here, c,
                 IF c \in DOMAIN Here THEN Extended(Here[c], t)
                 ELSE [at |-> past.now, name |-> 0, turns |-> <<t>>],
                 "start"))
            /\ past' = [Spent(n) EXCEPT
                 !.ids = @ \cup {c},
                 !.loose = IF History(ui.here).pc = "done" THEN @ ELSE @ \cup {c}]
  BY DEF Submit
<1>2. Editing /\ UNCHANGED <<page, calls, disk>>
  BY DEF Submit
<1> DEFINE t == NewTurn(past.used + 1, n)
           cv == IF c \in DOMAIN Here THEN Extended(Here[c], t)
                 ELSE [at |-> past.now, name |-> 0, turns |-> <<t>>]
           q == Persist(Tab, ui.here, c, cv, "start")
           k == Spent(n)
           k2 == past'
           p == Tab
<1>3. Become(q) /\ (c \in DOMAIN Here \/ c \notin past.ids)
  BY <1>1
<1>4. cv.at = past.now
  BY DEF Extended, Stamped
<1>5. DOMAIN k = PastFields /\ Kept(k, past) /\ k.ids = past.ids
  BY SpentIs
<1>6. k2 = [k EXCEPT !.ids = @ \cup {c},
                     !.loose = IF History(ui.here).pc = "done" THEN @ ELSE @ \cup {c}]
  BY <1>1
<1>7. DOMAIN past = PastFields /\ (ui.last = 1 => IsSeq(calls))
  BY DEF ImageInv, Framed
<1> HIDE DEF k, k2, cv, p
<1>8. /\ DOMAIN k2 = PastFields
      /\ k2.now = k.now /\ k2.kept = k.kept /\ k2.gone = k.gone /\ k2.back = k.back
      /\ k2.lostWrite = k.lostWrite
      /\ k2.ids = k.ids \cup {c}
      /\ k2.loose = IF History(ui.here).pc = "done" THEN k.loose ELSE k.loose \cup {c}
  BY <1>5, <1>6 DEF PastFields
<1>9. Kept(k2, k)
  <2>1. k2.lostWrite <=> k.lostWrite
    BY <1>8
  <2>2. QED
    BY <1>8, <2>1 DEF Kept
<1>10. ASSUME ui.last = 1
       PROVE  Fine(q, disk, k2) /\ Relists(calls, k2)
  <2>1. Sound(p, disk, k) /\ Relists(calls, k)
    BY <1>10, SpentFine DEF k, p
  <2>2. k2.ids \subseteq Convs
    BY <1>8, <2>1 DEF Sound, Known
  <2>3. Sound(p, disk, k2)
    BY <1>9, <2>1, <2>2, KeptSound
  <2>4. ui.here = 1 /\ Here = p.ref[1] /\ p.load = ui.load
    BY <1>2, <1>10, OnPage DEF p
  <2>5. Welcome(p, k2, c)
    <3>1. CASE c \in DOMAIN p.ref[1]
      BY <2>3, <3>1, ShownWelcome
    <3>2. CASE c \notin DOMAIN p.ref[1]
      <4>1. c \notin k.ids
        BY <1>3, <1>5, <2>4, <3>2
      <4>2. c \in k2.ids /\ c \notin k2.kept
        BY <1>8, <2>1, <4>1 DEF Sound, Known
      <4>3. \A i \in DOMAIN p.writes : p.writes[i].by = "delete" => p.writes[i].conv # c
        BY <2>1, <4>1 DEF Sound, Known, PageShape, WriteShape
      <4>4. p.load[1].pc # "done" => c \in k2.loose
        BY <1>8, <2>4 DEF History
      <4>5. QED
        BY <4>2, <4>3, <4>4 DEF Welcome
    <3>3. QED
      BY <3>1, <3>2
  <2>6. cv.at = k2.now
    BY <1>4, <1>5, <1>8 DEF Kept
  <2> DEFINE by == "start"
  <2>7. by \in {"start", "none"}
    OBVIOUS
  <2>8. q = Persist(p, 1, c, cv, by)
    BY <2>4 DEF p
  <2> HIDE DEF q, by
  <2>9. Fine(q, disk, k2)
    BY <2>3, <2>5, <2>6, <2>7, <2>8, PersistFine
  <2>10. Relists(calls, k2)
    BY <1>8, <2>1, RelistsGrow
  <2>11. QED
    BY <2>9, <2>10
<1> HIDE DEF q
<1>11. QED
  BY <1>2, <1>3, <1>7, <1>8, <1>10, Composed DEF k2

(* A step that saves a changed conversation.                               *)
LEMMA SavingStep ==
  ASSUME ImageInv, Editing, NEW c \in DOMAIN Here, NEW turns, NEW by \in {"start", "none"}, NEW n,
         Become(Persist(Tab, ui.here, c, Stamped(Here[c], turns), by)),
         past' = Spent(n), page' = page, disk' = disk,
         calls' = calls \/ \E ids : calls' = Cancelling(ids)
  PROVE  ImageInv'
<1> DEFINE q == Persist(Tab, ui.here, c, Stamped(Here[c], turns), by)
           k2 == Spent(n)
<1>1. ui.last = 1 => Fine(q, disk, k2)
  BY SavesShown
<1>2. DOMAIN k2 = PastFields
  BY SpentIs
<1>3. ui.last = 1 => Relists(calls, k2)
  BY SpentFine
<1>4. past' = k2 /\ Become(q)
  OBVIOUS
<1> HIDE DEF q, k2
<1>5. ui.last = 1 => IsSeq(calls)
  BY DEF ImageInv, Framed
<1>6. ui.last = 1 => IsSeq(calls') /\ (Relists(calls, k2) => Relists(calls', k2))
  BY <1>5, CancellingCalls
<1>7. ui.last = 1 => Fine(q, disk', past') /\ Relists(calls', past')
  BY <1>1, <1>3, <1>4, <1>6
<1>8. DOMAIN past' = PastFields
  BY <1>2, <1>4
<1>9. QED
  BY <1>4, <1>6, <1>7, <1>8, Composed

LEMMA RegenerateStep ==
  ASSUME ImageInv, Regenerate
  PROVE  ImageInv'
<1>1. PICK c, i :
        LET t == Here[c].turns[i]
            n == Len(t.imgs)
        IN  /\ c \in DOMAIN Here
            /\ Become(Persist(Tab, ui.here, c,
                       Extended(Here[c], [NewTurn(past.used + 1, n) EXCEPT !.broken = t.broken]),
                       "start"))
            /\ past' = Spent(n)
  BY DEF Regenerate
<1>2. Editing /\ UNCHANGED <<page, calls, disk>>
  BY DEF Regenerate
<1> DEFINE n == Len(Here[c].turns[i].imgs)
           t == [NewTurn(past.used + 1, n) EXCEPT !.broken = Here[c].turns[i].broken]
           turns == Append(Here[c].turns, t)
           by == "start"
<1>3. Become(Persist(Tab, ui.here, c, Stamped(Here[c], turns), by)) /\ past' = Spent(n)
  BY <1>1 DEF Extended
<1>4. by \in {"start", "none"}
  OBVIOUS
<1> HIDE DEF n, t, turns, by
<1>5. QED
  BY <1>1, <1>2, <1>3, <1>4, SavingStep

LEMMA RetryImageStep ==
  ASSUME ImageInv, RetryImage
  PROVE  ImageInv'
<1>1. PICK c, turns :
        c \in DOMAIN Here /\ Become(Persist(Tab, ui.here, c, Stamped(Here[c], turns), "start"))
  BY DEF RetryImage
<1>2. Editing /\ UNCHANGED <<page, calls, disk>> /\ past' = Spent(1)
  BY DEF RetryImage
<1>3. "start" \in {"start", "none"}
  OBVIOUS
<1>4. QED
  BY <1>1, <1>2, <1>3, SavingStep

(* A conversation leaves the page, its deletion is queued.                 *)
LEMMA WithoutConvFine ==
  ASSUME ImageInv, ui.last = 1, Editing, NEW c \in DOMAIN Here, NEW n
  PROVE  Fine(WithoutConv(Tab, c), disk, Spent(n))
<1> DEFINE k2 == Spent(n)
           p == Tab
           convs == Without(Here, c)
           s == SetShown(p, 1, convs)
           by == IF History(ui.here).pc = "done" THEN "delete" ELSE "early"
           w == Write("delete", c, NoConvs, by, 1)
<1>1. Sound(p, disk, k2)
  BY SpentFine
<1>2. ui.here = 1 /\ Here = p.ref[1] /\ p.load = ui.load
  BY OnPage
<1>3. WithoutConv(Tab, c) = Queue(s, w)
  BY <1>2 DEF WithoutConv
<1>4. DOMAIN convs = DOMAIN Here \ {c} /\ \A x \in DOMAIN convs : convs[x] = Here[x]
  BY DEF Without
<1>5. w.op = "delete" /\ w.conv = c /\ w.by = by /\ w.m = 1
  BY DEF Write
<1>6. by \in {"delete", "early"} /\ (by = "delete" <=> History(1).pc = "done")
  BY <1>2
<1> HIDE DEF k2, p, convs, s, by, w
<1>7. \A x \in DOMAIN convs : Welcome(p, k2, x)
  BY <1>1, <1>2, <1>4, ShownWelcome
<1>8. ~k2.lostWrite => \A x \in DOMAIN convs \ Excused(k2) : Settles(p, disk, x, convs[x])
  BY <1>1, <1>2, <1>4 DEF Sound, Fits
<1>9. Fine(s, disk, k2)
  BY <1>1, <1>7, <1>8, ShownFine DEF s
<1>10. DOMAIN p = PageFields /\ DOMAIN p.ref = Mounts
  BY <1>1 DEF Sound, PageShape
<1>11. s.ref = [p.ref EXCEPT ![1] = convs] /\ s.load = p.load
  <2>1. DOMAIN p = PageFields
    BY <1>10
  <2>2. /\ DOMAIN s = PageFields
        /\ s.here = p.here
        /\ s.due <=> (p.due \/ p.here = 1)
        /\ s.ref = [p.ref EXCEPT ![1] = convs]
        /\ s.load = p.load
        /\ s.writes = p.writes
        /\ s.run = p.run
    BY <2>1, SetShownIs DEF s
  <2>3. QED
    BY <2>2
<1>12. c \notin DOMAIN s.ref[1]
  BY <1>4, <1>10, <1>11, MountOne
<1>13. WriteShape(w)
  BY <1>5, <1>6 DEF WriteShape
<1>14. c \in k2.ids
  BY <1>1, <1>2 DEF Sound, Known
<1>15. w.by = "delete" /\ w.conv \notin k2.back =>
         s.load[1].pc = "done" /\ w.conv \notin DOMAIN s.ref[1]
  BY <1>2, <1>5, <1>6, <1>11, <1>12 DEF History
<1>16. w.by = "early" /\ ~k2.lostWrite => w.conv \in k2.loose
  BY <1>1, <1>2, <1>5, <1>6 DEF Sound, Fits, History
<1>17. /\ w.op \in {"rename", "delete", "clear"}
       /\ w.op = "delete" => w.conv \in k2.ids
       /\ w.op = "rename" => w.conv \in k2.loose
  BY <1>5, <1>14
<1>18. Fine(Queue(s, w), disk, k2)
  BY <1>9, <1>13, <1>15, <1>16, <1>17, QueuedFine
<1>19. QED
  BY <1>3, <1>18 DEF k2

LEMMA DeletingStep ==
  ASSUME ImageInv, Editing, NEW c \in DOMAIN Here, NEW n, NEW ids,
         Become(WithoutConv(Tab, c)),
         past' = Spent(n), page' = page, disk' = disk, calls' = Cancelling(ids)
  PROVE  ImageInv'
<1> DEFINE q == WithoutConv(Tab, c)
           k2 == Spent(n)
<1>1. ui.last = 1 => Fine(q, disk, k2)
  BY WithoutConvFine
<1>2. DOMAIN k2 = PastFields
  BY SpentIs
<1>3. ui.last = 1 => Relists(calls, k2)
  BY SpentFine
<1>4. past' = k2 /\ Become(q)
  OBVIOUS
<1> HIDE DEF q, k2
<1>5. ui.last = 1 => IsSeq(calls)
  BY DEF ImageInv, Framed
<1>6. ui.last = 1 => IsSeq(calls') /\ (Relists(calls, k2) => Relists(calls', k2))
  BY <1>5, CancellingCalls
<1>7. ui.last = 1 => Fine(q, disk', past') /\ Relists(calls', past')
  BY <1>1, <1>3, <1>4, <1>6
<1>8. DOMAIN past' = PastFields
  BY <1>2, <1>4
<1>9. QED
  BY <1>4, <1>6, <1>7, <1>8, Composed

LEMMA DeleteConversationStep ==
  ASSUME ImageInv, DeleteConversation
  PROVE  ImageInv'
<1>1. PICK c \in DOMAIN Here :
        Become(WithoutConv(Tab, c)) /\ calls' = Cancelling(ConvLoadingIds(Here[c]))
  BY DEF DeleteConversation
<1>2. Editing /\ UNCHANGED <<page, disk>> /\ past' = Spent(0)
  BY DEF DeleteConversation
<1>3. QED
  BY <1>1, <1>2, DeletingStep

LEMMA DeleteTurnPartStep ==
  ASSUME ImageInv, DeleteTurnPart
  PROVE  ImageInv'
<1>1. \E c \in DOMAIN Here : \E turns, ids :
        /\ Become(IF turns = <<>> THEN WithoutConv(Tab, c)
                  ELSE Persist(Tab, ui.here, c, Stamped(Here[c], turns), "none"))
        /\ calls' = Cancelling(ids)
  <2>1. PICK c \in DOMAIN Here :
          \E i \in DOMAIN Here[c].turns : \E results \in BOOLEAN :
            LET t == Here[c].turns[i]
                left == IF results THEN CutResults(t) ELSE [t EXCEPT !.text = FALSE]
                turns == IF left.cut /\ ~left.text THEN RemoveAt(Here[c].turns, i)
                                                   ELSE [Here[c].turns EXCEPT ![i] = left]
            IN  /\ IF results THEN ~t.cut ELSE t.text
                /\ Become(IF turns = <<>> THEN WithoutConv(Tab, c)
                          ELSE Persist(Tab, ui.here, c, Stamped(Here[c], turns), "none"))
                /\ calls' = Cancelling(IF results /\ ~t.cut THEN LoadingIds(t) ELSE {})
    BY Zenon DEF DeleteTurnPart
  <2>2. PICK i \in DOMAIN Here[c].turns, results \in BOOLEAN :
          LET t == Here[c].turns[i]
              left == IF results THEN CutResults(t) ELSE [t EXCEPT !.text = FALSE]
              turns == IF left.cut /\ ~left.text THEN RemoveAt(Here[c].turns, i)
                                                 ELSE [Here[c].turns EXCEPT ![i] = left]
          IN  /\ Become(IF turns = <<>> THEN WithoutConv(Tab, c)
                        ELSE Persist(Tab, ui.here, c, Stamped(Here[c], turns), "none"))
              /\ calls' = Cancelling(IF results /\ ~t.cut THEN LoadingIds(t) ELSE {})
    BY <2>1
  <2> DEFINE t == Here[c].turns[i]
             left == IF results THEN CutResults(t) ELSE [t EXCEPT !.text = FALSE]
             turns == IF left.cut /\ ~left.text THEN RemoveAt(Here[c].turns, i)
                                                ELSE [Here[c].turns EXCEPT ![i] = left]
             ids == IF results /\ ~t.cut THEN LoadingIds(t) ELSE {}
  <2>3. /\ Become(IF turns = <<>> THEN WithoutConv(Tab, c)
                  ELSE Persist(Tab, ui.here, c, Stamped(Here[c], turns), "none"))
        /\ calls' = Cancelling(ids)
    BY <2>2
  <2> HIDE DEF turns, ids
  <2>4. QED
    BY <2>3
<1>2. PICK c \in DOMAIN Here : \E turns, ids :
        /\ Become(IF turns = <<>> THEN WithoutConv(Tab, c)
                  ELSE Persist(Tab, ui.here, c, Stamped(Here[c], turns), "none"))
        /\ calls' = Cancelling(ids)
  BY <1>1
<1>3. PICK turns, ids :
        /\ Become(IF turns = <<>> THEN WithoutConv(Tab, c)
                  ELSE Persist(Tab, ui.here, c, Stamped(Here[c], turns), "none"))
        /\ calls' = Cancelling(ids)
  BY <1>2
<1>4. Editing /\ UNCHANGED <<page, disk>> /\ past' = Spent(0)
  BY DEF DeleteTurnPart
<1>5. CASE turns = <<>>
  BY <1>3, <1>4, <1>5, DeletingStep
<1>6. CASE turns # <<>>
  <2>1. "none" \in {"start", "none"}
    OBVIOUS
  <2>2. QED
    BY <1>3, <1>4, <1>6, <2>1, SavingStep
<1>7. QED
  BY <1>5, <1>6

LEMMA ClearHistoryStep ==
  ASSUME ImageInv, ClearHistory
  PROVE  ImageInv'
<1> DEFINE ids == UNION {ConvLoadingIds(Here[c]) : c \in DOMAIN Here}
           w == Write("clear", "all", ids, "clear", ui.here)
           q == Queue(Tab, w)
           k2 == Spent(0)
<1>1. Become(q) /\ Editing /\ UNCHANGED <<page, calls, disk>> /\ past' = k2
  BY DEF ClearHistory
<1>2. DOMAIN k2 = PastFields
  BY SpentIs
<1>3. ui.last = 1 => Fine(Tab, disk, k2) /\ Relists(calls, k2)
  BY SpentFine
<1>4. w.op = "clear" /\ w.by = "clear" /\ w.m = ui.here
  BY DEF Write
<1>5. ui.last = 1 => IsSeq(calls)
  BY DEF ImageInv, Framed
<1> HIDE DEF w, k2
<1>6. ASSUME ui.last = 1
      PROVE  Fine(q, disk, k2)
  <2>1. ui.here = 1
    BY <1>1, <1>6, OnPage
  <2>2. WriteShape(w)
    BY <1>4, <2>1 DEF WriteShape
  <2>3. /\ w.op \in {"rename", "delete", "clear"}
        /\ w.op = "delete" => w.conv \in k2.ids
        /\ w.op = "rename" => w.conv \in k2.loose
        /\ w.by # "delete" /\ w.by # "early"
    BY <1>4
  <2> DEFINE p == Tab
  <2>4. Fine(p, disk, k2)
    BY <1>3, <1>6
  <2> HIDE DEF p
  <2>5. Fine(Queue(p, w), disk, k2)
    BY <2>2, <2>3, <2>4, QueuedFine
  <2>6. QED
    BY <2>5 DEF p
<1> HIDE DEF q
<1>7. QED
  BY <1>1, <1>2, <1>3, <1>5, <1>6, Composed

LEMMA RenameConversationStep ==
  ASSUME ImageInv, RenameConversation
  PROVE  ImageInv'
<1>1. PICK c \in DOMAIN Here :
        /\ Become(Queue(SetShown(Tab, ui.here, [Here EXCEPT ![c] = Renamed(Here[c])]),
                        Write("rename", c, NoConvs, "none", ui.here)))
        /\ past' = [Spent(0) EXCEPT !.loose = @ \cup {c}]
  BY DEF RenameConversation
<1>2. Editing /\ UNCHANGED <<page, calls, disk>>
  BY DEF RenameConversation
<1> DEFINE convs == [Here EXCEPT ![c] = Renamed(Here[c])]
           w == Write("rename", c, NoConvs, "none", ui.here)
           s == SetShown(Tab, ui.here, convs)
           q == Queue(s, w)
           k == Spent(0)
           k2 == past'
           p == Tab
<1>3. Become(q) /\ k2 = [k EXCEPT !.loose = @ \cup {c}]
  BY <1>1
<1>4. DOMAIN k = PastFields /\ Kept(k, past)
  BY SpentIs
<1>5. w.op = "rename" /\ w.conv = c /\ w.by = "none" /\ w.m = ui.here
  BY DEF Write
<1>6. DOMAIN convs = DOMAIN Here /\ \A x \in DOMAIN convs : x # c => convs[x] = Here[x]
  OBVIOUS
<1>7. ui.last = 1 => IsSeq(calls)
  BY DEF ImageInv, Framed
<1> HIDE DEF k, k2, convs, w, p
<1>8. /\ DOMAIN k2 = PastFields
      /\ k2.now = k.now /\ k2.kept = k.kept /\ k2.gone = k.gone /\ k2.back = k.back
      /\ k2.lostWrite = k.lostWrite /\ k2.ids = k.ids /\ k2.loose = k.loose \cup {c}
  BY <1>3, <1>4 DEF PastFields
<1>9. Kept(k2, k)
  <2>1. k2.lostWrite <=> k.lostWrite
    BY <1>8
  <2>2. QED
    BY <1>8, <2>1 DEF Kept
<1>10. ASSUME ui.last = 1
       PROVE  Fine(q, disk, k2) /\ Relists(calls, k2)
  <2>1. Sound(p, disk, k) /\ Relists(calls, k)
    BY <1>10, SpentFine DEF k, p
  <2>2. k2.ids \subseteq Convs
    BY <1>8, <2>1 DEF Sound, Known
  <2>3. Sound(p, disk, k2)
    BY <1>9, <2>1, <2>2, KeptSound
  <2>4. ui.here = 1 /\ Here = p.ref[1]
    BY <1>2, <1>10, OnPage DEF p
  <2>5. s = SetShown(p, 1, convs)
    BY <2>4 DEF p
  <2>6. \A x \in DOMAIN convs : Welcome(p, k2, x)
    BY <1>6, <2>3, <2>4, ShownWelcome
  <2>7. ~k2.lostWrite => \A x \in DOMAIN convs \ Excused(k2) : Settles(p, disk, x, convs[x])
    <3>1. \A x \in DOMAIN convs \ Excused(k2) : x # c
      BY <1>8 DEF Excused
    <3>2. QED
      BY <1>6, <2>3, <2>4, <3>1 DEF Sound, Fits
  <2> HIDE DEF s
  <2>8. Fine(s, disk, k2)
    BY <2>3, <2>5, <2>6, <2>7, ShownFine
  <2>9. WriteShape(w)
    BY <1>5, <2>4 DEF WriteShape
  <2>10. /\ w.op \in {"rename", "delete", "clear"}
         /\ w.op = "delete" => w.conv \in k2.ids
         /\ w.op = "rename" => w.conv \in k2.loose
         /\ w.by # "delete" /\ w.by # "early"
    BY <1>5, <1>8
  <2>11. Fine(q, disk, k2)
    BY <2>8, <2>9, <2>10, QueuedFine
  <2>12. Relists(calls, k2)
    BY <1>8, <2>1, RelistsGrow
  <2>13. QED
    BY <2>11, <2>12
<1> HIDE DEF q
<1>11. QED
  BY <1>2, <1>3, <1>7, <1>8, <1>10, Composed DEF k2

(* What goes on without the page: it is left, entered, reloaded; the tasks *)
(* of the server end.                                                      *)
LEMMA LaterMount ==
  ASSUME ImageInv, page' = page,
         DOMAIN ui' = {"here", "last", "due", "ref", "load"},
         DOMAIN mem' = {"run", "writes"}, DOMAIN past' = PastFields,
         ui'.last = ui.last + 1
  PROVE  ImageInv'
<1>1. ui.last \in Nat \ {0} /\ page = "image"
  BY DEF ImageInv, Framed
<1>2. ui'.last \in Nat \ {0} /\ ui'.last # 1
  BY <1>1
<1>3. QED
  BY <1>1, <1>2 DEF ImageInv, Framed

LEMMA LeavePageStep ==
  ASSUME ImageInv, LeavePage
  PROVE  ImageInv'
<1> DEFINE p == Tab
           q == Tab'
<1>1. /\ ui' = [ui EXCEPT !.here = 0, !.due = FALSE]
      /\ past' = [past EXCEPT !.moves = past.moves + 1]
      /\ UNCHANGED <<page, mem, calls, disk>>
  BY DEF LeavePage
<1>2. Framed
  BY DEF ImageInv
<1>3. /\ DOMAIN ui' = {"here", "last", "due", "ref", "load"}
      /\ ui'.here = 0 /\ ui'.last = ui.last /\ ui'.ref = ui.ref /\ ui'.load = ui.load
  BY <1>1, <1>2 DEF Framed
<1>4. /\ DOMAIN q = PageFields /\ q.here = 0
      /\ q.ref = p.ref /\ q.load = p.load /\ q.run = p.run /\ q.writes = p.writes
  BY <1>1, <1>3 DEF Tab, PageFields
<1>5. /\ DOMAIN past' = PastFields
      /\ \A x, d : Fine(x, d, past) => Fine(x, d, past')
      /\ \A cs : Relists(cs, past) => Relists(cs, past')
  BY <1>1, Spending
<1>6. Framed'
  BY <1>1, <1>2, <1>3, <1>5 DEF Framed
<1>7. ASSUME ui.last = 1
      PROVE  Fine(q, disk', past') /\ Relists(calls', past')
  <2> DEFINE k == past'
  <2>1. Fine(p, disk, past) /\ Relists(calls, past)
    BY <1>7 DEF ImageInv
  <2>2. Fine(p, disk, k) /\ Relists(calls, k)
    BY <1>5, <2>1
  <2> HIDE DEF p, q, k
  <2>3. Sound(p, disk, k)
    BY <2>2 DEF Fine
  <2>4. Sound(q, disk, k)
    BY <1>4, <2>3, AlikeSound DEF Alike
  <2>5. Watched(q, {})
    BY <1>4 DEF Watched
  <2>6. Fine(q, disk, k)
    BY <2>4, <2>5 DEF Fine
  <2>7. QED
    BY <1>1, <2>2, <2>6 DEF k
<1>8. QED
  BY <1>3, <1>6, <1>7 DEF ImageInv

LEMMA EnterPageStep ==
  ASSUME ImageInv, EnterPage
  PROVE  ImageInv'
<1>1. ui' = Opened(ui.last + 1, ui.ref, ui.load) /\ UNCHANGED <<page, mem, past>>
  BY DEF EnterPage
<1>2. DOMAIN ui' = {"here", "last", "due", "ref", "load"} /\ ui'.last = ui.last + 1
  BY <1>1 DEF Opened
<1>3. DOMAIN mem = {"run", "writes"} /\ DOMAIN past = PastFields
  BY DEF ImageInv, Framed
<1>4. QED
  BY <1>1, <1>2, <1>3, LaterMount

LEMMA ReloadPageStep ==
  ASSUME ImageInv, ReloadPage
  PROVE  ImageInv'
<1>1. /\ ui' = Opened(ui.last + 1, NoRefs, NoLoads)
      /\ mem' = [run |-> [c \in Convs |-> NoRun], writes |-> <<>>]
      /\ past' = [past EXCEPT !.moves = past.moves + 1]
      /\ page' = page
  BY DEF ReloadPage
<1>2. DOMAIN ui' = {"here", "last", "due", "ref", "load"} /\ ui'.last = ui.last + 1
  BY <1>1 DEF Opened
<1>3. DOMAIN mem' = {"run", "writes"}
  BY <1>1
<1>4. DOMAIN past' = PastFields
  BY <1>1, Spending
<1>5. QED
  BY <1>1, <1>2, <1>3, <1>4, LaterMount

LEMMA ServerStep ==
  ASSUME ImageInv, UNCHANGED <<page, ui, mem, disk>>,
         past' = past \/ past' = [past EXCEPT !.moves = past.moves + 1],
         calls' = calls \/ \E i \in DOMAIN calls : calls' = Dropped(i)
  PROVE  ImageInv'
<1>1. /\ DOMAIN past' = PastFields
      /\ \A p, d : Fine(p, d, past) => Fine(p, d, past')
      /\ \A cs : Relists(cs, past) => Relists(cs, past')
  <2>1. CASE past' = past
    BY <2>1 DEF ImageInv, Framed
  <2>2. CASE past' = [past EXCEPT !.moves = past.moves + 1]
    BY <2>2, Spending
  <2>3. QED
    BY <2>1, <2>2
<1>2. ui.last = 1 => IsSeq(calls)
  BY DEF ImageInv, Framed
<1>3. ASSUME ui.last = 1
      PROVE  IsSeq(calls') /\ (Relists(calls, past) => Relists(calls', past))
  BY <1>2, <1>3, FewerCalls DEF Dropped
<1>4. ASSUME ui.last = 1
      PROVE  Sound(Tab, disk', past') /\ Relists(calls', past')
  <2>1. Fine(Tab, disk, past) /\ Relists(calls, past)
    BY <1>4 DEF ImageInv
  <2>2. Fine(Tab, disk, past')
    BY <1>1, <2>1
  <2>3. Relists(calls', past')
    BY <1>1, <1>3, <1>4, <2>1
  <2>4. QED
    BY <2>2, <2>3 DEF Fine
<1>5. QED
  BY <1>1, <1>3, <1>4, PageKept

LEMMA TasksStep ==
  ASSUME ImageInv, TaskEnds \/ TaskPurged \/ CancelServed \/ CancelFails
  PROVE  ImageInv'
<1>1. CASE TaskEnds
  BY <1>1, ServerStep DEF TaskEnds
<1>2. CASE TaskPurged
  BY <1>2, ServerStep DEF TaskPurged
<1>3. CASE CancelServed
  BY <1>3, ServerStep DEF CancelServed, Waiting, Pending
<1>4. CASE CancelFails
  BY <1>4, ServerStep DEF CancelFails, Waiting, Pending
<1>5. QED
  BY <1>1, <1>2, <1>3, <1>4

LEMMA ClockTicksStep ==
  ASSUME ImageInv, ClockTicks
  PROVE  ImageInv'
<1> DEFINE k == past
           k2 == past'
<1>1. DOMAIN past = PastFields /\ (ui.last = 1 => IsSeq(calls))
  BY DEF ImageInv, Framed
<1>2. /\ past' = [past EXCEPT !.now = past.now + 1]
      /\ UNCHANGED <<page, ui, mem, calls, disk>>
  BY DEF ClockTicks
<1>3. /\ DOMAIN k2 = PastFields /\ k2.now = k.now + 1
      /\ k2.ids = k.ids /\ k2.lostWrite = k.lostWrite
      /\ k2.kept = k.kept /\ k2.gone = k.gone /\ k2.back = k.back /\ k2.loose = k.loose
  BY <1>1, <1>2 DEF PastFields
<1>4. ASSUME ui.last = 1
      PROVE  Sound(Tab, disk', past') /\ Relists(calls', past')
  <2> DEFINE p == Tab
  <2>1. Sound(p, disk, k) /\ Relists(calls, k)
    BY <1>4 DEF ImageInv, Fine
  <2> HIDE DEF p, k, k2
  <2>2. k.ids \subseteq Convs /\ k.now \in Nat /\ (~k.lostWrite => k.back = {})
    BY <2>1 DEF Sound, Known, Ages, Fits
  <2>3. k2.now \in Nat /\ k.now <= k2.now
    BY <1>3, <2>2
  <2>4. Grows(k, k2)
    BY <1>3, <2>2, <2>3 DEF Grows
  <2>5. Sound(p, disk, k2)
    BY <2>1, <2>4, PastGrows
  <2>6. Relists(calls, k2)
    BY <1>3, <2>1, RelistsGrow
  <2>7. QED
    BY <1>2, <2>5, <2>6 DEF p, k2
<1>5. QED
  BY <1>1, <1>2, <1>3, <1>4, PageKept

(* The first visit.                                                        *)
LEMMA ImageInitInv ==
  ASSUME ImageInit
  PROVE  ImageInv
<1> DEFINE p == Tab
           k == past
           d == disk
<1>1. /\ page = "image"
      /\ ui = Opened(1, NoRefs, NoLoads)
      /\ mem = [run |-> [c \in Convs |-> NoRun], writes |-> <<>>]
      /\ calls = <<>>
      /\ disk \in {NoConvs} \cup {JustOne(c, Left(t)) : c \in Convs, t \in LeftTurns}
  BY DEF ImageInit
<1>2. \E n : past = [used |-> n, moves |-> 0, now |-> 0, lostWrite |-> FALSE,
                     ids |-> DOMAIN disk, gone |-> {}, kept |-> {}, back |-> {}, loose |-> {}]
  BY DEF ImageInit
<1>3. /\ DOMAIN k = PastFields
      /\ k.now = 0 /\ k.lostWrite = FALSE /\ k.ids = DOMAIN d
      /\ k.gone = {} /\ k.kept = {} /\ k.back = {} /\ k.loose = {}
  BY <1>2 DEF PastFields
<1>4. /\ DOMAIN ui = {"here", "last", "due", "ref", "load"}
      /\ ui.here = 1 /\ ui.last = 1 /\ ui.due = FALSE
      /\ ui.ref = [NoRefs EXCEPT ![1] = NoConvs]
      /\ ui.load = [NoLoads EXCEPT ![1] = [pc |-> "list", items |-> NoConvs]]
  BY <1>1 DEF Opened
<1>5. DOMAIN NoConvs = {} /\ 1 \in Mounts
  BY MountOne DEF NoConvs
<1>6. /\ DOMAIN p = PageFields /\ p.here = 1
      /\ DOMAIN p.ref = Mounts /\ DOMAIN p.ref[1] = {}
      /\ DOMAIN p.load = Mounts /\ p.load[1].pc = "list" /\ DOMAIN p.load[1].items = {}
      /\ \A m \in Mounts \ {1} : p.load[m].pc = "none"
      /\ p.run = [c \in Convs |-> NoRun] /\ p.writes = <<>>
  <2>1. /\ DOMAIN NoRefs = Mounts /\ DOMAIN NoLoads = Mounts
        /\ \A m \in Mounts : NoLoads[m].pc = "none"
    BY DEF NoRefs, NoLoads, NoLoad
  <2>2. /\ DOMAIN ui.ref = Mounts /\ ui.ref[1] = NoConvs
        /\ DOMAIN ui.load = Mounts /\ ui.load[1] = [pc |-> "list", items |-> NoConvs]
        /\ \A m \in Mounts \ {1} : ui.load[m] = NoLoads[m]
    BY <1>4, <1>5, <2>1
  <2>3. \A m \in Mounts \ {1} : ui.load[m].pc = "none"
    BY <2>1, <2>2
  <2>4. /\ DOMAIN p = PageFields /\ p.here = ui.here /\ p.ref = ui.ref /\ p.load = ui.load
        /\ p.run = mem.run /\ p.writes = mem.writes
    BY DEF Tab, PageFields
  <2> HIDE DEF p
  <2>5. p.run = [c \in Convs |-> NoRun] /\ p.writes = <<>>
    BY <1>1, <2>4
  <2>6. DOMAIN p.ref[1] = {} /\ p.load[1].pc = "list" /\ DOMAIN p.load[1].items = {}
    BY <1>5, <2>2, <2>4
  <2>7. QED
    BY <1>4, <2>2, <2>3, <2>4, <2>5, <2>6
<1>7. DOMAIN d \subseteq Convs /\ \A c \in DOMAIN d : d[c].at = 0
  <2>1. CASE d = NoConvs
    BY <1>5, <2>1
  <2>2. CASE d # NoConvs
    <3>1. PICK c \in Convs, t \in LeftTurns : d = JustOne(c, Left(t))
      BY <1>1, <2>2
    <3>2. Left(t).at = 0
      BY DEF Left
    <3>3. DOMAIN d = {c} /\ d[c].at = 0
      BY <3>1, <3>2 DEF JustOne
    <3>4. QED
      BY <3>3
  <2>3. QED
    BY <2>1, <2>2
<1>8. IsSeq(<<>>) /\ DOMAIN <<>> = {}
  BY DEF IsSeq
<1>9. IsSeq(calls) /\ DOMAIN calls = {}
  BY <1>1, <1>8
<1>10. Framed
  BY <1>1, <1>3, <1>4, <1>9 DEF Framed
<1> HIDE DEF p, k, d
<1>11. PageShape(p)
  <2>1. \A c \in Convs : p.run[c] = NoRun
    BY <1>6
  <2>2. QED
    BY <1>6, <1>8, <2>1 DEF PageShape
<1>12. \A c : Saving(p, c) = {}
  BY <1>6, <1>8 DEF Saving
<1>13. DOMAIN p.writes = {}
  BY <1>6, <1>8
<1>14. Awaited(p)
  BY <1>13 DEF Awaited
<1>15. Known(p, d, k)
  BY <1>3, <1>6, <1>7, <1>13 DEF Known
<1>16. Sticks(p, d, k)
  BY <1>3, <1>13 DEF Sticks
<1>17. Ages(p, d, k)
  <2>1. k.now \in Nat /\ \A c \in DOMAIN d : Aged(d[c], k)
    BY <1>3, <1>7 DEF Aged
  <2>2. QED
    BY <1>6, <1>12, <2>1 DEF Ages
<1>18. Fits(p, d, k)
  BY <1>3, <1>6, <1>12, <1>13 DEF Fits
<1>19. Watched(p, {})
  BY <1>6 DEF Watched
<1>20. Fine(p, d, k)
  BY <1>11, <1>14, <1>15, <1>16, <1>17, <1>18, <1>19 DEF Fine, Sound
<1>21. Relists(calls, k)
  BY <1>9 DEF Relists
<1>22. QED
  BY <1>10, <1>20, <1>21 DEF ImageInv, p, k, d

LEMMA ImageStep ==
  ASSUME ImageInv, ImageNext
  PROVE  ImageInv'
<1>1. CASE ImageSystem
  BY <1>1, CreateServedStep, CreatesAnsweredStep, PollServedStep, PollAnsweredStep, RunGoesOnStep,
     RunEndsStep, AutoStartStep, WriteDoneStep, RelistReadStep, RelistedStep, HistoryListedStep,
     HistoryFetchedStep DEF ImageSystem
<1>2. CASE ImageFaults
  BY <1>2, CreateFailsStep, PollFailsStep, WriteFailsStep, HistoryUnsyncedStep, TasksStep
  DEF ImageFaults
<1>3. CASE ImageUser
  BY <1>3, LeavePageStep, EnterPageStep, ReloadPageStep, SubmitStep, RegenerateStep,
     RetryImageStep, DeleteConversationStep, DeleteTurnPartStep, ClearHistoryStep,
     RenameConversationStep DEF ImageUser
<1>4. CASE TaskEnds \/ CancelServed
  BY <1>4, TasksStep
<1>5. CASE ClockTicks
  BY <1>5, ClockTicksStep
<1>6. QED
  BY <1>1, <1>2, <1>3, <1>4, <1>5 DEF ImageNext

LEMMA ImageStutters ==
  ASSUME ImageInv, UNCHANGED webVars
  PROVE  ImageInv'
<1>1. UNCHANGED <<page, ui, mem, calls, disk, past>>
  BY DEF webVars
<1>2. QED
  BY <1>1, ServerStep

(* What it is for.                                                         *)
LEMMA DeletedAreGone == ImageInv => DeleteSticks
<1> SUFFICES ASSUME ImageInv, ui.last = 1
             PROVE  (past.kept \ past.back) \cap DOMAIN disk = {}
  BY DEF DeleteSticks
<1>1. Sticks(Tab, disk, past)
  BY DEF ImageInv, Fine, Sound
<1>2. QED
  BY <1>1 DEF Sticks

LEMMA LoadingHasRunner == ImageInv => LoadingIsWatched
<1> SUFFICES ASSUME ImageInv, ui.last = 1, ui.here = 1, NEW c \in DOMAIN Here,
                    \E i \in DOMAIN Here[c].turns :
                      NeedsRun(Here[c].turns[i]) /\ ~Here[c].turns[i].cut
             PROVE  ui.due \/ mem.run[c] # NoRun
  BY DEF LoadingIsWatched
<1>1. Watched(Tab, {})
  BY DEF ImageInv, Fine
<1>2. Tab.here = 1 /\ Tab.ref[1] = Here /\ Tab.due = ui.due /\ Tab.run = mem.run
  BY DEF Tab, Here, ShownIn
<1>3. Ready(Here[c])
  BY DEF Ready
<1>4. QED
  BY <1>1, <1>2, <1>3 DEF Watched

LEMMA ShownIsStored == ImageInv => QuietMeansStored
<1> SUFFICES ASSUME ImageInv, Quiet, ui.last = 1, ui.here = 1, ~past.lostWrite,
                    NEW c \in DOMAIN Here \ (past.loose \cup past.gone)
             PROVE  c \in DOMAIN disk /\ disk[c] = Here[c]
  BY DEF QuietMeansStored
<1>1. Fits(Tab, disk, past)
  BY DEF ImageInv, Fine, Sound
<1>2. Tab.ref[1] = Here /\ Tab.writes = mem.writes
  BY DEF Tab, Here, ShownIn
<1>3. c \in DOMAIN Tab.ref[1] \ Excused(past)
  BY <1>2 DEF Excused
<1>4. Settles(Tab, disk, c, Here[c])
  BY <1>1, <1>2, <1>3 DEF Fits
<1>5. Saving(Tab, c) = {}
  <2>1. Tab.writes = <<>>
    BY <1>2 DEF Quiet
  <2>2. DOMAIN <<>> = {}
    OBVIOUS
  <2>3. DOMAIN Tab.writes = {}
    BY <2>1, <2>2
  <2>4. QED
    BY <2>3 DEF Saving
<1>6. QED
  BY <1>4, <1>5 DEF Settles

=============================================================================
