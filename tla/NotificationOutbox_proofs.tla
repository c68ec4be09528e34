---------------------- MODULE NotificationOutbox_proofs ----------------------
(***************************************************************************)
(* Nothing that NotificationOutbox queues is lost, given out twice or told *)
(* out of turn, for any number of events, faults, crashes and answers.     *)
(*                                                                         *)
(* A file is removed only after the ledger with its event is on disk, so   *)
(* what the running daemon knows is what its file knows, and a save that   *)
(* fails leaves both as they were but for deliveries and marks.  The       *)
(* theorems after TypeCorrect suppose that nothing has to be forgotten: a  *)
(* ledger that drops an event it has told takes it again for a new one.    *)
(* RoomForAll says when that is so.                                        *)
(***************************************************************************)
EXTENDS NotificationOutbox, FiniteSetTheorems, SequenceTheorems, TLAPS

-----------------------------------------------------------------------------
(* What Pick does: it runs through the positions S, each once.             *)
LEMMA PickRuns ==
    ASSUME NEW T, NEW s \in Seq(T), NEW S \in SUBSET (DOMAIN s)
    PROVE  /\ Pick(s, S) \in Seq(T)
           /\ Len(Pick(s, S)) = Cardinality(S)
           /\ Cardinality(S) <= Len(s)
           /\ \E f \in [1..Cardinality(S) -> S] :
                /\ \A k \in 1..Cardinality(S) : Pick(s, S)[k] = s[f[k]]
                /\ \A k, m \in 1..Cardinality(S) : f[k] = f[m] => k = m
                /\ \A i \in S : \E k \in 1..Cardinality(S) : f[k] = i
<1> DEFINE n == Len(s)
           c == Cardinality(S)
           Below(i) == {j \in S : j <= i}
           rank == [i \in S |-> Cardinality(Below(i))]
           f == [k \in 1..c |-> CHOOSE i \in S : Cardinality(Below(i)) = k]
<1>1. n \in Nat /\ DOMAIN s = 1..n /\ S \subseteq 1..n
  BY LenProperties
<1>2. IsFiniteSet(1..n) /\ Cardinality(1..n) = n
  <2>1. IsFiniteSet(1..n) /\ Cardinality(1..n) = IF 1 > n THEN 0 ELSE n - 1 + 1
    BY <1>1, FS_Interval
  <2> QED BY <1>1, <2>1
<1>3. IsFiniteSet(S) /\ c \in Nat /\ c <= n
  BY <1>1, <1>2, FS_Subset, FS_CardinalityType
<1>4. \A i \in S : /\ IsFiniteSet(Below(i)) /\ Cardinality(Below(i)) \in 1..c
  <2> TAKE i \in S
  <2>1. Below(i) \in SUBSET S /\ i \in Below(i)
    BY <1>1
  <2>2. IsFiniteSet(Below(i)) /\ Cardinality(Below(i)) <= c
    BY <1>3, <2>1, FS_Subset
  <2>3. Cardinality(Below(i)) \in Nat /\ Cardinality(Below(i)) # 0
    BY <2>1, <2>2, FS_CardinalityType, FS_EmptySet
  <2> QED BY <1>3, <2>2, <2>3
<1>5. \A i, j \in S : Cardinality(Below(i)) = Cardinality(Below(j)) => i = j
  <2>1. ASSUME NEW i \in S, NEW j \in S, i < j
        PROVE  Cardinality(Below(i)) # Cardinality(Below(j))
    <3>1. Below(i) \in SUBSET Below(j) /\ j \in Below(j) /\ j \notin Below(i)
      BY <1>1, <2>1
    <3> HIDE DEF Below
    <3> QED BY <1>4, <3>1, FS_Subset
  <2> HIDE DEF Below
  <2> QED BY <1>1, <2>1
<1> HIDE DEF Below
<1>6. rank \in Injection(S, 1..c)
  BY <1>4, <1>5 DEF Injection, IsInjective
<1>7. IsFiniteSet(1..c) /\ Cardinality(1..c) = c
  <2> HIDE DEF c
  <2>1. 1 \in Int /\ c \in Int
    BY <1>3
  <2>2. IsFiniteSet(1..c) /\ Cardinality(1..c) = IF 1 > c THEN 0 ELSE c - 1 + 1
    BY <2>1, FS_Interval
  <2> QED BY <1>3, <2>2
<1>8. rank \in Surjection(S, 1..c)
  <2> HIDE DEF rank, c
  <2>1. Cardinality(S) = Cardinality(1..c)
    BY <1>7 DEF c
  <2> QED BY <1>6, <1>7, <2>1, FS_Injection
<1>9. \A k \in 1..c : \E i \in S : Cardinality(Below(i)) = k
  BY <1>8 DEF Surjection
<1>10. f \in [1..c -> S] /\ \A k \in 1..c : Cardinality(Below(f[k])) = k
  BY <1>9
<1>11. \A k, m \in 1..c : f[k] = f[m] => k = m
  BY <1>10
<1>12. \A i \in S : \E k \in 1..c : f[k] = i
  <2> TAKE i \in S
  <2>1. Cardinality(Below(i)) \in 1..c
    BY <1>4
  <2>2. f[Cardinality(Below(i))] \in S
        /\ Cardinality(Below(f[Cardinality(Below(i))])) = Cardinality(Below(i))
    BY <1>10, <2>1
  <2> QED BY <1>5, <2>1, <2>2
<1>13. Pick(s, S) = [k \in 1..c |-> s[f[k]]]
  BY DEF Pick, Below
<1> HIDE DEF f, c
<1>14. \A k \in 1..c : s[f[k]] \in T
  BY <1>1, <1>10
<1>15. Pick(s, S) \in Seq(T) /\ Len(Pick(s, S)) = c
  BY <1>3, <1>13, <1>14
<1>16. \A k \in 1..c : Pick(s, S)[k] = s[f[k]]
  BY <1>13
<1> QED BY <1>3, <1>10, <1>11, <1>12, <1>15, <1>16 DEF c, n

(* What is picked, and that nothing is picked twice that was there once.   *)
LEMMA PickIs ==
    ASSUME NEW T, NEW s \in Seq(T), NEW S \in SUBSET (DOMAIN s)
    PROVE  /\ Pick(s, S) \in Seq(T)
           /\ DOMAIN Pick(s, S) = 1..Len(Pick(s, S))
           /\ Len(Pick(s, S)) <= Len(s)
           /\ Range(Pick(s, S)) = {s[i] : i \in S}
           /\ (\A i, j \in S : s[i] = s[j] => i = j) =>
                \A k, m \in DOMAIN Pick(s, S) : Pick(s, S)[k] = Pick(s, S)[m] => k = m
<1> DEFINE p == Pick(s, S)
           c == Cardinality(S)
<1>1. /\ p \in Seq(T) /\ Len(p) = c /\ c <= Len(s)
      /\ \E f \in [1..c -> S] :
           /\ \A k \in 1..c : p[k] = s[f[k]]
           /\ \A k, m \in 1..c : f[k] = f[m] => k = m
           /\ \A i \in S : \E k \in 1..c : f[k] = i
  BY PickRuns
<1> HIDE DEF p, c
<1>2. PICK f \in [1..c -> S] : /\ \A k \in 1..c : p[k] = s[f[k]]
                               /\ \A k, m \in 1..c : f[k] = f[m] => k = m
                               /\ \A i \in S : \E k \in 1..c : f[k] = i
  BY <1>1
<1>3. DOMAIN p = 1..c
  BY <1>1, LenProperties
<1>4. Range(p) = {s[i] : i \in S}
  BY <1>2, <1>3 DEF Range
<1>5. ASSUME \A i, j \in S : s[i] = s[j] => i = j
      PROVE  \A k, m \in DOMAIN p : p[k] = p[m] => k = m
  BY <1>2, <1>3, <1>5
<1> QED BY <1>1, <1>3, <1>4, <1>5 DEF p

-----------------------------------------------------------------------------
(* The drain.                                                              *)

Injective(s) == \A i, j \in DOMAIN s : s[i] = s[j] => i = j

LedgerOK(l) == l \in Ledgers /\ Published(l) /\ Len(l.events) <= MaxLedger

(* TypeOK in a form the steps can use. *)
TypeInv ==
    /\ LedgerOK(mem) /\ LedgerOK(disk)
    /\ runtimeError \in BOOLEAN /\ dirty \in BOOLEAN
    /\ pc \in Steps
    /\ queue \in Seq(Events) /\ Injective(queue)
    /\ answers \subseteq Answers
    /\ consumed \in [events : Seq(Events), answers : SUBSET Answers]
    /\ running \subseteq Events /\ late \subseteq Events
    /\ clock \in 0..MaxEpisodes
    /\ faults \in [write : Nat, queue : Nat, spawn : Nat, crash : Nat, hook : Nat]
    /\ told \in Seq(Edges)
    /\ raised \subseteq [alert : Alerts, queued : BOOLEAN]
    /\ sent \in [Events -> Nat]

(* Answers and the time limit change nothing of a record but its delivery, *)
(* and leave what was delivered.                                           *)
Better(r, q) ==
    /\ q.event = r.event /\ q.dispatched = r.dispatched
    /\ \A t \in Transports : r.delivery[t] = "delivered" => q.delivery[t] = "delivered"

LEMMA MergedIs ==
    ASSUME NEW r \in Records
    PROVE  Merged(r) \in Records /\ Better(r, Merged(r))
<1> DEFINE given(t) == {a.status : a \in {b \in answers : b.event = r.event
                                                          /\ b.transport = t}}
           d == [t \in Transports |->
                   CASE "delivered" \in given(t) \union {r.delivery[t]} -> "delivered"
                     [] given(t) = {"failed"} /\ r.delivery[t] # "delivered" -> "failed"
                     [] OTHER -> r.delivery[t]]
<1>1. Merged(r) = [r EXCEPT !.delivery = d]
  BY DEF Merged
<1>2. r.delivery \in [Transports -> Statuses]
  BY DEF Records
<1> HIDE DEF given
<1>3. \A t \in Transports : d[t] \in Statuses
  BY <1>2 DEF Statuses
<1>4. \A t \in Transports : r.delivery[t] = "delivered" => d[t] = "delivered"
  <2> TAKE t \in Transports
  <2> HAVE r.delivery[t] = "delivered"
  <2>1. "delivered" \in given(t) \union {r.delivery[t]}
    OBVIOUS
  <2> QED BY <2>1
<1> HIDE DEF d
<1>5. d \in [Transports -> Statuses]
  BY <1>3 DEF d
<1> QED BY <1>1, <1>4, <1>5 DEF Records, Better

LEMMA ExpiredIs ==
    ASSUME NEW r \in Records
    PROVE  Expired(r) \in Records /\ Better(r, Expired(r))
<1>1. r.delivery \in [Transports -> Statuses] /\ "remote" \in Transports
      /\ "failed" \in Statuses
  BY DEF Records, Transports, Statuses
<1> DEFINE d == [r.delivery EXCEPT !["remote"] = "failed"]
<1>2. d \in [Transports -> Statuses]
  BY <1>1
<1>3. \A t \in Transports : t # "remote" => d[t] = r.delivery[t]
  BY <1>1
<1> HIDE DEF d
<1>4. CASE Overdue(r)
  <2>1. Expired(r) = [r EXCEPT !.delivery = d]
    BY <1>4 DEF Expired, d
  <2>2. r.delivery["remote"] # "delivered"
    BY <1>4 DEF Overdue
  <2> QED BY <1>2, <1>3, <2>1, <2>2 DEF Records, Better
<1>5. CASE ~Overdue(r)
  BY <1>5 DEF Expired, Better
<1> QED BY <1>4, <1>5

(* A record as the drain writes it. *)
Settled(r) == Expired(Merged(r))

LEMMA SettledIs ==
    ASSUME NEW r \in Records
    PROVE  Settled(r) \in Records /\ Better(r, Settled(r))
<1>1. Merged(r) \in Records /\ Better(r, Merged(r))
  BY MergedIs
<1>2. Settled(r) \in Records /\ Better(Merged(r), Settled(r))
  BY <1>1, ExpiredIs DEF Settled
<1> QED BY <1>1, <1>2 DEF Better

LEMMA TakenIs ==
    ASSUME NEW e \in Events
    PROVE  Taken(e) \in Records /\ Taken(e).event = e /\ Taken(e).dispatched = FALSE
<1> DEFINE d == [remote |-> IF Channels THEN "pending" ELSE "skipped", hook |-> "pending"]
<1>1. d \in [Transports -> Statuses]
  BY DEF Transports, Statuses
<1>2. Taken(e) = [event |-> e, delivery |-> d, dispatched |-> FALSE]
  BY DEF Taken
<1> HIDE DEF d
<1> QED BY <1>1, <1>2 DEF Records

(* What arrives is what waits and is not known, each event once.           *)
LEMMA ArrivedIs ==
    ASSUME TypeInv
    PROVE  /\ Arrived \in Seq(Events)
           /\ DOMAIN Arrived = 1..Len(Arrived)
           /\ Injective(Arrived)
           /\ Range(Arrived) = Range(queue) \ Known(mem)
<1> DEFINE S == {i \in DOMAIN queue : queue[i] \notin Known(mem)}
<1>1. queue \in Seq(Events) /\ S \in SUBSET (DOMAIN queue) /\ Injective(queue)
  BY DEF TypeInv
<1>2. Arrived = Pick(queue, S)
  BY DEF Arrived
<1>3. {queue[i] : i \in S} = Range(queue) \ Known(mem)
  BY DEF Range
<1> HIDE DEF S
<1>4. \A i, j \in S : queue[i] = queue[j] => i = j
  BY <1>1 DEF Injective
<1> QED BY <1>1, <1>2, <1>3, <1>4, PickIs DEF Injective

(* The ledger and what arrives. *)
Gathered == mem.events \o [i \in DOMAIN Arrived |-> Taken(Arrived[i])]

LEMMA GatheredIs ==
    ASSUME TypeInv
    PROVE  /\ Gathered \in Seq(Records)
           /\ Len(Gathered) = Len(mem.events) + Len(Arrived)
           /\ Len(mem.events) \in Nat /\ Len(Arrived) \in Nat
           /\ mem.events \in Seq(Records) /\ DOMAIN mem.events = 1..Len(mem.events)
           /\ DOMAIN Gathered = 1..Len(Gathered)
           /\ \A i \in 1..Len(mem.events) : Gathered[i] = mem.events[i]
           /\ \A i \in 1..Len(Arrived) :
                Gathered[Len(mem.events) + i] = Taken(Arrived[i])
           /\ \A i \in DOMAIN Gathered : i \notin 1..Len(mem.events) =>
                \E k \in 1..Len(Arrived) : i = Len(mem.events) + k
<1> DEFINE new == [i \in DOMAIN Arrived |-> Taken(Arrived[i])]
           n == Len(mem.events)
           m == Len(Arrived)
<1>1. mem.events \in Seq(Records) /\ DOMAIN mem.events = 1..n /\ n \in Nat
  BY LenProperties DEF TypeInv, LedgerOK, Ledgers
<1>2. Arrived \in Seq(Events) /\ DOMAIN Arrived = 1..m /\ m \in Nat
  BY ArrivedIs, LenProperties
<1>3. \A i \in 1..m : Taken(Arrived[i]) \in Records
  <2> TAKE i \in 1..m
  <2>1. Arrived[i] \in Events
    BY <1>2, ElementOfSeq
  <2> QED BY <2>1, TakenIs
<1>4. new \in Seq(Records) /\ Len(new) = m /\ \A i \in 1..m : new[i] = Taken(Arrived[i])
  <2>1. new = [i \in 1..m |-> Taken(Arrived[i])]
    BY <1>2
  <2> HIDE DEF m
  <2> QED BY <1>2, <1>3, <2>1
<1>5. Gathered = mem.events \o new
  BY DEF Gathered
<1> HIDE DEF new
<1>6. /\ Gathered \in Seq(Records) /\ Len(Gathered) = n + m
      /\ \A i \in 1..(n + m) : Gathered[i] = IF i <= n THEN mem.events[i] ELSE new[i - n]
  <2> HIDE DEF n, m
  <2>1. Len(mem.events) = n /\ Len(new) = m
    BY <1>4 DEF n
  <2>2. /\ mem.events \o new \in Seq(Records)
        /\ Len(mem.events \o new) = Len(mem.events) + Len(new)
        /\ \A i \in 1..(Len(mem.events) + Len(new)) :
             (mem.events \o new)[i] =
               IF i <= Len(mem.events) THEN mem.events[i] ELSE new[i - Len(mem.events)]
    BY <1>1, <1>4, ConcatProperties
  <2> QED BY <1>5, <2>1, <2>2
<1>7. DOMAIN Gathered = 1..(n + m)
  BY <1>6, LenProperties
<1> HIDE DEF n, m
<1>8. \A i \in 1..n : Gathered[i] = mem.events[i]
  BY <1>1, <1>2, <1>6
<1>9. \A i \in 1..m : Gathered[n + i] = Taken(Arrived[i])
  <2> TAKE i \in 1..m
  <2>1. n + i \in 1..(n + m) /\ ~(n + i <= n) /\ (n + i) - n = i
    BY <1>1, <1>2
  <2> QED BY <1>4, <1>6, <2>1
<1>10. \A i \in 1..(n + m) : i \notin 1..n => \E k \in 1..m : i = n + k
  <2> TAKE i \in 1..(n + m)
  <2> HAVE i \notin 1..n
  <2>1. i - n \in 1..m /\ i = n + (i - n)
    BY <1>1, <1>2
  <2> QED BY <2>1
<1> QED BY <1>1, <1>2, <1>6, <1>7, <1>8, <1>9, <1>10 DEF n, m

(* No event is gathered twice.                                             *)
LEMMA GatheredOnce ==
    ASSUME TypeInv
    PROVE  \A i, j \in DOMAIN Gathered : Gathered[i].event = Gathered[j].event => i = j
<1> DEFINE n == Len(mem.events)
           m == Len(Arrived)
<1>1. /\ n \in Nat /\ m \in Nat
      /\ DOMAIN mem.events = 1..n /\ DOMAIN Gathered = 1..Len(Gathered)
      /\ \A i \in 1..n : Gathered[i] = mem.events[i]
      /\ \A i \in 1..m : Gathered[n + i] = Taken(Arrived[i])
      /\ \A i \in DOMAIN Gathered : i \notin 1..n => \E k \in 1..m : i = n + k
  BY GatheredIs
<1>2. /\ Arrived \in Seq(Events) /\ DOMAIN Arrived = 1..m /\ Injective(Arrived)
      /\ Range(Arrived) = Range(queue) \ Known(mem)
  BY ArrivedIs
<1> HIDE DEF n, m
<1>3. \A i \in 1..n : Gathered[i].event \in Known(mem)
  BY <1>1 DEF Known
<1>4. \A k \in 1..m : /\ Gathered[n + k].event = Arrived[k]
                      /\ Arrived[k] \notin Known(mem)
  <2> TAKE k \in 1..m
  <2>1. Arrived[k] \in Events
    BY <1>2, ElementOfSeq DEF m
  <2>2. Arrived[k] \in Range(Arrived)
    BY <1>2 DEF Range
  <2> QED BY <1>1, <1>2, <2>1, <2>2, TakenIs
<1> TAKE i, j \in DOMAIN Gathered
<1> HAVE Gathered[i].event = Gathered[j].event
<1>5. CASE i \in 1..n /\ j \in 1..n
  BY <1>1, <1>5 DEF TypeInv, LedgerOK, Published
<1>6. CASE i \in 1..n /\ j \notin 1..n
  <2>1. PICK k \in 1..m : j = n + k
    BY <1>1, <1>6
  <2>2. Gathered[i].event \in Known(mem) /\ Gathered[j].event \notin Known(mem)
    BY <1>3, <1>4, <1>6, <2>1
  <2> QED BY <2>2
<1>7. CASE i \notin 1..n /\ j \in 1..n
  <2>1. PICK k \in 1..m : i = n + k
    BY <1>1, <1>7
  <2>2. Gathered[j].event \in Known(mem) /\ Gathered[i].event \notin Known(mem)
    BY <1>3, <1>4, <1>7, <2>1
  <2> QED BY <2>2
<1>8. CASE i \notin 1..n /\ j \notin 1..n
  <2>1. PICK k \in 1..m : i = n + k
    BY <1>1, <1>8
  <2>2. PICK l \in 1..m : j = n + l
    BY <1>1, <1>8
  <2>3. Arrived[k] = Arrived[l]
    BY <1>4, <2>1, <2>2
  <2> QED BY <1>2, <2>1, <2>2, <2>3 DEF Injective
<1> QED BY <1>5, <1>6, <1>7, <1>8

(* Nothing has to be forgotten in the next drain. *)
Roomy == Len(mem.events) + Len(Arrived) <= MaxLedger

(* The drain settles what was gathered, and forgets the oldest of it when   *)
(* there is no room.                                                        *)
LEMMA DrainedIs ==
    ASSUME TypeInv
    PROVE  /\ Drained \in Seq(Records) /\ Len(Drained) <= MaxLedger
           /\ DOMAIN Drained = 1..Len(Drained)
           /\ \E k \in Nat :
                /\ k + Len(Drained) = Len(Gathered)
                /\ \A i \in DOMAIN Drained :
                     k + i \in DOMAIN Gathered /\ Drained[i] = Settled(Gathered[k + i])
                /\ Roomy => k = 0
<1> DEFINE n == Len(Gathered)
           all == [i \in DOMAIN Gathered |-> Settled(Gathered[i])]
           k == IF Len(all) > MaxLedger THEN Len(all) - MaxLedger ELSE 0
<1>1. /\ Gathered \in Seq(Records) /\ DOMAIN Gathered = 1..n /\ n \in Nat
      /\ n = Len(mem.events) + Len(Arrived)
  BY GatheredIs, LenProperties
<1>2. \A i \in 1..n : Gathered[i] \in Records /\ Settled(Gathered[i]) \in Records
  <2> TAKE i \in 1..n
  <2>1. Gathered[i] \in Records
    BY <1>1, ElementOfSeq
  <2> QED BY <2>1, SettledIs
<1>3. Drained = Latest(all)
  BY DEF Drained, Gathered, Settled
<1> HIDE DEF n
<1>4. all = [i \in 1..n |-> Settled(Gathered[i])]
  BY <1>1
<1>5. all \in Seq(Records) /\ Len(all) = n
  BY <1>1, <1>2, <1>4
<1>6. \A i \in 1..n : all[i] = Settled(Gathered[i]) /\ all[i] \in Records
  BY <1>2, <1>4
<1> HIDE DEF all
<1>7. MaxLedger \in Nat \ {0}
  BY OutboxAssumption
<1>8. k \in Nat /\ n - k <= MaxLedger /\ (k = 0 \/ k + 1 <= n) /\ (n <= MaxLedger => k = 0)
      /\ k <= n
  BY <1>1, <1>5, <1>7
<1>9. Drained = SubSeq(all, k + 1, n)
  BY <1>3, <1>5 DEF Latest
<1> HIDE DEF k
<1>10. k + 1 \in Int /\ n \in Int /\ \A i \in (k + 1)..n : all[i] \in Records
  BY <1>1, <1>6, <1>8
<1>11. /\ Drained \in Seq(Records)
       /\ Len(Drained) = IF k + 1 <= n THEN n - (k + 1) + 1 ELSE 0
       /\ \A i \in 1..(n - (k + 1) + 1) : Drained[i] = all[(k + 1) + i - 1]
  BY <1>9, <1>10, SubSeqProperties
<1>12. Len(Drained) = n - k
  BY <1>1, <1>8, <1>11
<1>13. DOMAIN Drained = 1..(n - k)
  BY <1>11, <1>12, LenProperties
<1>14. \A i \in 1..(n - k) : k + i \in 1..n /\ Drained[i] = Settled(Gathered[k + i])
  <2> TAKE i \in 1..(n - k)
  <2>1. k + i \in 1..n /\ (k + 1) + i - 1 = k + i /\ i \in 1..(n - (k + 1) + 1)
    BY <1>1, <1>8
  <2> QED BY <1>6, <1>11, <2>1
<1>15. Roomy => k = 0
  BY <1>1, <1>8 DEF Roomy
<1>16. k + Len(Drained) = n /\ Len(Drained) <= MaxLedger
  BY <1>1, <1>8, <1>12
<1> QED BY <1>1, <1>8, <1>11, <1>12, <1>13, <1>14, <1>15, <1>16 DEF n

LEMMA DrainedOnce ==
    ASSUME TypeInv
    PROVE  LedgerOK([mem EXCEPT !.events = Drained])
<1> DEFINE l == [mem EXCEPT !.events = Drained]
<1>1. Drained \in Seq(Records) /\ Len(Drained) <= MaxLedger
      /\ DOMAIN Drained = 1..Len(Drained) /\ Len(Drained) \in Nat
  BY DrainedIs, LenProperties
<1>2. PICK k \in Nat : \A i \in DOMAIN Drained :
                         k + i \in DOMAIN Gathered /\ Drained[i] = Settled(Gathered[k + i])
  BY DrainedIs
<1>3. Gathered \in Seq(Records) /\ DOMAIN Gathered = 1..Len(Gathered)
  BY GatheredIs
<1>4. \A i \in DOMAIN Drained : Drained[i].event = Gathered[k + i].event
  <2> TAKE i \in DOMAIN Drained
  <2>1. Gathered[k + i] \in Records
    BY <1>2, <1>3, ElementOfSeq
  <2> QED BY <1>2, <2>1, SettledIs DEF Better
<1>5. \A i, j \in DOMAIN Drained : Drained[i].event = Drained[j].event => i = j
  <2> TAKE i, j \in DOMAIN Drained
  <2> HAVE Drained[i].event = Drained[j].event
  <2>1. k + i = k + j
    BY <1>2, <1>4, GatheredOnce
  <2> QED BY <1>1, <2>1
<1>6. mem \in Ledgers
  BY DEF TypeInv, LedgerOK
<1>7. l \in Ledgers /\ l.events = Drained
  BY <1>1, <1>6 DEF Ledgers
<1> QED BY <1>1, <1>5, <1>7 DEF LedgerOK, Published

(* What is left when a drain gives back what it took. *)
GivenBack ==
    Pick(Drained, {i \in DOMAIN Drained : Drained[i].event \notin Range(Arrived)})

LEMMA GivenBackIs ==
    ASSUME TypeInv
    PROVE  /\ LedgerOK([mem EXCEPT !.events = GivenBack])
           /\ GivenBack \in Seq(Records) /\ DOMAIN GivenBack = 1..Len(GivenBack)
           /\ \A k \in DOMAIN GivenBack : \E i \in DOMAIN Drained :
                GivenBack[k] = Drained[i] /\ Drained[i].event \notin Range(Arrived)
           /\ \A i \in DOMAIN Drained : Drained[i].event \notin Range(Arrived) =>
                \E k \in DOMAIN GivenBack : GivenBack[k] = Drained[i]
<1> DEFINE S == {i \in DOMAIN Drained : Drained[i].event \notin Range(Arrived)}
           l == [mem EXCEPT !.events = GivenBack]
<1>1. Drained \in Seq(Records) /\ Len(Drained) <= MaxLedger /\ Len(Drained) \in Nat
  BY DrainedIs, LenProperties
<1>2. S \in SUBSET (DOMAIN Drained) /\ GivenBack = Pick(Drained, S)
  BY DEF GivenBack
<1>3. /\ mem \in Ledgers
      /\ \A i, j \in DOMAIN Drained : Drained[i].event = Drained[j].event => i = j
  <2>1. mem \in Ledgers /\ LedgerOK([mem EXCEPT !.events = Drained])
    BY DrainedOnce DEF TypeInv, LedgerOK
  <2> QED BY <2>1 DEF LedgerOK, Published, Ledgers
<1>4. /\ GivenBack \in Seq(Records) /\ Len(GivenBack) <= Len(Drained)
      /\ DOMAIN GivenBack = 1..Len(GivenBack)
      /\ Range(GivenBack) = {Drained[i] : i \in S}
      /\ (\A i, j \in S : Drained[i] = Drained[j] => i = j) =>
           \A k, m \in DOMAIN GivenBack : GivenBack[k] = GivenBack[m] => k = m
  <2> HIDE DEF S
  <2> QED BY <1>1, <1>2, PickIs
<1>5. \A k \in DOMAIN GivenBack : \E i \in S : GivenBack[k] = Drained[i]
  BY <1>4 DEF Range
<1>6. \A i \in S : \E k \in DOMAIN GivenBack : GivenBack[k] = Drained[i]
  BY <1>4 DEF Range
<1>7. \A k, m \in DOMAIN GivenBack : GivenBack[k].event = GivenBack[m].event => k = m
  <2> TAKE k, m \in DOMAIN GivenBack
  <2> HAVE GivenBack[k].event = GivenBack[m].event
  <2>1. PICK i \in S : GivenBack[k] = Drained[i]
    BY <1>5
  <2>2. PICK j \in S : GivenBack[m] = Drained[j]
    BY <1>5
  <2>3. i = j
    BY <1>3, <2>1, <2>2
  <2> QED BY <1>3, <1>4, <2>1, <2>2, <2>3
<1>8. Len(GivenBack) \in Nat /\ Len(GivenBack) <= MaxLedger
  <2>1. Len(GivenBack) \in Nat /\ MaxLedger \in Nat
    BY <1>4, LenProperties, OutboxAssumption
  <2> QED BY <1>1, <1>4, <2>1
<1>9. l \in Ledgers /\ l.events = GivenBack
  BY <1>3, <1>4 DEF Ledgers
<1>10. LedgerOK(l)
  BY <1>7, <1>8, <1>9 DEF LedgerOK, Published
<1> QED BY <1>4, <1>5, <1>6, <1>10

-----------------------------------------------------------------------------
(* Types.                                                                  *)

FaultTypes == [write : Nat, queue : Nat, spawn : Nat, crash : Nat, hook : Nat]

LEMMA FaultType ==
    ASSUME faults \in FaultTypes
    PROVE  /\ [faults EXCEPT !.write = @ + 1] \in FaultTypes
           /\ [faults EXCEPT !.queue = @ + 1] \in FaultTypes
           /\ [faults EXCEPT !.spawn = @ + 1] \in FaultTypes
           /\ [faults EXCEPT !.crash = @ + 1] \in FaultTypes
           /\ [faults EXCEPT !.hook = @ + 1] \in FaultTypes
BY DEF FaultTypes

LEMMA SaveType ==
    ASSUME TypeInv, NEW l, LedgerOK(l), Saved(l) \/ NotSaved(l)
    PROVE  LedgerOK(mem') /\ LedgerOK(disk') /\ faults' \in FaultTypes
<1>1. LedgerOK(disk) /\ faults \in FaultTypes
  BY DEF TypeInv, FaultTypes
<1>2. CASE Saved(l)
  BY <1>1, <1>2 DEF Saved
<1>3. CASE NotSaved(l)
  <2>1. mem' = l /\ disk' = disk
    BY <1>3 DEF NotSaved
  <2>2. faults' \in FaultTypes
    BY <1>1, <1>3 DEF NotSaved, FaultTypes
  <2> QED BY <1>1, <2>1, <2>2
<1> QED BY <1>2, <1>3

(* A record of the ledger is replaced by one of the same event.            *)
LEMMA Rewritten ==
    ASSUME NEW l, LedgerOK(l), NEW i \in DOMAIN l.events, NEW r \in Records,
           r.event = l.events[i].event
    PROVE  LedgerOK([l EXCEPT !.events[i] = r])
<1> DEFINE events == [l.events EXCEPT ![i] = r]
           m == [l EXCEPT !.events = events]
<1>1. l \in Ledgers /\ l.events \in Seq(Records) /\ DOMAIN l.events = 1..Len(l.events)
  BY LenProperties DEF LedgerOK, Ledgers
<1>2. events \in Seq(Records) /\ Len(events) = Len(l.events)
      /\ DOMAIN events = DOMAIN l.events
      /\ \A j \in 1..Len(l.events) : events[j] = IF j = i THEN r ELSE l.events[j]
  BY <1>1, ExceptSeq
<1>3. \A j \in DOMAIN events : events[j].event = l.events[j].event
  BY <1>1, <1>2
<1> HIDE DEF events
<1>4. m \in Ledgers /\ m.events = events
  BY <1>1, <1>2 DEF Ledgers
<1>5. LedgerOK(m)
  BY <1>2, <1>3, <1>4 DEF LedgerOK, Published
<1>6. m = [l EXCEPT !.events[i] = r]
  BY DEF events
<1> QED BY <1>5, <1>6

LEMMA FirstIndex ==
    ASSUME NEW S \in SUBSET Nat, S # {}
    PROVE  Min(S) \in S
<1>1. PICK d \in S : \A m \in S : d <= m
  <2> DEFINE R == OpToRel(<, Nat)
  <2>1. \A x, y \in Nat : x < y => <<x, y>> \in R
    BY DEF OpToRel
  <2>2. IsWellFoundedOn(R, Nat)
    BY NatLessThanWellFounded
  <2> HIDE DEF R
  <2>3. PICK x \in S : \A y \in S : ~(<<y, x>> \in R)
    BY <2>2, WFMin
  <2>4. \A y \in S : ~(y < x)
    BY <2>1, <2>3
  <2> QED BY <2>4
<1> QED BY <1>1 DEF Min

(* Who is dispatched next has a record that waits. *)
LEMMA NextToGo ==
    ASSUME TypeInv, Undispatched # {}
    PROVE  /\ Min(Undispatched) \in DOMAIN mem.events
           /\ mem.events[Min(Undispatched)] \in Records
           /\ mem.events[Min(Undispatched)].delivery["remote"] = "pending"
           /\ mem.events[Min(Undispatched)].dispatched = FALSE
<1>1. mem.events \in Seq(Records) /\ DOMAIN mem.events = 1..Len(mem.events)
      /\ Len(mem.events) \in Nat
  BY LenProperties DEF TypeInv, LedgerOK, Ledgers
<1>2. Undispatched \in SUBSET Nat
  BY <1>1 DEF Undispatched
<1>3. Min(Undispatched) \in Undispatched
  BY <1>2, FirstIndex
<1>4. Min(Undispatched) \in DOMAIN mem.events
      /\ mem.events[Min(Undispatched)].delivery["remote"] = "pending"
      /\ ~mem.events[Min(Undispatched)].dispatched
  BY <1>3 DEF Undispatched
<1>5. mem.events[Min(Undispatched)] \in Records
  BY <1>1, <1>4, ElementOfSeq
<1>6. mem.events[Min(Undispatched)].dispatched \in BOOLEAN
  BY <1>5 DEF Records
<1> QED BY <1>4, <1>5, <1>6

(* A file is written for an event that is new. *)
LEMMA QueuedIs ==
    ASSUME TypeInv, NEW e \in Events
    PROVE  /\ Queued(e) \in Seq(Events) /\ Injective(Queued(e))
           /\ Range(Queued(e)) \subseteq Range(queue) \union {e}
           /\ Range(queue) \subseteq Range(Queued(e))
           /\ e \in Range(Queued(e)) \union Known(mem)
           /\ e \in Known(mem) \union Range(queue) => Queued(e) = queue
           /\ e \notin Known(mem) \union Range(queue) => Queued(e) # queue
<1>1. queue \in Seq(Events) /\ Injective(queue) /\ DOMAIN queue = 1..Len(queue)
      /\ Len(queue) \in Nat
  BY LenProperties DEF TypeInv
<1>2. CASE e \in Known(mem) \union Range(queue)
  BY <1>1, <1>2 DEF Queued
<1>3. CASE e \notin Known(mem) \union Range(queue)
  <2> DEFINE q == Append(queue, e)
  <2>1. Queued(e) = q
    BY <1>3 DEF Queued
  <2>2. /\ q \in Seq(Events) /\ Len(q) = Len(queue) + 1
        /\ \A i \in 1..Len(queue) : q[i] = queue[i]
        /\ q[Len(queue) + 1] = e
    BY <1>1, AppendProperties
  <2>3. DOMAIN q = 1..(Len(queue) + 1)
    BY <2>2, LenProperties
  <2> HIDE DEF q
  <2>4. \A i \in 1..Len(queue) : queue[i] # e
    BY <1>1, <1>3 DEF Range
  <2>5. Injective(q)
    <3> SUFFICES ASSUME NEW i \in 1..(Len(queue) + 1), NEW j \in 1..(Len(queue) + 1),
                        q[i] = q[j]
                 PROVE  i = j
      BY <2>3 DEF Injective
    <3>1. CASE i \in 1..Len(queue) /\ j \in 1..Len(queue)
      BY <1>1, <2>2, <3>1 DEF Injective
    <3>2. CASE i = Len(queue) + 1 \/ j = Len(queue) + 1
      BY <1>1, <2>2, <2>4, <3>2
    <3> QED BY <1>1, <3>1, <3>2
  <2>6. Range(q) = Range(queue) \union {e}
    <3>1. \A i \in 1..(Len(queue) + 1) : q[i] \in Range(queue) \union {e}
      BY <1>1, <2>2 DEF Range
    <3>2. \A i \in 1..Len(queue) : queue[i] \in Range(q)
      <4> TAKE i \in 1..Len(queue)
      <4>1. i \in DOMAIN q /\ q[i] = queue[i]
        BY <1>1, <2>2, <2>3
      <4> QED BY <4>1 DEF Range
    <3>3. e \in Range(q)
      <4>1. Len(queue) + 1 \in DOMAIN q
        BY <1>1, <2>3
      <4> QED BY <2>2, <4>1 DEF Range
    <3> QED BY <1>1, <2>3, <3>1, <3>2, <3>3 DEF Range
  <2>7. q # queue
    BY <1>1, <2>2
  <2> QED BY <1>3, <2>1, <2>2, <2>5, <2>6, <2>7
<1> QED BY <1>2, <1>3

LEMMA InitType == Init => TypeInv
<1> SUFFICES ASSUME Init PROVE TypeInv
  OBVIOUS
<1> USE OutboxAssumption
<1>1. EmptyLedger \in Ledgers /\ EmptyLedger.events = <<>>
  BY DEF EmptyLedger, Ledgers
<1>2. Len(<<>>) = 0 /\ DOMAIN <<>> = {}
  OBVIOUS
<1>3. LedgerOK(EmptyLedger)
  BY <1>1, <1>2 DEF LedgerOK, Published
<1>4. <<>> \in Seq(Events) /\ <<>> \in Seq(Edges) /\ Injective(<<>>)
  BY <1>2 DEF Injective
<1>5. faults \in FaultTypes /\ sent \in [Events -> Nat] /\ clock \in 0..MaxEpisodes
  BY DEF Init, FaultTypes
<1>6. consumed \in [events : Seq(Events), answers : SUBSET Answers]
  BY <1>4 DEF Init
<1>7. LedgerOK(mem) /\ LedgerOK(disk)
  BY <1>3 DEF Init
<1> QED BY <1>4, <1>5, <1>6, <1>7 DEF Init, TypeInv, Steps, FaultTypes

LEMMA DrainType == TypeInv /\ Drain => TypeInv'
<1> SUFFICES ASSUME TypeInv, Drain PROVE TypeInv'
  OBVIOUS
<1> DEFINE l == [mem EXCEPT !.events = Drained]
           g == [mem EXCEPT !.events = GivenBack]
<1>1. LedgerOK(l) /\ LedgerOK(g)
  BY DrainedOnce, GivenBackIs
<1>2. ToConsume \in [events : Seq(Events), answers : SUBSET Answers]
  BY ArrivedIs DEF TypeInv, ToConsume
<1>3. \/ UNCHANGED <<mem, disk, faults, consumed>> /\ pc' = "dispatch"
      \/ Saved(l) /\ consumed' = ToConsume /\ pc' = "remove"
      \/ NotSaved(g) /\ pc' = "work" /\ UNCHANGED consumed
  BY DEF Drain, GivenBack
<1> HIDE DEF l, g
<1>4. LedgerOK(mem') /\ LedgerOK(disk') /\ faults' \in FaultTypes
  <2>1. CASE UNCHANGED <<mem, disk, faults, consumed>>
    BY <2>1 DEF TypeInv, FaultTypes
  <2>2. CASE Saved(l)
    BY <1>1, <2>2, SaveType
  <2>3. CASE NotSaved(g)
    BY <1>1, <2>3, SaveType
  <2> QED BY <1>3, <2>1, <2>2, <2>3
<1>5. pc' \in Steps /\ consumed' \in [events : Seq(Events), answers : SUBSET Answers]
  BY <1>2, <1>3 DEF TypeInv, Steps
<1> QED BY <1>4, <1>5 DEF Drain, TypeInv, FaultTypes

(* Removing a file takes nothing else with it. *)
LEMMA RemovedIs ==
    ASSUME TypeInv, NEW e
    PROVE  LET q == Pick(queue, {i \in DOMAIN queue : queue[i] # e})
           IN  q \in Seq(Events) /\ Injective(q) /\ Range(q) = Range(queue) \ {e}
<1> DEFINE S == {i \in DOMAIN queue : queue[i] # e}
<1>1. queue \in Seq(Events) /\ Injective(queue) /\ S \in SUBSET (DOMAIN queue)
  BY DEF TypeInv
<1>2. {queue[i] : i \in S} = Range(queue) \ {e}
  BY DEF Range
<1> HIDE DEF S
<1>3. \A i, j \in S : queue[i] = queue[j] => i = j
  BY <1>1 DEF Injective
<1>4. /\ Pick(queue, S) \in Seq(Events) /\ Injective(Pick(queue, S))
      /\ Range(Pick(queue, S)) = Range(queue) \ {e}
  BY <1>1, <1>2, <1>3, PickIs DEF Injective
<1> QED BY <1>4 DEF S

LEMMA RemoveType == TypeInv /\ RemoveFiles => TypeInv'
<1> SUFFICES ASSUME TypeInv, RemoveFiles PROVE TypeInv'
  OBVIOUS
<1>1. CASE /\ consumed.events # <<>>
           /\ queue' = Pick(queue, {i \in DOMAIN queue : queue[i] # Head(consumed.events)})
           /\ consumed' = [consumed EXCEPT !.events = Tail(@)]
           /\ UNCHANGED <<answers, pc>>
  <2>1. consumed.events \in Seq(Events)
    BY DEF TypeInv
  <2>2. Tail(consumed.events) \in Seq(Events)
    BY <1>1, <2>1, HeadTailProperties
  <2>3. consumed' \in [events : Seq(Events), answers : SUBSET Answers]
    BY <1>1, <2>2 DEF TypeInv
  <2>4. queue' \in Seq(Events) /\ Injective(queue')
    BY <1>1, RemovedIs
  <2> QED BY <1>1, <2>3, <2>4 DEF RemoveFiles, TypeInv
<1>2. CASE /\ consumed.events = <<>>
           /\ \E a \in consumed.answers :
                /\ answers' = answers \ {a}
                /\ consumed' = [consumed EXCEPT !.answers = @ \ {a}]
           /\ UNCHANGED <<queue, pc>>
  <2>1. PICK a \in consumed.answers : /\ answers' = answers \ {a}
                                      /\ consumed' = [consumed EXCEPT !.answers = @ \ {a}]
    BY <1>2
  <2>2. consumed' \in [events : Seq(Events), answers : SUBSET Answers]
    BY <2>1 DEF TypeInv
  <2> QED BY <1>2, <2>1, <2>2 DEF RemoveFiles, TypeInv
<1>3. CASE pc' = "dispatch" /\ UNCHANGED <<queue, answers, consumed>>
  BY <1>3 DEF RemoveFiles, TypeInv, Steps
<1> QED BY <1>1, <1>2, <1>3 DEF RemoveFiles

LEMMA DispatchType == TypeInv /\ (Dispatch \/ Dispatched) => TypeInv'
<1> SUFFICES ASSUME TypeInv, Dispatch \/ Dispatched PROVE TypeInv'
  OBVIOUS
<1>1. CASE Dispatch
  <2> DEFINE i == Min(Undispatched)
             r == mem.events[i]
             e == r.event
  <2>1. Undispatched # {}
    BY <1>1 DEF Dispatch
  <2>2. i \in DOMAIN mem.events /\ r \in Records /\ LedgerOK(mem)
    BY <2>1, NextToGo DEF TypeInv
  <2>3. \/ /\ mem' = [mem EXCEPT !.events[i].dispatched = TRUE]
           /\ sent' = [sent EXCEPT ![e] = @ + 1]
           /\ running' = running \union {e}
           /\ late' = late \ {e}
           /\ UNCHANGED faults
        \/ /\ faults' = [faults EXCEPT !.spawn = @ + 1]
           /\ mem' = [mem EXCEPT !.events[i].delivery["remote"] = "failed"]
           /\ UNCHANGED <<sent, running, late>>
    BY <1>1 DEF Dispatch
  <2> DEFINE a == [r EXCEPT !.dispatched = TRUE]
             b == [r EXCEPT !.delivery["remote"] = "failed"]
  <2>4. a \in Records /\ a.event = r.event
    BY <2>2 DEF Records
  <2>5. b \in Records /\ b.event = r.event
    BY <2>2 DEF Records, Statuses, Transports
  <2>6. e \in Events
    BY <2>2 DEF Records
  <2>7. mem' = [mem EXCEPT !.events[i] = a] \/ mem' = [mem EXCEPT !.events[i] = b]
    BY <2>3
  <2>8. LedgerOK([mem EXCEPT !.events[i] = a]) /\ LedgerOK([mem EXCEPT !.events[i] = b])
    <3> HIDE DEF a, b, i
    <3> QED BY <2>2, <2>4, <2>5, Rewritten
  <2> HIDE DEF i, e, a, b
  <2>9. LedgerOK(mem')
    BY <2>7, <2>8
  <2>10. sent' \in [Events -> Nat] /\ running' \subseteq Events /\ late' \subseteq Events
    <3>1. sent \in [Events -> Nat] /\ running \subseteq Events /\ late \subseteq Events
      BY DEF TypeInv
    <3>2. [sent EXCEPT ![e] = @ + 1] \in [Events -> Nat]
      BY <2>6, <3>1
    <3> QED BY <2>3, <2>6, <3>1, <3>2
  <2>11. faults' \in FaultTypes
    <3>1. faults \in FaultTypes
      BY DEF TypeInv, FaultTypes
    <3> QED BY <2>3, <3>1, FaultType
  <2>12. dirty' \in BOOLEAN
    BY <1>1 DEF Dispatch
  <2> QED BY <1>1, <2>9, <2>10, <2>11, <2>12 DEF Dispatch, TypeInv, FaultTypes
<1>2. CASE Dispatched
  <2>1. LedgerOK(mem') /\ LedgerOK(disk') /\ faults' \in FaultTypes
    <3>1. CASE UNCHANGED <<mem, disk, faults>>
      BY <3>1 DEF TypeInv, FaultTypes
    <3>2. CASE Saved(mem) \/ NotSaved(mem)
      BY <3>2, SaveType DEF TypeInv
    <3> QED BY <1>2, <3>1, <3>2 DEF Dispatched
  <2>2. pc' \in Steps /\ dirty' \in BOOLEAN
    BY <1>2 DEF Dispatched, Steps
  <2> QED BY <1>2, <2>1, <2>2 DEF Dispatched, TypeInv, FaultTypes
<1> QED BY <1>1, <1>2

LEMMA WorkType == TypeInv /\ ((\E a \in Alerts : Emit(a)) \/ Degrade \/ WorkDone) => TypeInv'
<1> SUFFICES ASSUME TypeInv, (\E a \in Alerts : Emit(a)) \/ Degrade \/ WorkDone
             PROVE  TypeInv'
  OBVIOUS
<1>1. ASSUME NEW a \in Alerts, Emit(a)
      PROVE  TypeInv'
  <2>1. a \in Events
    BY DEF Events
  <2>2. Queued(a) \in Seq(Events) /\ Injective(Queued(a))
    BY <2>1, QueuedIs
  <2>3. queue' \in Seq(Events) /\ Injective(queue')
    BY <1>1, <2>2 DEF Emit, TypeInv
  <2>4. raised' \subseteq [alert : Alerts, queued : BOOLEAN]
    <3>1. raised \subseteq [alert : Alerts, queued : BOOLEAN]
      BY DEF TypeInv
    <3>2. \A b \in BOOLEAN : [alert |-> a, queued |-> b] \in [alert : Alerts, queued : BOOLEAN]
      OBVIOUS
    <3>3. \E b \in BOOLEAN : raised' = raised \union {[alert |-> a, queued |-> b]}
      BY <1>1 DEF Emit
    <3> QED BY <3>1, <3>2, <3>3
  <2>5. faults' \in FaultTypes
    <3>1. faults \in FaultTypes
      BY DEF TypeInv, FaultTypes
    <3> QED BY <1>1, <3>1, FaultType DEF Emit, QueueFails
  <2> QED BY <1>1, <2>3, <2>4, <2>5 DEF Emit, TypeInv, FaultTypes
<1>2. CASE Degrade
  BY <1>2 DEF Degrade, TypeInv
<1>3. CASE WorkDone
  BY <1>3 DEF WorkDone, TypeInv, Steps
<1> QED BY <1>1, <1>2, <1>3

LEMMA FlushType == TypeInv /\ (FlushNothing \/ FlushQueue \/ FlushSave) => TypeInv'
<1> SUFFICES ASSUME TypeInv, FlushNothing \/ FlushQueue \/ FlushSave PROVE TypeInv'
  OBVIOUS
<1>1. CASE FlushNothing
  BY <1>1 DEF FlushNothing, TypeInv, Steps
<1>2. CASE FlushQueue
  <2>1. mem.owed \in Edges /\ mem.owed \in Events
    BY <1>2 DEF FlushQueue, TypeInv, LedgerOK, Ledgers, Events
  <2>2. Queued(mem.owed) \in Seq(Events) /\ Injective(Queued(mem.owed))
    BY <2>1, QueuedIs
  <2>3. told \in Seq(Edges) /\ Append(told, mem.owed) \in Seq(Edges)
    BY <2>1, AppendProperties DEF TypeInv
  <2>4. queue' \in Seq(Events) /\ Injective(queue') /\ told' \in Seq(Edges)
    BY <1>2, <2>2, <2>3 DEF FlushQueue, TypeInv
  <2>5. faults' \in FaultTypes /\ pc' \in Steps
    <3>1. faults \in FaultTypes
      BY DEF TypeInv, FaultTypes
    <3>2. pc' \in Steps
      BY <1>2 DEF FlushQueue, Steps
    <3> QED BY <1>2, <3>1, <3>2, FaultType DEF FlushQueue, QueueFails
  <2> QED BY <1>2, <2>4, <2>5 DEF FlushQueue, TypeInv, FaultTypes
<1>3. CASE FlushSave
  <2> DEFINE l == [mem EXCEPT !.owed = None]
  <2>1. LedgerOK(l) /\ LedgerOK(mem)
    BY DEF TypeInv, LedgerOK, Ledgers, Published
  <2>2. (Saved(l) \/ NotSaved(mem)) /\ pc' \in Steps
    BY <1>3 DEF FlushSave, Steps
  <2> HIDE DEF l
  <2>3. LedgerOK(mem') /\ LedgerOK(disk') /\ faults' \in FaultTypes
    BY <2>1, <2>2, SaveType
  <2> QED BY <1>3, <2>2, <2>3 DEF FlushSave, TypeInv, FaultTypes
<1> QED BY <1>1, <1>2, <1>3

(* The ledger with the edge that is taken now. *)
EdgeTaken ==
    LET active == mem.started = 0
        n == IF active THEN clock + 1 ELSE mem.started
    IN  [mem EXCEPT !.started = IF active THEN n ELSE 0,
                    !.owed = [kind |-> IF active THEN "active" ELSE "ended",
                              episode |-> n]]

LEMMA EdgeType == TypeInv /\ (NoEdge \/ EpisodeEdge) => TypeInv'
<1> SUFFICES ASSUME TypeInv, NoEdge \/ EpisodeEdge PROVE TypeInv'
  OBVIOUS
<1>1. CASE NoEdge
  BY <1>1 DEF NoEdge, TypeInv, Steps
<1>2. CASE EpisodeEdge
  <2> DEFINE active == mem.started = 0
             n == IF active THEN clock + 1 ELSE mem.started
             o == [kind |-> IF active THEN "active" ELSE "ended", episode |-> n]
  <2>1. mem \in Ledgers /\ mem.started \in 0..MaxEpisodes /\ clock \in 0..MaxEpisodes
        /\ MaxEpisodes \in Nat
    BY OutboxAssumption DEF TypeInv, LedgerOK, Ledgers
  <2>2. /\ n <= MaxEpisodes /\ clock' = IF active THEN n ELSE clock
        /\ (Saved(EdgeTaken) /\ pc' = "reflush") \/ (NotSaved(mem) /\ pc' = "drain")
    BY <1>2 DEF EpisodeEdge, EdgeTaken
  <2>3. n \in 1..MaxEpisodes /\ clock' \in 0..MaxEpisodes
    BY <2>1, <2>2
  <2> HIDE DEF n
  <2>4. o \in Edges
    BY <2>3 DEF Edges
  <2>5. EdgeTaken = [mem EXCEPT !.started = IF active THEN n ELSE 0, !.owed = o]
    BY DEF EdgeTaken, n
  <2> HIDE DEF o
  <2>6. LedgerOK(EdgeTaken) /\ LedgerOK(mem)
    <3>1. EdgeTaken \in Ledgers /\ EdgeTaken.events = mem.events
      <4> DEFINE b == IF active THEN n ELSE 0
      <4>1. b \in 0..MaxEpisodes
        BY <2>1, <2>3
      <4> HIDE DEF b
      <4>2. EdgeTaken = [mem EXCEPT !.started = b, !.owed = o]
        BY <2>5 DEF b
      <4> QED BY <2>1, <2>4, <4>1, <4>2 DEF Ledgers
    <3> QED BY <3>1 DEF TypeInv, LedgerOK, Published
  <2>7. LedgerOK(mem') /\ LedgerOK(disk') /\ faults' \in FaultTypes
    BY <2>2, <2>6, SaveType
  <2>8. pc' \in Steps
    BY <2>2 DEF Steps
  <2> QED BY <1>2, <2>3, <2>7, <2>8 DEF EpisodeEdge, TypeInv, FaultTypes
<1> QED BY <1>1, <1>2

LEMMA EnvironmentType == TypeInv /\ Environment => TypeInv'
<1> SUFFICES ASSUME TypeInv, NEW e \in Events, Dispatcher(e) \/ Hook(e) \/ Late(e)
             PROVE  TypeInv'
  BY DEF Environment
<1>1. ASSUME NEW t \in Transports, NEW status \in {"delivered", "failed"},
             Answer(e, t, status)
      PROVE  answers' \subseteq Answers
  BY <1>1 DEF Answer, Answers, TypeInv
<1>2. CASE Dispatcher(e)
  <2>1. answers' \subseteq Answers
    <3>1. CASE \E status \in {"delivered", "failed"} : Answer(e, "remote", status)
      BY <1>1, <3>1 DEF Transports
    <3>2. CASE UNCHANGED answers
      BY <3>2 DEF TypeInv
    <3> QED BY <1>2, <3>1, <3>2 DEF Dispatcher
  <2>2. running' \subseteq Events
    BY <1>2 DEF Dispatcher, TypeInv
  <2> QED BY <1>2, <2>1, <2>2 DEF Dispatcher, TypeInv, daemonVars
<1>3. CASE Hook(e)
  <2>1. answers' \subseteq Answers
    BY <1>1, <1>3 DEF Hook, Transports
  <2>2. faults' \in FaultTypes
    <3>1. faults \in FaultTypes
      BY DEF TypeInv, FaultTypes
    <3> QED BY <1>3, <3>1, FaultType DEF Hook
  <2> QED BY <1>3, <2>1, <2>2 DEF Hook, TypeInv, FaultTypes, daemonVars
<1>4. CASE Late(e)
  BY <1>4 DEF Late, TypeInv, daemonVars
<1> QED BY <1>2, <1>3, <1>4

LEMMA DownType == TypeInv /\ (Crash \/ Restart) => TypeInv'
<1> SUFFICES ASSUME TypeInv, Crash \/ Restart PROVE TypeInv'
  OBVIOUS
<1>1. CASE Crash
  <2>1. LedgerOK(EmptyLedger)
    <3>1. EmptyLedger \in Ledgers /\ EmptyLedger.events = <<>>
      BY OutboxAssumption DEF EmptyLedger, Ledgers
    <3>2. Len(<<>>) = 0 /\ DOMAIN <<>> = {}
      OBVIOUS
    <3> QED BY <3>1, <3>2, OutboxAssumption DEF LedgerOK, Published
  <2>2. Nothing \in [events : Seq(Events), answers : SUBSET Answers]
    BY DEF Nothing
  <2>3. faults' \in FaultTypes
    <3>1. faults \in FaultTypes
      BY DEF TypeInv, FaultTypes
    <3> QED BY <1>1, <3>1, FaultType DEF Crash
  <2> QED BY <1>1, <2>1, <2>2, <2>3 DEF Crash, TypeInv, FaultTypes, Steps
<1>2. CASE Restart
  BY <1>2 DEF Restart, TypeInv, Steps
<1> QED BY <1>1, <1>2

LEMMA StepType == TypeInv /\ [Next]_vars => TypeInv'
<1>1. TypeInv /\ UNCHANGED vars => TypeInv'
  BY DEF TypeInv, vars
<1> QED BY <1>1, DrainType, RemoveType, DispatchType, WorkType, FlushType, EdgeType,
           EnvironmentType, DownType DEF Next, Tick, Handlers

(* The elements of a sequence without repetition are as many as it is long. *)
LEMMA CountInjective ==
    ASSUME NEW T, NEW s \in Seq(T), Injective(s)
    PROVE  Cardinality(Range(s)) = Len(s)
<1>1. Len(s) \in Nat /\ DOMAIN s = 1..Len(s) /\ s \in [1..Len(s) -> T]
  BY LenProperties
<1>2. s \in Bijection(1..Len(s), Range(s))
  BY <1>1 DEF Injective, Bijection, Injection, Surjection, IsInjective, Range
<1> QED BY <1>1, <1>2, FS_CountingElements DEF ExistsBijection

(* NotificationOutbox: whatever fails, and however many events there are,   *)
(* both ledgers stay well formed and within their bound and hold no event   *)
(* twice, and no event has two files.                                       *)
THEOREM TypeCorrect == Spec => []TypeOK
<1>1. TypeInv => TypeOK
  <2> SUFFICES ASSUME TypeInv PROVE TypeOK
    OBVIOUS
  <2>1. Cardinality(Range(queue)) = Len(queue)
    BY CountInjective DEF TypeInv
  <2> QED BY <2>1 DEF TypeInv, TypeOK, LedgerOK
<1> QED BY <1>1, InitType, StepType, PTL DEF Spec

-----------------------------------------------------------------------------
(* What a drain leaves of the ledger while nothing has to be forgotten.    *)

(* s has all that the ledger has, as good or better ...                    *)
Carries(s) ==
    \A i \in DOMAIN mem.events : \E k \in DOMAIN s : Better(mem.events[i], s[k])

(* ... and else only what has arrived. *)
Comes(s) ==
    \A k \in DOMAIN s :
        \/ \E i \in DOMAIN mem.events : Better(mem.events[i], s[k])
        \/ s[k].event \in Range(Arrived) /\ s[k].dispatched = FALSE

LEMMA DrainedCarries ==
    ASSUME TypeInv, Roomy
    PROVE  /\ Carries(Drained) /\ Comes(Drained)
           /\ \A e \in Range(Arrived) : \E k \in DOMAIN Drained : Drained[k].event = e
<1> DEFINE n == Len(mem.events)
           m == Len(Arrived)
<1>1. /\ n \in Nat /\ m \in Nat /\ Len(Gathered) = n + m
      /\ Gathered \in Seq(Records)
      /\ DOMAIN mem.events = 1..n /\ DOMAIN Gathered = 1..(n + m)
      /\ \A i \in 1..n : Gathered[i] = mem.events[i]
      /\ \A i \in 1..m : Gathered[n + i] = Taken(Arrived[i])
      /\ \A i \in 1..(n + m) : i \notin 1..n => \E k \in 1..m : i = n + k
  BY GatheredIs
<1>2. Arrived \in Seq(Events) /\ DOMAIN Arrived = 1..m
  BY ArrivedIs
<1> HIDE DEF n, m
<1>3. DOMAIN Drained = 1..(n + m) /\ \A i \in 1..(n + m) : Drained[i] = Settled(Gathered[i])
  <2>1. Drained \in Seq(Records) /\ DOMAIN Drained = 1..Len(Drained)
    BY DrainedIs
  <2>2. PICK k \in Nat :
          /\ k + Len(Drained) = Len(Gathered)
          /\ \A i \in DOMAIN Drained :
               k + i \in DOMAIN Gathered /\ Drained[i] = Settled(Gathered[k + i])
          /\ Roomy => k = 0
    BY DrainedIs
  <2>3. k = 0 /\ Len(Drained) \in Nat
    BY <2>1, <2>2, LenProperties
  <2>4. Len(Drained) = n + m
    BY <1>1, <2>2, <2>3
  <2>5. \A i \in 1..(n + m) : k + i = i
    BY <2>3
  <2> QED BY <2>1, <2>2, <2>4, <2>5
<1>4. \A i \in 1..(n + m) : Better(Gathered[i], Drained[i])
  <2> TAKE i \in 1..(n + m)
  <2>1. Gathered[i] \in Records
    BY <1>1, ElementOfSeq
  <2> QED BY <1>3, <2>1, SettledIs
<1>5. \A k \in 1..m : /\ Drained[n + k].event = Arrived[k]
                      /\ Drained[n + k].dispatched = FALSE
                      /\ n + k \in 1..(n + m)
  <2> TAKE k \in 1..m
  <2>1. Arrived[k] \in Events
    BY <1>2, ElementOfSeq DEF m
  <2>2. n + k \in 1..(n + m)
    BY <1>1
  <2>3. Taken(Arrived[k]).event = Arrived[k] /\ Taken(Arrived[k]).dispatched = FALSE
    BY <2>1, TakenIs
  <2>4. Better(Taken(Arrived[k]), Drained[n + k])
    BY <1>1, <1>4, <2>2
  <2> QED BY <2>2, <2>3, <2>4 DEF Better
<1>6. \A k \in 1..m : Arrived[k] \in Range(Arrived)
  BY <1>2 DEF Range
<1>7. Carries(Drained)
  <2>1. \A i \in 1..n : i \in 1..(n + m)
    BY <1>1
  <2> QED BY <1>1, <1>3, <1>4, <2>1 DEF Carries
<1>8. Comes(Drained)
  <2> SUFFICES ASSUME NEW i \in 1..(n + m)
               PROVE  \/ \E j \in 1..n : Better(mem.events[j], Drained[i])
                      \/ Drained[i].event \in Range(Arrived) /\ Drained[i].dispatched = FALSE
    BY <1>1, <1>3 DEF Comes
  <2>1. CASE i \in 1..n
    BY <1>1, <1>4, <2>1
  <2>2. CASE i \notin 1..n
    BY <1>1, <1>5, <1>6, <2>2
  <2> QED BY <2>1, <2>2
<1>9. \A e \in Range(Arrived) : \E k \in DOMAIN Drained : Drained[k].event = e
  <2> TAKE e \in Range(Arrived)
  <2>1. PICK k \in 1..m : e = Arrived[k]
    BY <1>2 DEF Range
  <2> QED BY <1>3, <1>5, <2>1
<1> QED BY <1>7, <1>8, <1>9

LEMMA GivenBackCarries ==
    ASSUME TypeInv, Roomy
    PROVE  /\ Carries(GivenBack) /\ Comes(GivenBack)
           /\ \A k \in DOMAIN GivenBack : GivenBack[k].event \notin Range(Arrived)
<1>1. /\ \A k \in DOMAIN GivenBack : \E i \in DOMAIN Drained :
           GivenBack[k] = Drained[i] /\ Drained[i].event \notin Range(Arrived)
      /\ \A i \in DOMAIN Drained : Drained[i].event \notin Range(Arrived) =>
           \E k \in DOMAIN GivenBack : GivenBack[k] = Drained[i]
  BY GivenBackIs
<1>2. Carries(Drained) /\ Comes(Drained)
  BY DrainedCarries
<1>3. Carries(GivenBack)
  <2> SUFFICES ASSUME NEW i \in DOMAIN mem.events
               PROVE  \E k \in DOMAIN GivenBack : Better(mem.events[i], GivenBack[k])
    BY DEF Carries
  <2>1. PICK j \in DOMAIN Drained : Better(mem.events[i], Drained[j])
    BY <1>2 DEF Carries
  <2>2. mem.events[i].event \in Known(mem)
    BY DEF Known
  <2>3. Drained[j].event \notin Range(Arrived)
    BY <2>1, <2>2, ArrivedIs DEF Better
  <2> QED BY <1>1, <2>1, <2>3
<1>4. Comes(GivenBack)
  BY <1>1, <1>2 DEF Comes
<1> QED BY <1>1, <1>3, <1>4

LEMMA DrainKnown ==
    ASSUME TypeInv, Roomy
    PROVE  /\ Known([mem EXCEPT !.events = Drained]) = Known(mem) \union Range(Arrived)
           /\ Known([mem EXCEPT !.events = GivenBack]) = Known(mem)
<1>1. mem \in Ledgers
  BY DEF TypeInv, LedgerOK
<1> DEFINE l == [mem EXCEPT !.events = Drained]
           g == [mem EXCEPT !.events = GivenBack]
<1>2. l.events = Drained /\ g.events = GivenBack
  BY <1>1 DEF Ledgers
<1> HIDE DEF l, g
<1>3. Known(mem) \subseteq Known(l)
  BY <1>2, DrainedCarries DEF Known, Carries, Better
<1>4. Range(Arrived) \subseteq Known(l)
  BY <1>2, DrainedCarries DEF Known
<1>5. Known(l) \subseteq Known(mem) \union Range(Arrived)
  <2> SUFFICES ASSUME NEW k \in DOMAIN Drained
               PROVE  Drained[k].event \in Known(mem) \union Range(Arrived)
    BY <1>2 DEF Known
  <2>1. CASE \E i \in DOMAIN mem.events : Better(mem.events[i], Drained[k])
    BY <2>1 DEF Known, Better
  <2>2. CASE Drained[k].event \in Range(Arrived)
    BY <2>2
  <2> QED BY <2>1, <2>2, DrainedCarries DEF Comes
<1>6. Known(mem) \subseteq Known(g)
  BY <1>2, GivenBackCarries DEF Known, Carries, Better
<1>7. Known(g) \subseteq Known(mem)
  <2> SUFFICES ASSUME NEW k \in DOMAIN GivenBack
               PROVE  GivenBack[k].event \in Known(mem)
    BY <1>2 DEF Known
  <2>1. CASE \E i \in DOMAIN mem.events : Better(mem.events[i], GivenBack[k])
    BY <2>1 DEF Known, Better
  <2>2. CASE GivenBack[k].event \in Range(Arrived)
    BY <2>2, GivenBackCarries
  <2> QED BY <2>1, <2>2, GivenBackCarries DEF Comes
<1> QED BY <1>3, <1>4, <1>5, <1>6, <1>7 DEF l, g

(* The three ways a drain ends. *)
LEMMA DrainEnds ==
    ASSUME TypeInv, Drain
    PROVE  \/ UNCHANGED <<mem, disk, faults, consumed>> /\ pc' = "dispatch"
           \/ /\ mem' = [mem EXCEPT !.events = Drained] /\ disk' = mem'
              /\ consumed' = ToConsume /\ pc' = "remove" /\ UNCHANGED faults
           \/ /\ mem' = [mem EXCEPT !.events = GivenBack]
              /\ UNCHANGED disk /\ pc' = "work" /\ UNCHANGED consumed
              /\ faults'.crash = faults.crash
<1>1. CASE /\ ToConsume = Nothing /\ [mem EXCEPT !.events = Drained] = mem
           /\ pc' = "dispatch"
           /\ UNCHANGED <<mem, disk, faults, consumed>>
  BY <1>1
<1>2. CASE /\ Saved([mem EXCEPT !.events = Drained])
           /\ consumed' = ToConsume
           /\ pc' = "remove"
  BY <1>2 DEF Saved
<1>3. CASE /\ NotSaved([mem EXCEPT !.events = GivenBack])
           /\ pc' = "work"
           /\ UNCHANGED consumed
  <2>1. faults \in FaultTypes
    BY DEF TypeInv, FaultTypes
  <2>2. faults'.crash = faults.crash
    BY <1>3, <2>1 DEF NotSaved, FaultTypes
  <2> QED BY <1>3, <2>2 DEF NotSaved
<1> QED BY <1>1, <1>2, <1>3 DEF Drain, GivenBack

-----------------------------------------------------------------------------
(* The books: what the ledgers, the files and the history say of an event.  *)

(* A running daemon differs from its file in deliveries only.               *)
SameBooks ==
    pc # "down" => /\ mem.started = disk.started /\ mem.owed = disk.owed
                   /\ Known(mem) = Known(disk)

(* Nothing that was queued is lost. *)
NoneLost ==
    /\ \A r \in raised : r.queued => r.alert \in Range(queue) \union Known(disk)
    /\ Range(told) \subseteq Range(queue) \union Known(disk)

(* What is removed is on disk. *)
RemovedKnown == pc = "remove" => Range(consumed.events) \subseteq Known(disk)

(* No edge is queued but by its turn. *)
TakenTold == \A e \in Edges : e \in Range(queue) \union Known(disk) => e \in Range(told)

(* Episodes are counted; the edge that is owed is the latest one, and the   *)
(* end of the episode that runs has not been told.                          *)
OwedTrue ==
    /\ disk.started <= clock
    /\ disk.owed # None => /\ disk.owed.episode <= clock
                           /\ disk.owed.kind = "ended" => disk.started = 0
    /\ disk.started # 0 => [kind |-> "ended", episode |-> disk.started] \notin Range(told)
    /\ \A e \in Range(told) : e.episode <= clock
    /\ pc = "edge" => disk.owed = None
    /\ pc \in {"flush_save", "reflush_save"} => disk.owed \in Range(told)

BookInv == SameBooks /\ NoneLost /\ RemovedKnown /\ TakenTold /\ OwedTrue

LEMMA InitBooks == Init => BookInv
<1> SUFFICES ASSUME Init PROVE BookInv
  OBVIOUS
<1>1. /\ mem = EmptyLedger /\ disk = EmptyLedger /\ pc = "drain" /\ queue = <<>>
      /\ told = <<>> /\ raised = {} /\ clock = 0
  BY DEF Init
<1>2. /\ EmptyLedger.started = 0 /\ EmptyLedger.owed = None /\ EmptyLedger.events = <<>>
  BY DEF EmptyLedger
<1>3. Range(<<>>) = {} /\ Known(EmptyLedger) = {}
  BY <1>2 DEF Range, Known
<1> QED BY <1>1, <1>2, <1>3
        DEF BookInv, SameBooks, NoneLost, RemovedKnown, TakenTold, OwedTrue

(* A step that leaves the file, the queue and the history alone.            *)
LEMMA QuietBooks ==
    ASSUME BookInv, UNCHANGED <<disk, queue, told, raised, clock>>, pc # "down",
           mem'.started = mem.started, mem'.owed = mem.owed, Known(mem') = Known(mem),
           pc' = "remove" => pc = "remove" /\ consumed' = consumed,
           pc' = "edge" => disk.owed = None,
           pc' \in {"flush_save", "reflush_save"} => disk.owed \in Range(told)
    PROVE  BookInv'
<1>1. SameBooks' /\ NoneLost' /\ TakenTold'
  BY DEF BookInv, SameBooks, NoneLost, TakenTold
<1>2. RemovedKnown'
  BY DEF BookInv, RemovedKnown
<1>3. OwedTrue'
  BY DEF BookInv, OwedTrue
<1> QED BY <1>1, <1>2, <1>3 DEF BookInv

LEMMA DrainBooks == TypeInv /\ Roomy /\ BookInv /\ Drain => BookInv'
<1> SUFFICES ASSUME TypeInv, Roomy, BookInv, Drain PROVE BookInv'
  OBVIOUS
<1>1. pc = "drain" /\ UNCHANGED <<queue, told, raised, clock>>
  BY DEF Drain
<1>2. mem \in Ledgers
  BY DEF TypeInv, LedgerOK
<1>3. CASE UNCHANGED <<mem, disk, faults, consumed>> /\ pc' = "dispatch"
  BY <1>1, <1>3, QuietBooks
<1>4. CASE /\ mem' = [mem EXCEPT !.events = Drained] /\ disk' = mem'
           /\ consumed' = ToConsume /\ pc' = "remove" /\ UNCHANGED faults
  <2>1. Known(mem') = Known(mem) \union Range(Arrived) /\ Known(disk') = Known(mem')
    BY <1>4, DrainKnown
  <2>2. mem'.started = mem.started /\ mem'.owed = mem.owed
    BY <1>2, <1>4 DEF Ledgers
  <2>3. /\ disk'.started = disk.started /\ disk'.owed = disk.owed
        /\ Known(disk') = Known(disk) \union Range(Arrived)
        /\ Range(Arrived) \subseteq Range(queue)
    BY <1>1, <1>4, <2>1, <2>2, ArrivedIs DEF BookInv, SameBooks
  <2>4. SameBooks'
    BY <1>4 DEF SameBooks
  <2>5. NoneLost' /\ TakenTold'
    BY <1>1, <2>3 DEF BookInv, NoneLost, TakenTold
  <2>6. RemovedKnown'
    <3>1. consumed'.events = Arrived
      BY <1>4 DEF ToConsume
    <3> QED BY <2>3, <3>1 DEF RemovedKnown
  <2>7. OwedTrue'
    BY <1>1, <1>4, <2>3 DEF BookInv, OwedTrue
  <2> QED BY <2>4, <2>5, <2>6, <2>7 DEF BookInv
<1>5. CASE /\ mem' = [mem EXCEPT !.events = GivenBack]
           /\ UNCHANGED disk /\ pc' = "work" /\ UNCHANGED consumed
  <2>1. Known(mem') = Known(mem)
    BY <1>5, DrainKnown
  <2>2. mem'.started = mem.started /\ mem'.owed = mem.owed
    BY <1>2, <1>5 DEF Ledgers
  <2> QED BY <1>1, <1>5, <2>1, <2>2, QuietBooks
<1> QED BY <1>3, <1>4, <1>5, DrainEnds

LEMMA RemoveBooks == TypeInv /\ BookInv /\ RemoveFiles => BookInv'
<1> SUFFICES ASSUME TypeInv, BookInv, RemoveFiles PROVE BookInv'
  OBVIOUS
<1>1. pc = "remove" /\ UNCHANGED <<mem, disk, told, raised, clock>>
  BY DEF RemoveFiles
<1>2. CASE /\ consumed.events # <<>>
           /\ queue' = Pick(queue, {i \in DOMAIN queue : queue[i] # Head(consumed.events)})
           /\ consumed' = [consumed EXCEPT !.events = Tail(@)]
           /\ UNCHANGED <<answers, pc>>
  <2> DEFINE s == consumed.events
  <2>1. s \in Seq(Events) /\ s # <<>> /\ consumed'.events = Tail(s)
    BY <1>2 DEF TypeInv
  <2>2. /\ Tail(s) \in Seq(Events) /\ Len(Tail(s)) = Len(s) - 1
        /\ \A i \in 1..Len(Tail(s)) : Tail(s)[i] = s[i + 1]
    BY <2>1, HeadTailProperties
  <2>3. Len(s) \in Nat \ {0} /\ DOMAIN s = 1..Len(s) /\ Head(s) = s[1]
    BY <2>1, LenProperties, EmptySeq
  <2>4. DOMAIN Tail(s) = 1..(Len(s) - 1)
    BY <2>2, LenProperties
  <2> HIDE DEF s
  <2>5. Range(Tail(s)) \subseteq Range(s) /\ Head(s) \in Range(s)
    <3>1. \A i \in 1..(Len(s) - 1) : i + 1 \in DOMAIN s
      BY <2>3
    <3>2. 1 \in DOMAIN s
      BY <2>3
    <3> QED BY <2>2, <2>3, <2>4, <3>1, <3>2 DEF Range
  <2>6. Range(s) \subseteq Known(disk)
    BY <1>1 DEF BookInv, RemovedKnown, s
  <2>7. Range(queue') = Range(queue) \ {Head(s)}
    BY <1>2, RemovedIs DEF s
  <2>8. Range(queue') \union Known(disk') = Range(queue) \union Known(disk)
    BY <1>1, <2>5, <2>6, <2>7
  <2>9. SameBooks' /\ OwedTrue'
    BY <1>1, <1>2 DEF BookInv, SameBooks, OwedTrue
  <2>10. NoneLost' /\ TakenTold'
    BY <1>1, <2>8 DEF BookInv, NoneLost, TakenTold
  <2>11. RemovedKnown'
    BY <1>1, <2>1, <2>5, <2>6 DEF RemovedKnown
  <2> QED BY <2>9, <2>10, <2>11 DEF BookInv
<1>3. CASE /\ \E a \in consumed.answers :
                /\ answers' = answers \ {a}
                /\ consumed' = [consumed EXCEPT !.answers = @ \ {a}]
           /\ UNCHANGED <<queue, pc>>
  <2>1. consumed'.events = consumed.events
    BY <1>3 DEF TypeInv
  <2>2. RemovedKnown'
    BY <1>1, <2>1 DEF BookInv, RemovedKnown
  <2> QED BY <1>1, <1>3, <2>2 DEF BookInv, SameBooks, NoneLost, TakenTold, OwedTrue
<1>4. CASE pc' = "dispatch" /\ UNCHANGED <<queue, answers, consumed>>
  BY <1>1, <1>4, QuietBooks
<1> QED BY <1>2, <1>3, <1>4 DEF RemoveFiles

(* A dispatch rewrites one record, and keeps its event. *)
LEMMA DispatchKnown ==
    ASSUME TypeInv, Dispatch
    PROVE  /\ mem'.started = mem.started /\ mem'.owed = mem.owed
           /\ Known(mem') = Known(mem)
           /\ DOMAIN mem'.events = DOMAIN mem.events
           /\ \A j \in DOMAIN mem.events :
                /\ mem'.events[j].event = mem.events[j].event
                /\ \A t \in Transports : mem.events[j].delivery[t] = "delivered" =>
                     mem'.events[j].delivery[t] = "delivered"
           /\ \/ /\ UNCHANGED sent
                 /\ \A j \in DOMAIN mem.events :
                      mem'.events[j].dispatched = mem.events[j].dispatched
              \/ \E i \in DOMAIN mem.events :
                   /\ mem.events[i].dispatched = FALSE
                   /\ mem'.events[i].dispatched
                   /\ \A j \in DOMAIN mem.events \ {i} :
                        mem'.events[j].dispatched = mem.events[j].dispatched
                   /\ sent' = [sent EXCEPT ![mem.events[i].event] = @ + 1]
<1> DEFINE i == Min(Undispatched)
           r == mem.events[i]
           a == [r EXCEPT !.dispatched = TRUE]
           b == [r EXCEPT !.delivery["remote"] = "failed"]
<1>1. Undispatched # {}
  BY DEF Dispatch
<1>2. i \in DOMAIN mem.events /\ r \in Records /\ r.delivery["remote"] = "pending"
      /\ r.dispatched = FALSE
  BY <1>1, NextToGo
<1>3. mem \in Ledgers
  BY DEF TypeInv, LedgerOK
<1>4. \/ /\ mem' = [mem EXCEPT !.events[i] = a]
         /\ sent' = [sent EXCEPT ![r.event] = @ + 1]
      \/ mem' = [mem EXCEPT !.events[i] = b] /\ UNCHANGED sent
  BY DEF Dispatch
<1>5. /\ a.event = r.event /\ a.dispatched = TRUE /\ a.delivery = r.delivery
      /\ b.event = r.event /\ b.dispatched = FALSE
  BY <1>2 DEF Records
<1>6. \A t \in Transports : r.delivery[t] = "delivered" => b.delivery[t] = "delivered"
  BY <1>2 DEF Records, Transports
<1> HIDE DEF i, a, b
<1>7. ASSUME NEW q, mem' = [mem EXCEPT !.events[i] = q]
      PROVE  /\ mem'.started = mem.started /\ mem'.owed = mem.owed
             /\ DOMAIN mem'.events = DOMAIN mem.events
             /\ mem'.events[i] = q
             /\ \A j \in DOMAIN mem.events \ {i} : mem'.events[j] = mem.events[j]
  BY <1>2, <1>3, <1>7 DEF Ledgers
<1>8. ASSUME NEW q, mem' = [mem EXCEPT !.events[i] = q], q.event = r.event,
             \A t \in Transports : r.delivery[t] = "delivered" => q.delivery[t] = "delivered"
      PROVE  /\ \A j \in DOMAIN mem.events :
                  /\ mem'.events[j].event = mem.events[j].event
                  /\ \A t \in Transports : mem.events[j].delivery[t] = "delivered" =>
                       mem'.events[j].delivery[t] = "delivered"
             /\ Known(mem') = Known(mem)
  <2>1. \A j \in DOMAIN mem.events :
          /\ mem'.events[j].event = mem.events[j].event
          /\ \A t \in Transports : mem.events[j].delivery[t] = "delivered" =>
               mem'.events[j].delivery[t] = "delivered"
    BY <1>7, <1>8
  <2>2. DOMAIN mem'.events = DOMAIN mem.events
    BY <1>7, <1>8
  <2> QED BY <2>1, <2>2 DEF Known
<1>9. CASE /\ mem' = [mem EXCEPT !.events[i] = a]
           /\ sent' = [sent EXCEPT ![r.event] = @ + 1]
  <2>1. /\ mem'.started = mem.started /\ mem'.owed = mem.owed
        /\ DOMAIN mem'.events = DOMAIN mem.events
        /\ mem'.events[i] = a
        /\ \A j \in DOMAIN mem.events \ {i} : mem'.events[j] = mem.events[j]
    BY <1>7, <1>9
  <2>2. /\ \A j \in DOMAIN mem.events :
             /\ mem'.events[j].event = mem.events[j].event
             /\ \A t \in Transports : mem.events[j].delivery[t] = "delivered" =>
                  mem'.events[j].delivery[t] = "delivered"
        /\ Known(mem') = Known(mem)
    BY <1>5, <1>8, <1>9
  <2> QED BY <1>2, <1>5, <1>9, <2>1, <2>2
<1>10. CASE mem' = [mem EXCEPT !.events[i] = b] /\ UNCHANGED sent
  <2>1. /\ mem'.started = mem.started /\ mem'.owed = mem.owed
        /\ DOMAIN mem'.events = DOMAIN mem.events
        /\ mem'.events[i] = b
        /\ \A j \in DOMAIN mem.events \ {i} : mem'.events[j] = mem.events[j]
    BY <1>7, <1>10
  <2>2. /\ \A j \in DOMAIN mem.events :
             /\ mem'.events[j].event = mem.events[j].event
             /\ \A t \in Transports : mem.events[j].delivery[t] = "delivered" =>
                  mem'.events[j].delivery[t] = "delivered"
        /\ Known(mem') = Known(mem)
    BY <1>5, <1>6, <1>8, <1>10
  <2>3. \A j \in DOMAIN mem.events : mem'.events[j].dispatched = mem.events[j].dispatched
    BY <1>2, <1>5, <2>1
  <2> QED BY <1>10, <2>1, <2>2, <2>3
<1> QED BY <1>4, <1>9, <1>10

LEMMA DispatchBooks == TypeInv /\ BookInv /\ (Dispatch \/ Dispatched) => BookInv'
<1> SUFFICES ASSUME TypeInv, BookInv, Dispatch \/ Dispatched PROVE BookInv'
  OBVIOUS
<1>1. CASE Dispatch
  <2>1. pc = "dispatch" /\ UNCHANGED <<disk, pc, queue, told, raised, clock>>
    BY <1>1 DEF Dispatch
  <2> QED BY <1>1, <2>1, DispatchKnown, QuietBooks
<1>2. CASE Dispatched
  <2>1. /\ pc = "dispatch" /\ pc' = "work" /\ mem' = mem
        /\ disk' = disk \/ disk' = mem
        /\ UNCHANGED <<queue, told, raised, clock>>
    BY <1>2 DEF Dispatched, Saved, NotSaved
  <2>2. CASE disk' = disk
    BY <2>1, <2>2, QuietBooks
  <2>3. CASE disk' = mem
    <3>1. /\ disk'.started = disk.started /\ disk'.owed = disk.owed
          /\ Known(disk') = Known(disk)
      BY <2>1, <2>3 DEF BookInv, SameBooks
    <3>2. SameBooks' /\ RemovedKnown' /\ OwedTrue'
      BY <2>1, <2>3, <3>1 DEF BookInv, SameBooks, RemovedKnown, OwedTrue
    <3>3. NoneLost' /\ TakenTold'
      BY <2>1, <3>1 DEF BookInv, NoneLost, TakenTold
    <3> QED BY <3>2, <3>3 DEF BookInv
  <2> QED BY <2>1, <2>2, <2>3
<1> QED BY <1>1, <1>2

LEMMA WorkBooks ==
    TypeInv /\ BookInv /\ ((\E a \in Alerts : Emit(a)) \/ Degrade \/ WorkDone) => BookInv'
<1> SUFFICES ASSUME TypeInv, BookInv, (\E a \in Alerts : Emit(a)) \/ Degrade \/ WorkDone
             PROVE  BookInv'
  OBVIOUS
<1>1. ASSUME NEW a \in Alerts, Emit(a)
      PROVE  BookInv'
  <2>1. /\ pc = "work" /\ UNCHANGED <<mem, disk, pc, told, clock, consumed>>
        /\ \/ queue' = Queued(a) /\ raised' = raised \union {[alert |-> a, queued |-> TRUE]}
           \/ raised' = raised \union {[alert |-> a, queued |-> FALSE]} /\ UNCHANGED queue
    BY <1>1 DEF Emit
  <2>2. a \in Events /\ a \notin Edges
    BY OutboxAssumption DEF Events
  <2>3. /\ Range(Queued(a)) \subseteq Range(queue) \union {a}
        /\ Range(queue) \subseteq Range(Queued(a))
        /\ a \in Range(Queued(a)) \union Known(disk)
    BY <2>1, <2>2, QueuedIs DEF BookInv, SameBooks
  <2>4. SameBooks' /\ RemovedKnown' /\ OwedTrue'
    BY <2>1 DEF BookInv, SameBooks, RemovedKnown, OwedTrue
  <2>5. TakenTold'
    BY <2>1, <2>2, <2>3 DEF BookInv, TakenTold
  <2>6. NoneLost'
    <3>1. CASE queue' = Queued(a) /\ raised' = raised \union {[alert |-> a, queued |-> TRUE]}
      BY <2>1, <2>3, <3>1 DEF BookInv, NoneLost
    <3>2. CASE raised' = raised \union {[alert |-> a, queued |-> FALSE]} /\ UNCHANGED queue
      BY <2>1, <3>2 DEF BookInv, NoneLost
    <3> QED BY <2>1, <3>1, <3>2
  <2> QED BY <2>4, <2>5, <2>6 DEF BookInv
<1>2. CASE Degrade
  BY <1>2, QuietBooks DEF Degrade
<1>3. CASE WorkDone
  BY <1>3, QuietBooks DEF WorkDone
<1> QED BY <1>1, <1>2, <1>3

(* What the edges that were told become with one more. *)
LEMMA ToldMore ==
    ASSUME TypeInv, NEW e \in Edges
    PROVE  Range(Append(told, e)) = Range(told) \union {e}
<1> DEFINE s == Append(told, e)
<1>1. told \in Seq(Edges) /\ DOMAIN told = 1..Len(told) /\ Len(told) \in Nat
  BY LenProperties DEF TypeInv
<1>2. /\ s \in Seq(Edges) /\ Len(s) = Len(told) + 1
      /\ \A i \in 1..Len(told) : s[i] = told[i]
      /\ s[Len(told) + 1] = e
  BY <1>1, AppendProperties
<1>3. DOMAIN s = 1..(Len(told) + 1)
  BY <1>2, LenProperties
<1> HIDE DEF s
<1>4. \A i \in 1..(Len(told) + 1) : s[i] \in Range(told) \union {e}
  BY <1>1, <1>2 DEF Range
<1>5. \A i \in 1..Len(told) : i \in DOMAIN s
  BY <1>1, <1>3
<1>6. Len(told) + 1 \in DOMAIN s
  BY <1>1, <1>3
<1> QED BY <1>1, <1>2, <1>3, <1>4, <1>5, <1>6 DEF Range, s

(* An edge is queued when it is its turn, or it has been queued already.    *)
LEMMA FlushQueueIs ==
    ASSUME TypeInv, BookInv, FlushQueue
    PROVE  /\ mem.owed \in Edges /\ mem.owed = disk.owed /\ pc # "down"
           /\ UNCHANGED <<mem, disk, raised, clock, consumed>>
           /\ \/ /\ UNCHANGED <<queue, told>> /\ mem.owed \in Range(told)
                 /\ pc' \in {"flush_save", "reflush_save"}
              \/ /\ UNCHANGED <<queue, told>> /\ pc' = "drain"
              \/ /\ mem.owed \notin Range(told) /\ told' = Append(told, mem.owed)
                 /\ queue' = Queued(mem.owed)
                 /\ pc' \in {"flush_save", "reflush_save"}
<1>1. /\ pc \in {"flush", "reflush"} /\ mem.owed # None
      /\ UNCHANGED <<mem, disk, raised, clock, consumed>>
      /\ \/ /\ queue' = Queued(mem.owed)
            /\ told' = IF queue' = queue THEN told ELSE Append(told, mem.owed)
            /\ pc' \in {"flush_save", "reflush_save"}
         \/ pc' = "drain" /\ UNCHANGED <<queue, told>>
  BY DEF FlushQueue
<1>2. mem.owed \in Edges /\ mem.owed \in Events
  BY <1>1 DEF TypeInv, LedgerOK, Ledgers, Events
<1>3. mem.owed = disk.owed /\ Known(mem) = Known(disk)
  BY <1>1 DEF BookInv, SameBooks
<1>4. mem.owed \in Range(told) <=> mem.owed \in Known(mem) \union Range(queue)
  BY <1>2, <1>3 DEF BookInv, NoneLost, TakenTold
<1>5. /\ mem.owed \in Known(mem) \union Range(queue) => Queued(mem.owed) = queue
      /\ mem.owed \notin Known(mem) \union Range(queue) => Queued(mem.owed) # queue
  BY <1>2, QueuedIs
<1> QED BY <1>1, <1>2, <1>3, <1>4, <1>5

LEMMA FlushBooks ==
    TypeInv /\ BookInv /\ (FlushNothing \/ FlushQueue \/ FlushSave) => BookInv'
<1> SUFFICES ASSUME TypeInv, BookInv, FlushNothing \/ FlushQueue \/ FlushSave
             PROVE  BookInv'
  OBVIOUS
<1>1. CASE FlushNothing
  <2>1. /\ pc # "down" /\ mem.owed = None /\ pc' \in {"edge", "drain"}
        /\ UNCHANGED <<mem, disk, queue, told, raised, clock>>
    BY <1>1 DEF FlushNothing
  <2>2. disk.owed = None
    BY <2>1 DEF BookInv, SameBooks
  <2> QED BY <2>1, <2>2, QuietBooks
<1>2. CASE FlushQueue
  <2>1. /\ mem.owed \in Edges /\ mem.owed = disk.owed /\ pc # "down"
        /\ UNCHANGED <<mem, disk, raised, clock, consumed>>
    BY <1>2, FlushQueueIs
  <2>2. CASE /\ UNCHANGED <<queue, told>> /\ mem.owed \in Range(told)
             /\ pc' \in {"flush_save", "reflush_save"}
    BY <2>1, <2>2, QuietBooks
  <2>3. CASE UNCHANGED <<queue, told>> /\ pc' = "drain"
    BY <2>1, <2>3, QuietBooks
  <2>4. CASE /\ mem.owed \notin Range(told) /\ told' = Append(told, mem.owed)
             /\ queue' = Queued(mem.owed)
             /\ pc' \in {"flush_save", "reflush_save"}
    <3> DEFINE e == mem.owed
    <3>1. Range(told') = Range(told) \union {e}
      BY <2>1, <2>4, ToldMore
    <3>2. e \in Events
      BY <2>1 DEF Events
    <3>3. /\ Range(queue') \subseteq Range(queue) \union {e}
          /\ Range(queue) \subseteq Range(queue')
          /\ e \in Range(queue') \union Known(disk)
      BY <2>1, <2>4, <3>2, QueuedIs DEF BookInv, SameBooks
    <3>4. SameBooks' /\ RemovedKnown'
      BY <2>1, <2>4 DEF BookInv, SameBooks, RemovedKnown
    <3>5. NoneLost' /\ TakenTold'
      BY <2>1, <3>1, <3>3 DEF BookInv, NoneLost, TakenTold
    <3>6. OwedTrue'
      <4>1. e # None
        BY <2>1, OutboxAssumption
      <4>2. e.episode <= clock /\ (e.kind = "ended" => disk.started = 0)
        BY <2>1, <4>1 DEF BookInv, OwedTrue
      <4>3. disk'.started # 0 =>
              [kind |-> "ended", episode |-> disk'.started] \notin Range(told')
        BY <2>1, <3>1, <4>2 DEF BookInv, OwedTrue
      <4>4. \A x \in Range(told') : x.episode <= clock'
        BY <2>1, <3>1, <4>2 DEF BookInv, OwedTrue
      <4> QED BY <2>1, <2>4, <3>1, <4>3, <4>4 DEF BookInv, OwedTrue
    <3> QED BY <3>4, <3>5, <3>6 DEF BookInv
  <2> QED BY <1>2, <2>2, <2>3, <2>4, FlushQueueIs
<1>3. CASE FlushSave
  <2>1. /\ pc \in {"flush_save", "reflush_save"} /\ pc' \in {"edge", "drain"}
        /\ UNCHANGED <<queue, told, raised, clock>>
        /\ \/ mem' = [mem EXCEPT !.owed = None] /\ disk' = mem'
           \/ UNCHANGED <<mem, disk>> /\ pc' = "drain"
    BY <1>3 DEF FlushSave, Saved, NotSaved
  <2>2. CASE UNCHANGED <<mem, disk>> /\ pc' = "drain"
    BY <2>1, <2>2, QuietBooks
  <2>3. CASE mem' = [mem EXCEPT !.owed = None] /\ disk' = mem'
    <3>1. mem \in Ledgers
      BY DEF TypeInv, LedgerOK
    <3>2. mem'.owed = None /\ mem'.started = mem.started /\ mem'.events = mem.events
      BY <2>3, <3>1 DEF Ledgers
    <3>3. /\ disk'.owed = None /\ disk'.started = disk.started
          /\ Known(disk') = Known(disk)
      <4>1. Known(disk') = Known(mem)
        BY <2>3, <3>2 DEF Known
      <4> QED BY <2>1, <2>3, <3>2, <4>1 DEF BookInv, SameBooks
    <3>4. SameBooks' /\ RemovedKnown'
      BY <2>1, <2>3 DEF SameBooks, RemovedKnown
    <3>5. NoneLost' /\ TakenTold'
      BY <2>1, <3>3 DEF BookInv, NoneLost, TakenTold
    <3>6. OwedTrue'
      BY <2>1, <3>3 DEF BookInv, OwedTrue
    <3> QED BY <3>4, <3>5, <3>6 DEF BookInv
  <2> QED BY <2>1, <2>2, <2>3
<1> QED BY <1>1, <1>2, <1>3

(* An edge is taken when none is owed: the end of the episode that runs, or *)
(* the beginning of one that nobody has heard of.                           *)
LEMMA EpisodeEdgeIs ==
    ASSUME TypeInv, BookInv, EpisodeEdge
    PROVE  /\ pc = "edge" /\ UNCHANGED <<queue, told, raised, consumed>>
           /\ clock' \in Nat /\ clock <= clock'
           /\ disk.owed = None
           /\ \/ UNCHANGED <<mem, disk>> /\ pc' = "drain"
              \/ /\ disk.started = 0 /\ pc' = "reflush" /\ mem' = disk'
                 /\ disk'.events = mem.events
                 /\ disk'.started = clock + 1 /\ clock' = clock + 1
                 /\ clock + 1 \in 1..MaxEpisodes
                 /\ disk'.owed = [kind |-> "active", episode |-> clock + 1]
              \/ /\ disk.started # 0 /\ pc' = "reflush" /\ mem' = disk'
                 /\ disk'.events = mem.events
                 /\ disk'.started = 0 /\ clock' = clock
                 /\ disk'.owed = [kind |-> "ended", episode |-> disk.started]
<1>1. /\ pc = "edge" /\ UNCHANGED <<queue, told, raised, consumed>>
      /\ \/ Saved(EdgeTaken) /\ pc' = "reflush"
         \/ NotSaved(mem) /\ pc' = "drain"
  BY DEF EpisodeEdge, EdgeTaken
<1>2. mem \in Ledgers /\ clock \in Nat /\ MaxEpisodes \in Nat
  BY OutboxAssumption DEF TypeInv, LedgerOK
<1>3. disk.owed = None /\ mem.started = disk.started
  BY <1>1 DEF BookInv, SameBooks, OwedTrue
<1>4. (IF mem.started = 0 THEN clock + 1 ELSE mem.started) <= MaxEpisodes
      /\ clock' = IF mem.started = 0
                  THEN IF mem.started = 0 THEN clock + 1 ELSE mem.started ELSE clock
  BY DEF EpisodeEdge
<1>5. clock' \in Nat /\ clock <= clock'
  BY <1>2, <1>4
<1>6. CASE NotSaved(mem) /\ pc' = "drain"
  BY <1>1, <1>3, <1>5, <1>6 DEF NotSaved
<1>7. CASE Saved(EdgeTaken) /\ pc' = "reflush"
  <2>1. mem' = EdgeTaken /\ disk' = EdgeTaken
    BY <1>7 DEF Saved
  <2>2. CASE mem.started = 0
    <3>1. EdgeTaken = [mem EXCEPT !.started = clock + 1,
                                  !.owed = [kind |-> "active", episode |-> clock + 1]]
      BY <2>2 DEF EdgeTaken
    <3>2. /\ EdgeTaken.started = clock + 1 /\ EdgeTaken.events = mem.events
          /\ EdgeTaken.owed = [kind |-> "active", episode |-> clock + 1]
      BY <1>2, <3>1 DEF Ledgers
    <3>3. clock + 1 \in 1..MaxEpisodes /\ clock' = clock + 1
      BY <1>2, <1>4, <2>2
    <3> QED BY <1>1, <1>3, <1>5, <1>7, <2>1, <2>2, <3>2, <3>3
  <2>3. CASE mem.started # 0
    <3>1. EdgeTaken = [mem EXCEPT !.started = 0,
                                  !.owed = [kind |-> "ended", episode |-> mem.started]]
      BY <2>3 DEF EdgeTaken
    <3>2. /\ EdgeTaken.started = 0 /\ EdgeTaken.events = mem.events
          /\ EdgeTaken.owed = [kind |-> "ended", episode |-> mem.started]
      BY <1>2, <3>1 DEF Ledgers
    <3> QED BY <1>1, <1>3, <1>4, <1>5, <1>7, <2>1, <2>3, <3>2
  <2> QED BY <2>2, <2>3
<1> QED BY <1>1, <1>6, <1>7

LEMMA EdgeBooks == TypeInv /\ BookInv /\ (NoEdge \/ EpisodeEdge) => BookInv'
<1> SUFFICES ASSUME TypeInv, BookInv, NoEdge \/ EpisodeEdge PROVE BookInv'
  OBVIOUS
<1>1. CASE NoEdge
  BY <1>1, QuietBooks DEF NoEdge
<1>2. CASE EpisodeEdge
  <2>1. /\ pc = "edge" /\ UNCHANGED <<queue, told, raised, consumed>>
        /\ clock' \in Nat /\ clock <= clock'
        /\ disk.owed = None
    BY <1>2, EpisodeEdgeIs
  <2>2. /\ clock \in Nat /\ disk.started \in Nat
        /\ \A e \in Range(told) : e.episode \in Nat
    <3>1. told \in Seq(Edges) /\ Range(told) \subseteq Edges
      BY RangeOfSeq DEF TypeInv
    <3>2. \A e \in Edges : e.episode \in Nat
      BY OutboxAssumption DEF Edges
    <3>3. clock \in Nat /\ disk.started \in Nat
      BY OutboxAssumption DEF TypeInv, LedgerOK, Ledgers
    <3> QED BY <3>1, <3>2, <3>3
  <2>3. \A e \in Range(told) : e.episode <= clock /\ e.episode <= clock'
    <3>1. \A e \in Range(told) : e.episode <= clock
      BY DEF BookInv, OwedTrue
    <3> QED BY <2>1, <2>2, <3>1
  <2>4. disk.started <= clock
    BY DEF BookInv, OwedTrue
  <2>5. CASE UNCHANGED <<mem, disk>> /\ pc' = "drain"
    <3>1. SameBooks' /\ NoneLost' /\ RemovedKnown' /\ TakenTold'
      BY <2>1, <2>5 DEF BookInv, SameBooks, NoneLost, RemovedKnown, TakenTold
    <3>2. disk'.started <= clock'
      BY <2>1, <2>2, <2>4, <2>5
    <3>3. OwedTrue'
      BY <2>1, <2>3, <2>5, <3>2 DEF BookInv, OwedTrue
    <3> QED BY <3>1, <3>3 DEF BookInv
  <2>6. ASSUME mem' = disk', disk'.events = mem.events, pc' = "reflush"
        PROVE  SameBooks' /\ NoneLost' /\ RemovedKnown' /\ TakenTold'
    <3>1. Known(disk') = Known(disk)
      BY <2>1, <2>6 DEF BookInv, SameBooks, Known
    <3>2. SameBooks' /\ RemovedKnown'
      BY <2>6 DEF SameBooks, RemovedKnown
    <3> QED BY <2>1, <3>1, <3>2 DEF BookInv, NoneLost, TakenTold
  <2>7. CASE /\ disk.started = 0 /\ pc' = "reflush" /\ mem' = disk'
             /\ disk'.events = mem.events
             /\ disk'.started = clock + 1 /\ clock' = clock + 1
             /\ disk'.owed = [kind |-> "active", episode |-> clock + 1]
    <3>1. [kind |-> "ended", episode |-> clock + 1] \notin Range(told)
      BY <2>2, <2>3
    <3>2. disk'.started <= clock' /\ disk'.owed.episode <= clock'
          /\ disk'.owed.kind # "ended"
      BY <2>2, <2>7
    <3>3. OwedTrue'
      BY <2>1, <2>3, <2>7, <3>1, <3>2 DEF OwedTrue
    <3> QED BY <2>6, <2>7, <3>3 DEF BookInv
  <2>8. CASE /\ disk.started # 0 /\ pc' = "reflush" /\ mem' = disk'
             /\ disk'.events = mem.events
             /\ disk'.started = 0 /\ clock' = clock
             /\ disk'.owed = [kind |-> "ended", episode |-> disk.started]
    <3>1. disk'.started <= clock' /\ disk'.owed.episode <= clock'
      BY <2>2, <2>4, <2>8
    <3>2. OwedTrue'
      BY <2>1, <2>3, <2>8, <3>1 DEF OwedTrue
    <3> QED BY <2>6, <2>8, <3>2 DEF BookInv
  <2> QED BY <1>2, <2>5, <2>7, <2>8, EpisodeEdgeIs
<1> QED BY <1>1, <1>2

LEMMA OutsideBooks == TypeInv /\ BookInv /\ (Environment \/ Crash \/ Restart) => BookInv'
<1> SUFFICES ASSUME TypeInv, BookInv, Environment \/ Crash \/ Restart PROVE BookInv'
  OBVIOUS
<1>1. CASE Environment
  <2>1. UNCHANGED <<mem, disk, pc, consumed, queue, told, raised, clock>>
    BY <1>1 DEF Environment, Dispatcher, Hook, Late, daemonVars
  <2> QED BY <2>1 DEF BookInv, SameBooks, NoneLost, RemovedKnown, TakenTold, OwedTrue
<1>2. CASE Crash
  BY <1>2 DEF Crash, BookInv, SameBooks, NoneLost, RemovedKnown, TakenTold, OwedTrue
<1>3. CASE Restart
  BY <1>3 DEF Restart, BookInv, SameBooks, NoneLost, RemovedKnown, TakenTold, OwedTrue
<1> QED BY <1>1, <1>2, <1>3

LEMMA StepBooks == TypeInv /\ Roomy /\ BookInv /\ [Next]_vars => BookInv'
<1>1. BookInv /\ UNCHANGED vars => BookInv'
  BY DEF vars, BookInv, SameBooks, NoneLost, RemovedKnown, TakenTold, OwedTrue
<1> QED BY <1>1, DrainBooks, RemoveBooks, DispatchBooks, WorkBooks, FlushBooks, EdgeBooks,
           OutsideBooks DEF Next, Tick, Handlers

-----------------------------------------------------------------------------
(* Dispatches and deliveries.                                              *)

(* The events the ledger has given to a dispatcher. *)
Marked(l) == {l.events[i].event : i \in {j \in DOMAIN l.events : l.events[j].dispatched}}

(* An event was given out once if it is marked, and else not at all, but    *)
(* for the marks that crashes have lost.                                    *)
SentInv ==
    \A e \in Events :
        sent[e] <= faults.crash + (IF pc # "down" /\ e \in Marked(mem) THEN 1 ELSE 0)

(* A running daemon knows of every delivery that is on disk. *)
DeliveryInv ==
    pc # "down" =>
        \A i \in DOMAIN disk.events, j \in DOMAIN mem.events, t \in Transports :
            disk.events[i].event = mem.events[j].event
            /\ disk.events[i].delivery[t] = "delivered"
                => mem.events[j].delivery[t] = "delivered"

(* Marks survive a step and no event is given out. *)
LEMMA QuietSent ==
    ASSUME SentInv, TypeInv, UNCHANGED sent, faults'.crash = faults.crash, pc' # "down",
           pc # "down" => Marked(mem) \subseteq Marked(mem')
    PROVE  SentInv'
<1>1. faults.crash \in Nat /\ sent \in [Events -> Nat]
  BY DEF TypeInv
<1> QED BY <1>1 DEF SentInv

LEMMA DrainSent ==
    ASSUME TypeInv, Roomy, SentInv, Drain
    PROVE  SentInv'
<1>1. pc = "drain" /\ UNCHANGED sent /\ mem \in Ledgers
  BY DEF Drain, TypeInv, LedgerOK
<1>2. ASSUME NEW s, Carries(s), mem' = [mem EXCEPT !.events = s]
      PROVE  Marked(mem) \subseteq Marked(mem')
  <2>1. mem'.events = s
    BY <1>1, <1>2 DEF Ledgers
  <2> SUFFICES ASSUME NEW i \in DOMAIN mem.events, mem.events[i].dispatched
               PROVE  mem.events[i].event \in Marked(mem')
    BY DEF Marked
  <2>2. PICK k \in DOMAIN s : Better(mem.events[i], s[k])
    BY <1>2 DEF Carries
  <2> QED BY <2>1, <2>2 DEF Marked, Better
<1>3. CASE UNCHANGED <<mem, disk, faults, consumed>> /\ pc' = "dispatch"
  BY <1>1, <1>3, QuietSent
<1>4. CASE mem' = [mem EXCEPT !.events = Drained] /\ pc' = "remove" /\ UNCHANGED faults
  BY <1>1, <1>2, <1>4, DrainedCarries, QuietSent
<1>5. CASE /\ mem' = [mem EXCEPT !.events = GivenBack] /\ pc' = "work"
           /\ faults'.crash = faults.crash
  BY <1>1, <1>2, <1>5, GivenBackCarries, QuietSent
<1> QED BY <1>3, <1>4, <1>5, DrainEnds

LEMMA DispatchSent ==
    ASSUME TypeInv, SentInv, Dispatch
    PROVE  SentInv'
<1>1. pc = "dispatch" /\ pc' = pc /\ faults.crash \in Nat /\ sent \in [Events -> Nat]
  BY DEF Dispatch, TypeInv
<1>2. faults'.crash = faults.crash
  <2>1. faults \in FaultTypes
    BY DEF TypeInv, FaultTypes
  <2> QED BY <2>1 DEF Dispatch, FaultTypes
<1>3. /\ DOMAIN mem'.events = DOMAIN mem.events
      /\ \A j \in DOMAIN mem.events : mem'.events[j].event = mem.events[j].event
  BY DispatchKnown
<1>4. CASE /\ UNCHANGED sent
           /\ \A j \in DOMAIN mem.events :
                mem'.events[j].dispatched = mem.events[j].dispatched
  <2>1. Marked(mem) \subseteq Marked(mem')
    BY <1>3, <1>4 DEF Marked
  <2> QED BY <1>1, <1>2, <1>4, <2>1, QuietSent
<1>5. CASE \E i \in DOMAIN mem.events :
             /\ mem.events[i].dispatched = FALSE
             /\ mem'.events[i].dispatched
             /\ \A j \in DOMAIN mem.events \ {i} :
                  mem'.events[j].dispatched = mem.events[j].dispatched
             /\ sent' = [sent EXCEPT ![mem.events[i].event] = @ + 1]
  <2>1. PICK i \in DOMAIN mem.events :
             /\ mem.events[i].dispatched = FALSE
             /\ mem'.events[i].dispatched
             /\ \A j \in DOMAIN mem.events \ {i} :
                  mem'.events[j].dispatched = mem.events[j].dispatched
             /\ sent' = [sent EXCEPT ![mem.events[i].event] = @ + 1]
    BY <1>5
  <2> DEFINE e == mem.events[i].event
  <2>2. e \notin Marked(mem)
    <3>1. \A j \in DOMAIN mem.events : mem.events[j].event = e => j = i
      BY DEF TypeInv, LedgerOK, Published
    <3> QED BY <2>1, <3>1 DEF Marked
  <2>3. e \in Marked(mem')
    BY <1>3, <2>1 DEF Marked
  <2>4. Marked(mem) \subseteq Marked(mem')
    BY <1>3, <2>1 DEF Marked
  <2> HIDE DEF e
  <2>5. SUFFICES ASSUME NEW x \in Events
                 PROVE  sent'[x] <= faults'.crash + (IF x \in Marked(mem') THEN 1 ELSE 0)
    BY <1>1 DEF SentInv
  <2>6. sent[x] <= faults.crash + (IF x \in Marked(mem) THEN 1 ELSE 0)
    BY <1>1 DEF SentInv
  <2>7. CASE x = e
    <3>1. sent'[x] = sent[x] + 1
      BY <1>1, <2>1, <2>7 DEF e
    <3> QED BY <1>1, <1>2, <2>2, <2>3, <2>6, <2>7, <3>1
  <2>8. CASE x # e
    <3>1. sent'[x] = sent[x]
      BY <1>1, <2>1, <2>8 DEF e
    <3> QED BY <1>1, <1>2, <2>4, <2>6, <3>1
  <2> QED BY <2>7, <2>8
<1> QED BY <1>4, <1>5, DispatchKnown

LEMMA DownSent ==
    ASSUME TypeInv, SentInv, Crash \/ Restart
    PROVE  SentInv'
<1>1. faults \in FaultTypes /\ sent \in [Events -> Nat] /\ faults.crash \in Nat
  BY DEF TypeInv, FaultTypes
<1>2. CASE Crash
  <2>1. faults'.crash = faults.crash + 1 /\ pc' = "down" /\ UNCHANGED sent
    BY <1>1, <1>2 DEF Crash, FaultTypes
  <2> SUFFICES ASSUME NEW e \in Events
               PROVE  sent'[e] <= faults'.crash + 0
    BY <2>1 DEF SentInv
  <2>2. sent[e] <= faults.crash + 1
    BY <1>1 DEF SentInv
  <2> QED BY <1>1, <2>1, <2>2
<1>3. CASE Restart
  <2>1. pc = "down" /\ pc' = "drain" /\ UNCHANGED <<sent, faults>>
    BY <1>3 DEF Restart
  <2> QED BY <1>1, <2>1, QuietSent
<1> QED BY <1>2, <1>3

LEMMA StepSent == TypeInv /\ Roomy /\ SentInv /\ [Next]_vars => SentInv'
<1> SUFFICES ASSUME TypeInv, Roomy, SentInv, [Next]_vars PROVE SentInv'
  OBVIOUS
<1> DEFINE Calm ==
      /\ UNCHANGED sent /\ faults'.crash = faults.crash /\ pc # "down" /\ pc' # "down"
      /\ \/ mem' = mem \/ mem'.events = mem.events
<1>1. ASSUME Calm PROVE SentInv'
  <2>1. Marked(mem) \subseteq Marked(mem')
    BY <1>1 DEF Marked
  <2> QED BY <1>1, <2>1, QuietSent
<1>2. faults \in FaultTypes /\ mem \in Ledgers
  BY DEF TypeInv, FaultTypes, LedgerOK
<1>3. \A l : Saved(l) \/ NotSaved(l) => mem' = l /\ faults'.crash = faults.crash
  BY <1>2 DEF Saved, NotSaved, FaultTypes
<1>4. CASE Drain
  BY <1>4, DrainSent
<1>5. CASE RemoveFiles
  BY <1>1, <1>5 DEF RemoveFiles
<1>6. CASE Dispatch
  BY <1>6, DispatchSent
<1>7. CASE Dispatched
  BY <1>1, <1>3, <1>7 DEF Dispatched
<1>8. CASE WorkDone \/ FlushNothing \/ NoEdge \/ Degrade
  BY <1>1, <1>8 DEF WorkDone, FlushNothing, NoEdge, Degrade
<1>9. CASE FlushQueue
  BY <1>1, <1>2, <1>9 DEF FlushQueue, QueueFails, FaultTypes
<1>10. CASE FlushSave
  <2>1. [mem EXCEPT !.owed = None].events = mem.events
    BY <1>2 DEF Ledgers
  <2>2. /\ UNCHANGED sent /\ pc # "down" /\ pc' # "down"
        /\ Saved([mem EXCEPT !.owed = None]) \/ NotSaved(mem)
    BY <1>10 DEF FlushSave
  <2> DEFINE l == [mem EXCEPT !.owed = None]
  <2>3. l.events = mem.events /\ (Saved(l) \/ NotSaved(mem))
    BY <2>1, <2>2
  <2> HIDE DEF l
  <2>4. mem'.events = mem.events /\ faults'.crash = faults.crash
    <3>1. CASE Saved(l)
      BY <1>3, <2>3, <3>1
    <3>2. CASE NotSaved(mem)
      BY <1>3, <3>2
    <3> QED BY <2>3, <3>1, <3>2
  <2> QED BY <1>1, <2>2, <2>4
<1>11. CASE EpisodeEdge
  <2>1. EdgeTaken.events = mem.events
    BY <1>2 DEF EdgeTaken, Ledgers
  <2>2. /\ UNCHANGED sent /\ pc = "edge" /\ pc' # "down"
        /\ Saved(EdgeTaken) \/ NotSaved(mem)
    BY <1>11 DEF EpisodeEdge, EdgeTaken
  <2>3. mem'.events = mem.events /\ faults'.crash = faults.crash
    BY <1>3, <2>1, <2>2
  <2> QED BY <1>1, <2>2, <2>3
<1>12. CASE \E a \in Alerts : Emit(a)
  BY <1>1, <1>2, <1>12 DEF Emit, QueueFails, FaultTypes
<1>13. CASE Environment
  <2>1. faults'.crash = faults.crash /\ UNCHANGED <<mem, pc, sent>>
    BY <1>2, <1>13 DEF Environment, Dispatcher, Hook, Late, daemonVars, FaultTypes
  <2> QED BY <2>1 DEF SentInv
<1>14. CASE Crash \/ Restart
  BY <1>14, DownSent
<1>15. CASE UNCHANGED vars
  BY <1>15 DEF vars, SentInv
<1> QED BY <1>4, <1>5, <1>6, <1>7, <1>8, <1>9, <1>10, <1>11, <1>12, <1>13, <1>14, <1>15
        DEF Next, Tick, Handlers

(* An answer that is on disk as delivered is known to the running daemon.   *)
LEMMA StepDeliveries == TypeInv /\ Roomy /\ BookInv /\ DeliveryInv /\ [Next]_vars => DeliveryInv'
<1> SUFFICES ASSUME TypeInv, Roomy, BookInv, DeliveryInv, [Next]_vars PROVE DeliveryInv'
  OBVIOUS
<1>1. mem \in Ledgers /\ faults \in FaultTypes
  BY DEF TypeInv, FaultTypes, LedgerOK
<1>2. ASSUME pc # "down", disk'.events = disk.events, mem'.events = mem.events
      PROVE  DeliveryInv'
  BY <1>2 DEF DeliveryInv
<1>3. ASSUME disk'.events = mem'.events, TypeInv'
      PROVE  DeliveryInv'
  BY <1>3 DEF DeliveryInv, TypeInv, LedgerOK, Published
<1>4. TypeInv'
  BY StepType
<1>5. \A l : Saved(l) => mem' = l /\ disk' = l
  BY DEF Saved
<1>6. \A l : NotSaved(l) => mem' = l /\ UNCHANGED disk
  BY DEF NotSaved
<1>7. CASE Drain
  <2>1. pc # "down"
    BY <1>7 DEF Drain
  <2>2. CASE UNCHANGED <<mem, disk, faults, consumed>> /\ pc' = "dispatch"
    BY <1>2, <2>1, <2>2
  <2>3. CASE mem' = [mem EXCEPT !.events = Drained] /\ disk' = mem'
    BY <1>3, <1>4, <2>3
  <2>4. CASE mem' = [mem EXCEPT !.events = GivenBack] /\ UNCHANGED disk
    <3>1. mem'.events = GivenBack
      BY <1>1, <2>4 DEF Ledgers
    <3>2. Comes(GivenBack) /\ \A k \in DOMAIN GivenBack : GivenBack[k].event \notin Range(Arrived)
      BY GivenBackCarries
    <3> SUFFICES ASSUME NEW i \in DOMAIN disk.events, NEW k \in DOMAIN GivenBack,
                        NEW t \in Transports,
                        disk.events[i].event = GivenBack[k].event,
                        disk.events[i].delivery[t] = "delivered"
                 PROVE  GivenBack[k].delivery[t] = "delivered"
      BY <2>4, <3>1 DEF DeliveryInv
    <3>3. PICK j \in DOMAIN mem.events : Better(mem.events[j], GivenBack[k])
      BY <3>2 DEF Comes
    <3>4. mem.events[j].delivery[t] = "delivered"
      BY <2>1, <3>3 DEF DeliveryInv, Better
    <3> QED BY <3>3, <3>4 DEF Better
  <2> QED BY <1>7, <2>2, <2>3, <2>4, DrainEnds
<1>8. CASE RemoveFiles
  BY <1>2, <1>8 DEF RemoveFiles
<1>9. CASE Dispatch
  <2>1. pc # "down" /\ UNCHANGED disk
    BY <1>9 DEF Dispatch
  <2>2. /\ DOMAIN mem'.events = DOMAIN mem.events
        /\ \A j \in DOMAIN mem.events :
             /\ mem'.events[j].event = mem.events[j].event
             /\ \A t \in Transports : mem.events[j].delivery[t] = "delivered" =>
                  mem'.events[j].delivery[t] = "delivered"
    BY <1>9, DispatchKnown
  <2> QED BY <2>1, <2>2 DEF DeliveryInv
<1>10. CASE Dispatched
  <2>1. pc # "down" /\ (UNCHANGED <<mem, disk>> \/ Saved(mem) \/ NotSaved(mem))
    BY <1>10 DEF Dispatched
  <2>2. CASE UNCHANGED <<mem, disk>>
    BY <1>2, <2>1, <2>2
  <2>3. CASE Saved(mem)
    BY <1>3, <1>4, <1>5, <2>3
  <2>4. CASE NotSaved(mem)
    BY <1>2, <1>6, <2>1, <2>4
  <2> QED BY <2>1, <2>2, <2>3, <2>4
<1>11. CASE WorkDone \/ FlushNothing \/ NoEdge \/ Degrade \/ FlushQueue
  BY <1>2, <1>11 DEF WorkDone, FlushNothing, NoEdge, Degrade, FlushQueue
<1>12. CASE FlushSave
  <2>1. pc # "down" /\ (Saved([mem EXCEPT !.owed = None]) \/ NotSaved(mem))
    BY <1>12 DEF FlushSave
  <2>2. CASE Saved([mem EXCEPT !.owed = None])
    BY <1>3, <1>4, <1>5, <2>2
  <2>3. CASE NotSaved(mem)
    BY <1>2, <1>6, <2>1, <2>3
  <2> QED BY <2>1, <2>2, <2>3
<1>13. CASE EpisodeEdge
  <2>1. pc # "down" /\ (Saved(EdgeTaken) \/ NotSaved(mem))
    BY <1>13 DEF EpisodeEdge, EdgeTaken
  <2>2. CASE Saved(EdgeTaken)
    BY <1>3, <1>4, <1>5, <2>2
  <2>3. CASE NotSaved(mem)
    BY <1>2, <1>6, <2>1, <2>3
  <2> QED BY <2>1, <2>2, <2>3
<1>14. CASE \E a \in Alerts : Emit(a)
  BY <1>2, <1>14 DEF Emit
<1>15. CASE Environment
  BY <1>15 DEF Environment, Dispatcher, Hook, Late, daemonVars, DeliveryInv
<1>16. CASE Crash
  BY <1>16 DEF Crash, DeliveryInv
<1>17. CASE Restart
  BY <1>3, <1>4, <1>17 DEF Restart
<1>18. CASE UNCHANGED vars
  BY <1>18 DEF vars, DeliveryInv
<1> QED BY <1>7, <1>8, <1>9, <1>10, <1>11, <1>12, <1>13, <1>14, <1>15, <1>16, <1>17, <1>18
        DEF Next, Tick, Handlers

-----------------------------------------------------------------------------
(* What follows for as long as the ledger has room for what it is told.    *)

KeptInv == TypeInv /\ BookInv /\ SentInv /\ DeliveryInv

LEMMA InitKept == Init => KeptInv
<1> SUFFICES ASSUME Init PROVE KeptInv
  OBVIOUS
<1>1. TypeInv /\ BookInv
  BY InitType, InitBooks
<1>2. SentInv
  <2>1. faults.crash = 0 /\ \A e \in Events : sent[e] = 0
    BY DEF Init
  <2> QED BY <2>1 DEF SentInv
<1>3. DeliveryInv
  BY DEF Init, EmptyLedger, DeliveryInv
<1> QED BY <1>1, <1>2, <1>3 DEF KeptInv

LEMMA StepKept == KeptInv /\ Roomy /\ [Next]_vars => KeptInv'
  BY StepType, StepBooks, StepSent, StepDeliveries DEF KeptInv

LEMMA AlwaysKept == Spec /\ []Roomy => []KeptInv
  BY InitKept, StepKept, PTL DEF Spec

(* NotificationOutbox: as long as nothing has to be forgotten, an event     *)
(* whose file was written is in the queue or in runtime.json, whichever     *)
(* write fails and whenever the daemon crashes.                             *)
THEOREM QueuedIsKept == Spec /\ []Roomy => []QueuedKept
<1>1. KeptInv => QueuedKept
  <2> SUFFICES ASSUME KeptInv PROVE QueuedKept
    OBVIOUS
  <2>1. \A i \in DOMAIN told : told[i] \in Range(told)
    BY DEF Range
  <2> QED BY <2>1 DEF KeptInv, BookInv, NoneLost, QueuedKept
<1> QED BY <1>1, AlwaysKept, PTL

(* NotificationOutbox: no event is given to a dispatcher twice, and never   *)
(* more often than once and once more for each crash.                       *)
THEOREM SentIsOnce == Spec /\ []Roomy => []SentOnce
<1>1. KeptInv => SentOnce
  <2> SUFFICES ASSUME KeptInv, NEW e \in DOMAIN sent PROVE sent[e] <= 1 + faults.crash
    BY DEF SentOnce
  <2>1. sent \in [Events -> Nat] /\ faults.crash \in Nat
    BY DEF KeptInv, TypeInv
  <2>2. sent[e] <= faults.crash + (IF pc # "down" /\ e \in Marked(mem) THEN 1 ELSE 0)
    BY <2>1 DEF KeptInv, SentInv
  <2> QED BY <2>1, <2>2
<1> QED BY <1>1, AlwaysKept, PTL

(* What a step writes to the file it had in memory, as good or better, or   *)
(* it has just come.                                                        *)
LEMMA WrittenIs ==
    ASSUME KeptInv, Roomy, [Next]_vars
    PROVE  \/ UNCHANGED disk
           \/ /\ pc # "down" /\ disk' = mem'
              /\ \/ mem'.events = mem.events
                 \/ mem'.events = Drained
<1>1. mem \in Ledgers
  BY DEF KeptInv, TypeInv, LedgerOK
<1>2. \A l : Saved(l) => disk' = l /\ mem' = l
  BY DEF Saved
<1>3. \A l : NotSaved(l) => UNCHANGED disk
  BY DEF NotSaved
<1>4. CASE Drain
  <2>1. pc # "down"
    BY <1>4 DEF Drain
  <2>2. CASE mem' = [mem EXCEPT !.events = Drained] /\ disk' = mem'
    BY <1>1, <2>1, <2>2 DEF Ledgers
  <2> QED BY <1>4, <2>2, DrainEnds DEF KeptInv
<1>5. CASE Dispatched
  BY <1>2, <1>3, <1>5 DEF Dispatched
<1>6. CASE FlushSave
  <2> DEFINE l == [mem EXCEPT !.owed = None]
  <2>1. pc # "down" /\ (Saved(l) \/ NotSaved(mem)) /\ l.events = mem.events
    BY <1>1, <1>6 DEF FlushSave, Ledgers
  <2> HIDE DEF l
  <2> QED BY <1>2, <1>3, <2>1
<1>7. CASE EpisodeEdge
  <2>1. pc # "down" /\ (Saved(EdgeTaken) \/ NotSaved(mem))
    BY <1>7 DEF EpisodeEdge, EdgeTaken
  <2>2. EdgeTaken.events = mem.events
    BY <1>1 DEF EdgeTaken, Ledgers
  <2> QED BY <1>2, <1>3, <2>1, <2>2
<1>8. CASE \/ RemoveFiles \/ Dispatch \/ WorkDone \/ FlushNothing \/ FlushQueue \/ NoEdge
           \/ Handlers \/ Environment \/ Crash \/ Restart \/ UNCHANGED vars
  BY <1>8 DEF RemoveFiles, Dispatch, WorkDone, FlushNothing, FlushQueue, NoEdge,
              Handlers, Emit, Degrade, Environment, Dispatcher, Hook, Late, Crash, Restart, vars
<1> QED BY <1>4, <1>5, <1>6, <1>7, <1>8 DEF Next, Tick

LEMMA StepStands == KeptInv /\ Roomy /\ [Next]_vars => DeliveriesStand
<1> SUFFICES ASSUME KeptInv, Roomy, [Next]_vars,
                    NEW i \in DOMAIN disk.events, NEW t \in Transports,
                    disk.events[i].delivery[t] = "delivered",
                    NEW j \in DOMAIN disk'.events,
                    disk'.events[j].event = disk.events[i].event
             PROVE  disk'.events[j].delivery[t] = "delivered"
  BY DEF DeliveriesStand
<1>1. TypeInv /\ DeliveryInv /\ BookInv
  BY DEF KeptInv
<1>2. CASE UNCHANGED disk
  BY <1>1, <1>2 DEF TypeInv, LedgerOK, Published
<1>3. CASE pc # "down" /\ disk' = mem' /\ mem'.events = mem.events
  BY <1>1, <1>3 DEF DeliveryInv
<1>4. CASE pc # "down" /\ disk' = mem' /\ mem'.events = Drained
  <2>1. disk'.events = Drained
    BY <1>4
  <2>2. disk.events[i].event \in Known(mem)
    BY <1>1, <1>4 DEF BookInv, SameBooks, Known
  <2>3. Drained[j].event \notin Range(Arrived)
    BY <1>1, <2>1, <2>2, ArrivedIs
  <2>4. PICK k \in DOMAIN mem.events : Better(mem.events[k], Drained[j])
    BY <1>1, <2>1, <2>3, DrainedCarries DEF Comes
  <2>5. mem.events[k].delivery[t] = "delivered"
    BY <1>1, <1>4, <2>1, <2>4 DEF DeliveryInv, Better
  <2> QED BY <2>1, <2>4, <2>5 DEF Better
<1> QED BY <1>2, <1>3, <1>4, WrittenIs

(* NotificationOutbox: a delivery that was recorded stays recorded, across  *)
(* later answers, time limits, unsaved ledgers and crashes.                 *)
THEOREM DeliveriesAreKept == Spec /\ []Roomy => DeliveredKept
  BY StepStands, AlwaysKept, PTL DEF Spec, DeliveredKept

-----------------------------------------------------------------------------
(* The outbox keeps the promise of EpisodeEdges.                           *)

(* The edge that has yet to be told: the one owed, unless its file was      *)
(* written and the ledger has not noted it.                                 *)
Untold == IF disk.owed \in Range(told) THEN None ELSE disk.owed

LEMMA NoneIsNoEdge == TypeInv => None \notin Range(told)
  BY OutboxAssumption, RangeOfSeq DEF TypeInv

LEMMA InitPromise == Init => Promise!EdgesInit
<1> SUFFICES ASSUME Init PROVE Promise!EdgesInit
  OBVIOUS
<1>1. disk.started = 0 /\ disk.owed = None /\ told = <<>>
  BY DEF Init, EmptyLedger
<1> QED BY <1>1 DEF Promise!EdgesInit

(* A step that neither tells an edge nor takes one. *)
LEMMA QuietPromise ==
    ASSUME UNCHANGED <<disk.started, told>>, Untold' = Untold
    PROVE  UNCHANGED Promise!edgeVars
  BY DEF Promise!edgeVars, Untold

LEMMA FlushPromise ==
    ASSUME TypeInv, BookInv, FlushQueue \/ FlushSave
    PROVE  [Promise!EdgesNext]_(Promise!edgeVars)
<1>1. CASE FlushQueue
  <2>1. mem.owed \in Edges /\ mem.owed = disk.owed /\ UNCHANGED disk
    BY <1>1, FlushQueueIs
  <2>2. CASE UNCHANGED told
    BY <2>1, <2>2, QuietPromise DEF Untold
  <2>3. CASE mem.owed \notin Range(told) /\ told' = Append(told, mem.owed)
    <3>1. Untold = disk.owed /\ Untold # None
      BY <2>1, <2>3, OutboxAssumption DEF Untold
    <3>2. disk'.owed \in Range(told')
      BY <2>1, <2>3, ToldMore
    <3>3. Untold' = None
      BY <3>2 DEF Untold
    <3>4. Promise!Announce
      BY <2>1, <2>3, <3>1, <3>3 DEF Promise!Announce, Untold
    <3> QED BY <3>4 DEF Promise!EdgesNext
  <2> QED BY <1>1, <2>2, <2>3, FlushQueueIs
<1>2. CASE FlushSave
  <2>1. /\ pc \in {"flush_save", "reflush_save"} /\ UNCHANGED told
        /\ Saved([mem EXCEPT !.owed = None]) \/ NotSaved(mem)
    BY <1>2 DEF FlushSave
  <2>2. CASE NotSaved(mem)
    BY <2>1, <2>2, QuietPromise DEF NotSaved, Untold
  <2>3. CASE Saved([mem EXCEPT !.owed = None])
    <3>1. mem \in Ledgers /\ mem.started = disk.started
      BY <2>1 DEF TypeInv, LedgerOK, BookInv, SameBooks
    <3>2. disk' = [mem EXCEPT !.owed = None]
      BY <2>3 DEF Saved
    <3>3. disk'.owed = None /\ disk'.started = disk.started
      BY <3>1, <3>2 DEF Ledgers
    <3>4. disk.owed \in Range(told)
      BY <2>1 DEF BookInv, OwedTrue
    <3>5. Untold = None /\ Untold' = None
      BY <3>3, <3>4 DEF Untold
    <3> QED BY <2>1, <3>3, <3>5, QuietPromise
  <2> QED BY <2>1, <2>2, <2>3
<1> QED BY <1>1, <1>2

LEMMA EdgePromise ==
    ASSUME TypeInv, BookInv, EpisodeEdge
    PROVE  [Promise!EdgesNext]_(Promise!edgeVars)
<1>1. UNCHANGED told /\ disk.owed = None
  BY EpisodeEdgeIs
<1>2. told \in Seq(Edges) /\ clock \in Nat /\ None \notin Range(told)
  BY NoneIsNoEdge, OutboxAssumption DEF TypeInv
<1>3. /\ \A i \in DOMAIN told : told[i] \in Range(told)
      /\ \A e \in Range(told) : e.episode <= clock /\ e.episode \in Nat
  <2>1. Range(told) \subseteq Edges
    BY <1>2, RangeOfSeq
  <2>2. \A e \in Edges : e.episode \in Nat
    BY OutboxAssumption DEF Edges
  <2> QED BY <2>1, <2>2 DEF BookInv, OwedTrue, Range
<1>4. Untold = None
  BY <1>1 DEF Untold
<1>5. CASE UNCHANGED disk
  BY <1>1, <1>5, QuietPromise DEF Untold
<1>6. CASE /\ disk.started = 0 /\ disk'.started = clock + 1
           /\ clock + 1 \in 1..MaxEpisodes
           /\ disk'.owed = [kind |-> "active", episode |-> clock + 1]
  <2>1. \A e \in Range(told) : e.episode # clock + 1
    BY <1>2, <1>3
  <2>2. Untold' = [kind |-> "active", episode |-> clock + 1]
    BY <1>1, <1>6, <2>1 DEF Untold
  <2>3. Promise!Begin(clock + 1)
    BY <1>1, <1>3, <1>4, <1>6, <2>1, <2>2 DEF Promise!Begin, Untold
  <2> QED BY <1>6, <2>3 DEF Promise!EdgesNext
<1>7. CASE /\ disk.started # 0 /\ disk'.started = 0
           /\ disk'.owed = [kind |-> "ended", episode |-> disk.started]
  <2>1. disk'.owed \notin Range(told)
    BY <1>7 DEF BookInv, OwedTrue
  <2>2. Untold' = [kind |-> "ended", episode |-> disk.started]
    BY <1>1, <1>7, <2>1 DEF Untold
  <2>3. Promise!End
    BY <1>1, <1>4, <1>7, <2>2 DEF Promise!End, Untold
  <2> QED BY <2>3 DEF Promise!EdgesNext
<1> QED BY <1>5, <1>6, <1>7, EpisodeEdgeIs

(* The other writes carry the episode and what is owed as they were.        *)
LEMMA OtherPromise ==
    ASSUME KeptInv, [Next]_vars, ~(FlushQueue \/ FlushSave \/ EpisodeEdge)
    PROVE  UNCHANGED <<disk.started, disk.owed, told>>
<1>1. CASE Drain
  <2>1. pc = "drain" /\ UNCHANGED told /\ mem \in Ledgers
    BY <1>1 DEF Drain, KeptInv, TypeInv, LedgerOK
  <2>2. CASE mem' = [mem EXCEPT !.events = Drained] /\ disk' = mem'
    <3>1. disk'.started = mem.started /\ disk'.owed = mem.owed
      BY <2>1, <2>2 DEF Ledgers
    <3> QED BY <2>1, <3>1 DEF KeptInv, BookInv, SameBooks
  <2>3. CASE UNCHANGED disk
    BY <2>1, <2>3
  <2> QED BY <1>1, <2>2, <2>3, DrainEnds DEF KeptInv
<1>2. CASE Dispatched
  <2>1. pc = "dispatch" /\ UNCHANGED told /\ (UNCHANGED disk \/ disk' = mem)
    BY <1>2 DEF Dispatched, Saved, NotSaved
  <2> QED BY <2>1 DEF KeptInv, BookInv, SameBooks
<1>3. CASE \/ RemoveFiles \/ Dispatch \/ WorkDone \/ FlushNothing \/ NoEdge
           \/ Handlers \/ Environment \/ Crash \/ Restart \/ UNCHANGED vars
  BY <1>3 DEF RemoveFiles, Dispatch, WorkDone, FlushNothing, NoEdge,
              Handlers, Emit, Degrade, Environment, Dispatcher, Hook, Late, Crash, Restart, vars
<1> QED BY <1>1, <1>2, <1>3 DEF Next, Tick

LEMMA StepPromise == KeptInv /\ [Next]_vars => [Promise!EdgesNext]_(Promise!edgeVars)
<1> SUFFICES ASSUME KeptInv, [Next]_vars PROVE [Promise!EdgesNext]_(Promise!edgeVars)
  OBVIOUS
<1>1. CASE FlushQueue \/ FlushSave
  BY <1>1, FlushPromise DEF KeptInv
<1>2. CASE EpisodeEdge
  BY <1>2, EdgePromise DEF KeptInv
<1>3. CASE ~(FlushQueue \/ FlushSave \/ EpisodeEdge)
  <2>1. UNCHANGED <<disk.started, disk.owed, told>>
    BY <1>3, OtherPromise
  <2> QED BY <2>1, QuietPromise DEF Untold
<1> QED BY <1>1, <1>2, <1>3

(* NotificationOutbox implements EpisodeEdges: whatever fails between the   *)
(* ledger and the queue, the edges of episodes reach the queue in turn,     *)
(* each once, and none is taken while one is owed.                          *)
THEOREM EdgesArePromised == Spec /\ []Roomy => EdgesPromised
  BY InitPromise, StepPromise, AlwaysKept, PTL DEF Spec, EdgesPromised, Promise!EdgesSpec

-----------------------------------------------------------------------------
(* NotificationOutbox: there is always room when there are no more events   *)
(* in a run than the ledger keeps; the ledger then drops nothing.           *)
THEOREM RoomForAll ==
    ASSUME IsFiniteSet(Events), Cardinality(Events) <= MaxLedger
    PROVE  Spec => []Roomy
<1>1. TypeInv => Roomy
  <2> SUFFICES ASSUME TypeInv PROVE Roomy
    OBVIOUS
  <2> DEFINE n == Len(Gathered)
             event == [i \in 1..n |-> Gathered[i].event]
  <2>1. /\ Gathered \in Seq(Records) /\ DOMAIN Gathered = 1..n /\ n \in Nat
        /\ n = Len(mem.events) + Len(Arrived)
    BY GatheredIs, LenProperties
  <2> HIDE DEF n
  <2>2. \A i \in 1..n : Gathered[i].event \in Events
    <3> TAKE i \in 1..n
    <3>1. Gathered[i] \in Records
      BY <2>1, ElementOfSeq
    <3> QED BY <3>1 DEF Records
  <2>3. event \in Injection(1..n, Events)
    BY <2>1, <2>2, GatheredOnce DEF Injection, IsInjective
  <2> HIDE DEF event
  <2>4. Cardinality(1..n) <= Cardinality(Events)
    BY <2>3, FS_Injection
  <2>5. Cardinality(1..n) = IF 1 > n THEN 0 ELSE n - 1 + 1
    <3>1. 1 \in Int /\ n \in Int
      BY <2>1
    <3> QED BY <3>1, FS_Interval
  <2>6. Cardinality(Events) \in Nat /\ MaxLedger \in Nat
    BY FS_CardinalityType, OutboxAssumption
  <2>7. n <= MaxLedger
    BY <2>1, <2>4, <2>5, <2>6
  <2> QED BY <2>1, <2>7 DEF Roomy
<1> QED BY <1>1, InitType, StepType, PTL DEF Spec

=============================================================================
