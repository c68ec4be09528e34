------------------------- MODULE PauseLedger_proofs -------------------------
(***************************************************************************)
(* Theorems about PauseLedger, for every set of processes and every bound. *)
(***************************************************************************)
EXTENDS PauseLedger, FiniteSetTheorems, SequenceTheorems, WellFoundedInduction,
        TLAPS

USE DEF controlVars

Statuses == OpenStatus \union ClosedStatus

CtlSteps == {"ctl_signal", "ctl_commit"}
SusSteps == {"sus_record", "sus_rollback", "sus_notify", "sus_unseen"}
ProbSteps == {"prob_commit", "prob_rollback", "prob_rolled_back",
              "rel_record", "rel_rollback", "rel_undone"}

(* What the handler in progress relies on from one of its steps to the next. *)
StepOK ==
    /\ pc \in CtlSteps => op.id \in Ids /\ op.what \in ControlActions
    /\ pc \in SusSteps => op.id \in Ids /\ op.what \in PauseReasons
    /\ pc = "rec_commit" => op.id \in Ids
    /\ pc \in ProbSteps => ledger.probation \in Probations
    /\ pc = "reconcile" => todo \subseteq Managed(ledger)

TypeInv == TypeOK /\ StepOK

-----------------------------------------------------------------------------
(* The latest of some incidents is one of them. *)
LEMMA LatestIndex ==
    ASSUME NEW n \in Nat, NEW S \in SUBSET (1..n), S # {}
    PROVE  Max(S) \in S /\ \A j \in S : j <= Max(S)
<1> DEFINE D == {n - j : j \in S}
<1>1. D \subseteq Nat /\ D # {}
  OBVIOUS
<1> HIDE DEF D
<1>2. PICK d \in D : \A m \in D : d <= m
  <2> DEFINE R == OpToRel(<, Nat)
  <2>1. \A x, y \in Nat : x < y => <<x, y>> \in R
    BY DEF OpToRel
  <2>2. IsWellFoundedOn(R, Nat)
    BY NatLessThanWellFounded
  <2> HIDE DEF R
  <2>3. PICK x \in D : \A y \in D : ~(<<y, x>> \in R)
    BY <1>1, <2>2, WFMin
  <2>4. \A y \in D : ~(y < x)
    BY <1>1, <2>1, <2>3
  <2>5. \A y \in D : x <= y
    BY <1>1, <2>4
  <2> QED BY <2>5
<1> USE DEF D
<1>3. PICK i \in S : d = n - i
  BY <1>2
<1>4. \A j \in S : j <= i
  BY <1>2, <1>3
<1>5. \E x \in S : \A y \in S : x >= y
  BY <1>3, <1>4
<1> QED BY <1>5 DEF Max

(* transition_incident changes the incidents only, and keeps them incidents. *)
LEMMA TransitionType ==
    ASSUME NEW l \in Ledgers, NEW id \in Ids, NEW status \in Statuses,
           NEW attempted \in BOOLEAN
    PROVE  /\ Transition(l, id, status, attempted) \in Ledgers
           /\ Transition(l, id, status, attempted).stopped = l.stopped
           /\ Transition(l, id, status, attempted).pending = l.pending
           /\ Transition(l, id, status, attempted).probation = l.probation
           /\ Transition(l, id, status, attempted).cooldown = l.cooldown
<1> DEFINE open == OpenAt(l.incidents, id)
           k == Max(open)
           fresh == [id |-> id, reason |-> "recovered-runtime",
                     status |-> status, attempted |-> attempted,
                     old |-> FALSE]
           moved == [l.incidents[k] EXCEPT
                       !.status = status,
                       !.attempted = l.incidents[k].attempted \/ attempted,
                       !.old = FALSE]
           incidents == IF open = {} THEN Append(l.incidents, fresh)
                        ELSE [l.incidents EXCEPT ![k] = moved]
<1>1. fresh \in Incidents
  BY DEF Incidents, Statuses
<1>2. l.incidents \in Seq(Incidents)
  BY DEF Ledgers
<1>3. [l.incidents EXCEPT ![k] = moved] \in Seq(Incidents)
  <2>1. k \in 1..Len(l.incidents) => moved \in Incidents
    <3>1. (l.incidents[k].attempted \/ attempted) \in BOOLEAN
      OBVIOUS
    <3>2. k \in 1..Len(l.incidents) => l.incidents[k] \in Incidents
      BY <1>2
    <3> QED BY <3>1, <3>2 DEF Incidents, Statuses
  <2>2. DOMAIN l.incidents = 1..Len(l.incidents)
    BY <1>2
  <2> HIDE DEF k, moved
  <2>3. CASE k \in 1..Len(l.incidents)
    BY <1>2, <2>1, <2>3, ExceptSeq
  <2>4. CASE k \notin 1..Len(l.incidents)
    <3>1. [l.incidents EXCEPT ![k] = moved] = l.incidents
      BY <2>2, <2>4, <1>2
    <3> QED BY <3>1, <1>2
  <2> QED BY <2>3, <2>4
<1>4. incidents \in Seq(Incidents)
  BY <1>1, <1>2, <1>3
<1>5. Transition(l, id, status, attempted) = [l EXCEPT !.incidents = incidents]
  BY DEF Transition
<1> HIDE DEF incidents
<1> QED BY <1>4, <1>5 DEF Ledgers

(* The same for the two values the handlers give `attempted`. *)
LEMMA SettleType ==
    ASSUME NEW l \in Ledgers, NEW id \in Ids, NEW status \in Statuses
    PROVE  /\ Transition(l, id, status, FALSE) \in Ledgers
           /\ Transition(l, id, status, FALSE).stopped = l.stopped
           /\ Transition(l, id, status, FALSE).pending = l.pending
           /\ Transition(l, id, status, FALSE).probation = l.probation
           /\ Transition(l, id, status, FALSE).cooldown = l.cooldown
<1>1. FALSE \in BOOLEAN
  OBVIOUS
<1> QED BY <1>1, TransitionType, Zenon

LEMMA AttemptType ==
    ASSUME NEW l \in Ledgers, NEW id \in Ids, NEW status \in Statuses
    PROVE  /\ Transition(l, id, status, TRUE) \in Ledgers
           /\ Transition(l, id, status, TRUE).stopped = l.stopped
           /\ Transition(l, id, status, TRUE).pending = l.pending
           /\ Transition(l, id, status, TRUE).probation = l.probation
           /\ Transition(l, id, status, TRUE).cooldown = l.cooldown
<1>1. TRUE \in BOOLEAN
  OBVIOUS
<1> QED BY <1>1, TransitionType, Zenon

(* Marking and clearing change one entry of `stopped` and nothing else. *)
LEMMA MarkType ==
    ASSUME NEW l \in Ledgers, NEW id \in Ids
    PROVE  /\ MarkStopped(l, id) \in Ledgers
           /\ MarkStopped(l, id).stopped = [l.stopped EXCEPT ![id[1]] = id[2]]
           /\ MarkStopped(l, id).incidents = l.incidents
           /\ MarkStopped(l, id).pending = l.pending
           /\ MarkStopped(l, id).probation = l.probation
           /\ MarkStopped(l, id).cooldown = l.cooldown
BY DEF MarkStopped, PidOf, Ledgers, Ids, Gens

LEMMA ClearType ==
    ASSUME NEW l \in Ledgers, NEW id \in Ids
    PROVE  /\ ClearStopped(l, id) \in Ledgers
           /\ ClearStopped(l, id).stopped = [l.stopped EXCEPT ![id[1]] = 0]
           /\ ClearStopped(l, id).incidents = l.incidents
           /\ ClearStopped(l, id).pending = l.pending
           /\ ClearStopped(l, id).probation = l.probation
           /\ ClearStopped(l, id).cooldown = l.cooldown
BY DEF ClearStopped, PidOf, Ledgers, Ids, Gens

(* suspend_candidate adds an entry and an incident. *)
Recorded(l, id, reason) ==
    [MarkStopped(l, id) EXCEPT
       !.incidents = Append(MarkStopped(l, id).incidents,
                            [id |-> id, reason |-> reason,
                             status |-> "suspended", attempted |-> FALSE,
                             old |-> FALSE])]

LEMMA RecordedType ==
    ASSUME NEW l \in Ledgers, NEW id \in Ids, NEW reason \in PauseReasons
    PROVE  /\ Recorded(l, id, reason) \in Ledgers
           /\ Recorded(l, id, reason).stopped = [l.stopped EXCEPT ![id[1]] = id[2]]
           /\ Recorded(l, id, reason).pending = l.pending
           /\ Recorded(l, id, reason).probation = l.probation
           /\ Recorded(l, id, reason).cooldown = l.cooldown
<1> DEFINE incident == [id |-> id, reason |-> reason,
                        status |-> "suspended", attempted |-> FALSE,
                        old |-> FALSE]
           marked == MarkStopped(l, id)
           incidents == Append(marked.incidents, incident)
<1>1. incident \in Incidents
  BY DEF Incidents, OpenStatus
<1>2. /\ marked \in Ledgers
      /\ marked.stopped = [l.stopped EXCEPT ![id[1]] = id[2]]
      /\ marked.pending = l.pending
      /\ marked.probation = l.probation
      /\ marked.cooldown = l.cooldown
  BY MarkType
<1>3. Recorded(l, id, reason) = [marked EXCEPT !.incidents = incidents]
  BY DEF Recorded
<1> HIDE DEF marked, incident
<1>4. incidents \in Seq(Incidents)
  BY <1>1, <1>2 DEF Ledgers
<1> HIDE DEF incidents
<1> QED BY <1>2, <1>3, <1>4 DEF Ledgers

(* reconcile_stopped closes one entry of `stopped` and keeps the others. *)
LEMMA ClosedType ==
    ASSUME NEW l \in Ledgers, NEW p \in Managed(l), NEW status \in Statuses
    PROVE  /\ <<p, l.stopped[p]>> \in Ids
           /\ Closed(l, p, status) \in Ledgers
           /\ Closed(l, p, status).stopped = [l.stopped EXCEPT ![p] = 0]
           /\ Closed(l, p, status).pending \in {l.pending, None}
           /\ Closed(l, p, status).cooldown = l.cooldown
<1> DEFINE id == <<p, l.stopped[p]>>
           cleared == ClearStopped(l, id)
           unmarked == [cleared EXCEPT
                          !.probation = IF HasProbation(l, id) THEN None
                                        ELSE cleared.probation,
                          !.pending = IF PendingFor(l, p) THEN None
                                      ELSE cleared.pending]
<1>1. id \in Ids
  BY DEF Managed, Ids, Gens, Ledgers
<1>2. cleared \in Ledgers /\ cleared.stopped = [l.stopped EXCEPT ![p] = 0]
      /\ cleared.cooldown = l.cooldown /\ cleared.pending = l.pending
  BY <1>1, ClearType
<1>3. Closed(l, p, status) = Transition(unmarked, id, status, FALSE)
  BY DEF Closed
<1> HIDE DEF cleared, id
<1>4. unmarked \in Ledgers
  BY <1>2 DEF Ledgers
<1>5. /\ unmarked.stopped = cleared.stopped
      /\ unmarked.cooldown = cleared.cooldown
      /\ unmarked.pending \in {cleared.pending, None}
  BY <1>2 DEF Ledgers
<1> HIDE DEF unmarked
<1>6. Closed(l, p, status) \in Ledgers
      /\ Closed(l, p, status).stopped = unmarked.stopped
      /\ Closed(l, p, status).pending = unmarked.pending
      /\ Closed(l, p, status).cooldown = unmarked.cooldown
  <2> DEFINE closed == Transition(unmarked, id, status, FALSE)
  <2>1. /\ closed \in Ledgers
        /\ closed.stopped = unmarked.stopped
        /\ closed.pending = unmarked.pending
        /\ closed.cooldown = unmarked.cooldown
    BY <1>1, <1>4, SettleType, Zenon
  <2> QED BY <1>3, <2>1, Zenon
<1>7. <<p, l.stopped[p]>> \in Ids
  BY <1>1 DEF id
<1> QED BY <1>2, <1>5, <1>6, <1>7

(* How many of some positions are no later than a given one tells it apart. *)
RankIn(S, k) == Cardinality({j \in S : j <= k})

LEMMA RankType ==
    ASSUME NEW n \in Nat, NEW S \in SUBSET (1..n), NEW k \in S
    PROVE  RankIn(S, k) \in 1..Cardinality(S)
<1> DEFINE below == {j \in S : j <= k}
<1>1. IsFiniteSet(S) /\ Cardinality(S) \in Nat
  <2>1. IsFiniteSet(1..n)
    BY FS_Interval
  <2>2. IsFiniteSet(S)
    BY <2>1, FS_Subset
  <2> QED BY <2>2, FS_CardinalityType
<1>2. below \in SUBSET S /\ below # {}
  OBVIOUS
<1> HIDE DEF below
<1>3. IsFiniteSet(below) /\ Cardinality(below) <= Cardinality(S)
  BY <1>1, <1>2, FS_Subset
<1>4. Cardinality(below) \in Nat /\ Cardinality(below) # 0
  BY <1>2, <1>3, FS_CardinalityType, FS_EmptySet
<1>5. Cardinality(below) \in 1..Cardinality(S)
  BY <1>1, <1>3, <1>4
<1> QED BY <1>5 DEF RankIn, below

LEMMA RankGrows ==
    ASSUME NEW n \in Nat, NEW S \in SUBSET (1..n),
           NEW i \in S, NEW j \in S, i < j
    PROVE  RankIn(S, i) # RankIn(S, j)
<1> DEFINE low == {k \in S : k <= i}
           high == {k \in S : k <= j}
<1>1. IsFiniteSet(high)
  <2>1. IsFiniteSet(1..n)
    BY FS_Interval
  <2>2. high \in SUBSET (1..n)
    OBVIOUS
  <2> QED BY <2>1, <2>2, FS_Subset
<1>2. low \in SUBSET high /\ j \in high /\ j \notin low
  <2>1. i \in Nat /\ j \in Nat /\ i <= j /\ ~(j <= i) /\ \A k \in S : k \in Nat
    OBVIOUS
  <2>2. \A k \in S : k <= i => k <= j
    BY <2>1
  <2>3. low \in SUBSET high
    BY <2>2
  <2>4. j \in high /\ j \notin low
    BY <2>1
  <2> QED BY <2>3, <2>4
<1> HIDE DEF low, high
<1>3. Cardinality(high) # Cardinality(low)
  BY <1>1, <1>2, FS_Subset
<1> QED BY <1>3 DEF RankIn, low, high

LEMMA RankIsOne ==
    ASSUME NEW n \in Nat, NEW S \in SUBSET (1..n), NEW i \in S, NEW j \in S,
           RankIn(S, i) = RankIn(S, j)
    PROVE  i = j
<1>1. i < j \/ j < i \/ i = j
  OBVIOUS
<1> QED BY <1>1, RankGrows

LEMMA RankIsAny ==
    ASSUME NEW n \in Nat, NEW S \in SUBSET (1..n), NEW c \in 1..Cardinality(S)
    PROVE  \E k \in S : RankIn(S, k) = c
<1> DEFINE m == Cardinality(S)
           rank == [k \in S |-> RankIn(S, k)]
<1>1. IsFiniteSet(S) /\ m \in Nat
  <2>1. IsFiniteSet(1..n)
    BY FS_Interval
  <2>2. IsFiniteSet(S)
    BY <2>1, FS_Subset
  <2> QED BY <2>2, FS_CardinalityType
<1>2. IsFiniteSet(1..m) /\ Cardinality(1..m) = m
  BY <1>1, FS_Interval
<1>3. rank \in [S -> 1..m]
  BY RankType
<1>4. \A i, j \in S : rank[i] = rank[j] => i = j
  BY RankIsOne
<1>5. rank \in Injection(S, 1..m)
  BY <1>3, <1>4 DEF Injection, IsInjective
<1>6. rank \in Surjection(S, 1..m)
  <2> HIDE DEF rank
  <2> QED BY <1>2, <1>5, FS_Injection DEF m
<1>7. \E k \in S : rank[k] = c
  BY <1>6 DEF Surjection
<1> QED BY <1>7

(* The elements of r are those of s at the positions S, each of them once. *)
PicksEach(r, s, S) ==
    \E f \in [DOMAIN r -> S] :
        /\ \A i, j \in DOMAIN r : f[i] = f[j] => i = j
        /\ \A k \in S : \E i \in DOMAIN r : f[i] = k
        /\ \A i \in DOMAIN r : r[i] = s[f[i]]

LEMMA PickedOnce ==
    ASSUME NEW T, NEW s \in Seq(T), NEW S \in SUBSET (DOMAIN s)
    PROVE  Picked(s, S) \in Seq(T) /\ PicksEach(Picked(s, S), s, S)
<1> DEFINE n == Len(s)
           m == Cardinality(S)
           Nth(i) == CHOOSE k \in S : RankIn(S, k) = i
           f == [i \in 1..m |-> Nth(i)]
<1>1. n \in Nat /\ S \in SUBSET (1..n) /\ \A k \in 1..n : s[k] \in T
  OBVIOUS
<1>2. m \in Nat
  <2>1. IsFiniteSet(1..n)
    BY <1>1, FS_Interval
  <2>2. IsFiniteSet(S)
    BY <1>1, <2>1, FS_Subset
  <2> QED BY <2>2, FS_CardinalityType
<1>3. \A i \in 1..m : Nth(i) \in S /\ RankIn(S, Nth(i)) = i
  BY <1>1, RankIsAny
<1>4. Picked(s, S) = [i \in 1..m |-> s[Nth(i)]]
  BY DEF Picked, RankIn
<1> HIDE DEF Nth, m, n
<1>5. f \in [1..m -> S]
  BY <1>3
<1>6. \A i, j \in 1..m : f[i] = f[j] => i = j
  BY <1>3
<1>7. ASSUME NEW k \in S PROVE \E i \in 1..m : f[i] = k
  <2>1. RankIn(S, k) \in 1..m
    BY <1>1, RankType DEF m
  <2>2. Nth(RankIn(S, k)) = k
    BY <1>1, <1>3, <2>1, RankIsOne
  <2> QED BY <2>1, <2>2
<1>8. DOMAIN Picked(s, S) = 1..m /\ \A i \in 1..m : Picked(s, S)[i] = s[f[i]]
  BY <1>4
<1>9. Picked(s, S) \in Seq(T)
  <2>1. \A i \in 1..m : s[Nth(i)] \in T
    BY <1>1, <1>3
  <2> QED BY <1>2, <1>4, <2>1
<1> HIDE DEF f
<1>10. PicksEach(Picked(s, S), s, S)
  <2> DEFINE r == Picked(s, S)
  <2> HIDE DEF r
  <2>1. f \in [DOMAIN r -> S]
    BY <1>5, <1>8 DEF r
  <2>2. \A i, j \in DOMAIN r : f[i] = f[j] => i = j
    BY <1>6, <1>8 DEF r
  <2>3. \A k \in S : \E i \in DOMAIN r : f[i] = k
    BY <1>7, <1>8 DEF r
  <2>4. \A i \in DOMAIN r : r[i] = s[f[i]]
    BY <1>8 DEF r
  <2>5. PicksEach(r, s, S)
    BY <2>1, <2>2, <2>3, <2>4 DEF PicksEach
  <2> QED BY <2>5 DEF r
<1> QED BY <1>9, <1>10

(* What persist prunes are incidents, and those that stay do so once each. *)
LEMMA PrunedFacts ==
    ASSUME NEW l \in Ledgers
    PROVE  /\ Pruned(l) \in Ledgers
           /\ Pruned(l).stopped = l.stopped
           /\ Pruned(l).pending = l.pending
           /\ Pruned(l).probation = l.probation
           /\ Pruned(l).cooldown = l.cooldown
           /\ PicksEach(Pruned(l).incidents, l.incidents, Retained(l))
<1> DEFINE K == Retained(l)
           picked == Picked(l.incidents, K)
<1>1. l.incidents \in Seq(Incidents)
  BY DEF Ledgers
<1>2. K \in SUBSET (DOMAIN l.incidents)
  BY DEF Retained, Recent
<1>3. CASE K = DOMAIN l.incidents
  <2>1. Pruned(l) = l
    BY <1>3 DEF Pruned
  <2>2. PicksEach(l.incidents, l.incidents, K)
    <3> DEFINE f == [i \in DOMAIN l.incidents |-> i]
    <3>1. f \in [DOMAIN l.incidents -> K]
      BY <1>3
    <3> QED BY <1>3, <3>1 DEF PicksEach
  <2> QED BY <2>1, <2>2
<1>4. CASE K # DOMAIN l.incidents
  <2>1. Pruned(l) = [l EXCEPT !.incidents = picked]
    BY <1>4 DEF Pruned
  <2>2. picked \in Seq(Incidents) /\ PicksEach(picked, l.incidents, K)
    <3> HIDE DEF K
    <3> QED BY <1>1, <1>2, PickedOnce
  <2> HIDE DEF picked
  <2> QED BY <2>1, <2>2 DEF Ledgers
<1> QED BY <1>3, <1>4

LEMMA DroppedType ==
    ASSUME NEW l \in Ledgers
    PROVE  Dropped(l) \subseteq Ids \X {"limit", "age"}
<1>1. l.incidents \in Seq(Incidents)
  BY DEF Ledgers
<1>2. \A k \in DOMAIN l.incidents : l.incidents[k].id \in Ids
  <2> SUFFICES ASSUME NEW k \in DOMAIN l.incidents
               PROVE  l.incidents[k].id \in Ids
    OBVIOUS
  <2>1. l.incidents[k] \in Incidents
    BY <1>1
  <2> QED BY <2>1 DEF Incidents
<1> QED BY <1>2 DEF Dropped

(* persist_runtime changes nothing but the incidents, and keeps the types. *)
SameButIncidents(m, l) ==
    /\ m \in Ledgers
    /\ m.stopped = l.stopped
    /\ m.pending = l.pending
    /\ m.probation = l.probation
    /\ m.cooldown = l.cooldown

LEMMA SaveType ==
    ASSUME TypeOK, NEW l \in Ledgers, Saved(l) \/ NotSaved(l)
    PROVE  /\ ledger' \in Ledgers
           /\ ledger'.stopped = l.stopped
           /\ ledger'.pending = l.pending
           /\ ledger'.probation = l.probation
           /\ ledger'.cooldown = l.cooldown
           /\ disk' \in Ledgers
           /\ disk' \in {disk, ledger'}
           /\ faults' \in [write : Nat, signal : Nat, file : Nat, crash : Nat]
           /\ dropped' \subseteq Ids \X {"limit", "age"}
<1>1. SameButIncidents(Pruned(l), l) /\ SameButIncidents(l, l)
  BY PrunedFacts DEF SameButIncidents
<1>2. ledger' \in {l, Pruned(l)}
  BY DEF Saved, NotSaved
<1>3. disk' \in {disk, ledger'}
  BY DEF Saved, NotSaved
<1>4. faults' \in [write : Nat, signal : Nat, file : Nat, crash : Nat]
  BY DEF TypeOK, Saved, NotSaved, WriteFails
<1>5. dropped' \in {dropped, dropped \union Dropped(l)}
  BY DEF Saved, NotSaved
<1>6. SameButIncidents(ledger', l)
  BY <1>1, <1>2
<1>7. disk' \in Ledgers
  BY <1>3, <1>6 DEF TypeOK, SameButIncidents
<1>8. dropped' \subseteq Ids \X {"limit", "age"}
  BY <1>5, DroppedType DEF TypeOK
<1> QED BY <1>3, <1>4, <1>6, <1>7, <1>8 DEF SameButIncidents

(* A failed save that is taken back changes nothing but the count of failures. *)
LEMMA RestoredType ==
    ASSUME TypeOK, Restored
    PROVE  /\ UNCHANGED <<ledger, disk, dropped>>
           /\ faults' \in [write : Nat, signal : Nat, file : Nat, crash : Nat]
BY DEF TypeOK, Restored, WriteFails

LEMMA FileFailsType ==
    ASSUME TypeOK, FileFails
    PROVE  faults' \in [write : Nat, signal : Nat, file : Nat, crash : Nat]
BY DEF TypeOK, FileFails

(* A day changes nothing but the age of the incidents. *)
LEMMA AgedFacts ==
    ASSUME NEW l \in Ledgers
    PROVE  /\ Aged(l) \in Ledgers
           /\ Aged(l).stopped = l.stopped
           /\ Aged(l).pending = l.pending
           /\ Aged(l).probation = l.probation
           /\ Aged(l).cooldown = l.cooldown
           /\ DOMAIN Aged(l).incidents = DOMAIN l.incidents
           /\ \A k \in DOMAIN l.incidents :
                /\ Aged(l).incidents[k].id = l.incidents[k].id
                /\ Aged(l).incidents[k].reason = l.incidents[k].reason
                /\ Aged(l).incidents[k].status = l.incidents[k].status
<1> DEFINE aged(k) == [l.incidents[k] EXCEPT
                         !.old = l.incidents[k].status # "suspended"]
           incidents == [k \in DOMAIN l.incidents |-> aged(k)]
<1>1. l.incidents \in Seq(Incidents) /\ Len(l.incidents) \in Nat
      /\ DOMAIN l.incidents = 1..Len(l.incidents)
  BY DEF Ledgers
<1>2. ASSUME NEW k \in DOMAIN l.incidents
      PROVE  /\ aged(k) \in Incidents
             /\ aged(k).id = l.incidents[k].id
             /\ aged(k).reason = l.incidents[k].reason
             /\ aged(k).status = l.incidents[k].status
  <2>1. l.incidents[k] \in Incidents
    BY <1>1
  <2> QED BY <2>1 DEF Incidents
<1> HIDE DEF aged
<1>3. incidents \in Seq(Incidents)
  BY <1>1, <1>2
<1>4. Aged(l) = [l EXCEPT !.incidents = incidents]
  BY DEF Aged, aged
<1>5. DOMAIN incidents = DOMAIN l.incidents
      /\ \A k \in DOMAIN l.incidents : incidents[k] = aged(k)
  OBVIOUS
<1> HIDE DEF incidents
<1>6. Aged(l).incidents = incidents
  BY <1>4 DEF Ledgers
<1>7. Aged(l) \in Ledgers
  BY <1>3, <1>4 DEF Ledgers
<1>8. /\ Aged(l).stopped = l.stopped
      /\ Aged(l).pending = l.pending
      /\ Aged(l).probation = l.probation
      /\ Aged(l).cooldown = l.cooldown
  BY <1>4 DEF Ledgers
<1>9. \A k \in DOMAIN l.incidents :
        /\ Aged(l).incidents[k].id = l.incidents[k].id
        /\ Aged(l).incidents[k].reason = l.incidents[k].reason
        /\ Aged(l).incidents[k].status = l.incidents[k].status
  BY <1>2, <1>5, <1>6
<1> QED BY <1>5, <1>6, <1>7, <1>8, <1>9

(* The signals keep the types. *)
LEMMA SignalType ==
    ASSUME TypeOK, NEW p \in Pids, NEW state \in {"run", "stop", "gone"},
           Delivered(p, state) \/ Refused(p)
    PROVE  /\ os' \in [Pids -> [gen : Gens, state : {"run", "stop", "gone"}]]
           /\ faults' \in [write : Nat, signal : Nat, file : Nat, crash : Nat]
           /\ \A q \in Pids : os'[q].gen = os[q].gen
           /\ UNCHANGED dropped
BY DEF TypeOK, Delivered, Refused

-----------------------------------------------------------------------------
(* Type correctness, one lemma per part of the tick. *)

LEMMA InitType == Init => TypeInv
<1> SUFFICES ASSUME Init PROVE TypeInv
  OBVIOUS
<1>1. EmptyLedger \in Ledgers
  BY DEF EmptyLedger, Ledgers
<1>2. NoOp \in Ops
  BY DEF NoOp, Ops
<1>3. os \in [Pids -> [gen : Gens, state : {"run", "stop", "gone"}]]
  BY DEF Init, Gens
<1>4. seen \in [Pids -> Nat \union {Unverified}]
  BY DEF Init
<1>5. faults \in [write : Nat, signal : Nat, file : Nat, crash : Nat]
  BY DEF Init
<1>6. TypeOK
  BY <1>1, <1>2, <1>3, <1>4, <1>5 DEF Init, TypeOK, Steps, Assessments
<1>7. StepOK
  BY DEF Init, StepOK, CtlSteps, SusSteps, ProbSteps
<1> QED BY <1>6, <1>7 DEF TypeInv

LEMMA ReconcileType == TypeInv /\ (TickStart \/ Reconcile) => TypeInv'
<1> SUFFICES ASSUME TypeInv, TickStart \/ Reconcile PROVE TypeInv'
  OBVIOUS
<1> USE DEF TypeInv, TypeOK, StepOK, CtlSteps, SusSteps, ProbSteps
<1>1. CASE TickStart
  <2>1. \A p \in Pids : os[p].gen \in Nat
    BY DEF Gens
  <2>2. seen' \in [Pids -> Nat \union {Unverified}]
    BY <1>1, <2>1 DEF TickStart
  <2>3. assess' \in Assessments
    BY <1>1 DEF TickStart
  <2>4. todo' \subseteq Pids /\ todo' = Managed(ledger)'
    BY <1>1 DEF TickStart, Managed
  <2> QED BY <1>1, <2>2, <2>3, <2>4 DEF TickStart, Steps
<1>2. ASSUME NEW p \in Pids, ReconcileUnverified(p) PROVE TypeInv'
  BY <1>2 DEF ReconcileUnverified, Visit
<1>3. ASSUME NEW p \in Pids, ReconcileGone(p) PROVE TypeInv'
  <2>1. GoneStatus(p) \in Statuses
    BY DEF GoneStatus, Statuses, ClosedStatus
  <2>2. p \in Managed(ledger)
    BY <1>3 DEF ReconcileGone, Visit
  <2>3. ledger' \in Ledgers
        /\ ledger'.stopped = [ledger.stopped EXCEPT ![p] = 0]
    BY <1>3, <2>1, <2>2, ClosedType DEF ReconcileGone
  <2>4. (todo \ {p}) \subseteq Managed(ledger)'
    BY <1>3, <2>3 DEF ReconcileGone, Visit, Managed, Ledgers
  <2> QED BY <1>3, <2>3, <2>4 DEF ReconcileGone, Visit
<1>4. ASSUME NEW p \in Pids, ReconcileResumed(p) PROVE TypeInv'
  <2>1. p \in Managed(ledger)
    BY <1>4 DEF ReconcileResumed, Visit
  <2> DEFINE closed == Closed(ledger, p, "resumed")
  <2>2. <<p, ledger.stopped[p]>> \in Ids
        /\ closed \in Ledgers
        /\ closed.stopped = [ledger.stopped EXCEPT ![p] = 0]
    BY <2>1, ClosedType DEF Statuses, ClosedStatus
  <2>3. ledger' = [closed EXCEPT !.cooldown =
                     closed.cooldown \union {<<p, ledger.stopped[p]>>}]
    BY <1>4 DEF ReconcileResumed
  <2> HIDE DEF closed
  <2>4. ledger' \in Ledgers
        /\ ledger'.stopped = [ledger.stopped EXCEPT ![p] = 0]
    BY <2>2, <2>3 DEF Ledgers
  <2>5. (todo \ {p}) \subseteq Managed(ledger)'
    BY <1>4, <2>4 DEF ReconcileResumed, Visit, Managed, Ledgers
  <2> QED BY <1>4, <2>4, <2>5 DEF ReconcileResumed, Visit
<1>5. ASSUME NEW p \in Pids, ReconcileKept(p) PROVE TypeInv'
  BY <1>5 DEF ReconcileKept, Visit
<1>6. CASE ReconcileFinish
  <2>1. PICK keep \in SUBSET ledger.cooldown :
          LET l == [ledger EXCEPT !.cooldown = keep]
          IN  \/ UNCHANGED <<ledger, disk, faults, dropped, runtimeError>>
              \/ Saved(l) /\ UNCHANGED runtimeError
              \/ NotSaved(l) /\ runtimeError' = TRUE
    BY <1>6 DEF ReconcileFinish
  <2> DEFINE l == [ledger EXCEPT !.cooldown = keep]
  <2>2. l \in Ledgers
    BY DEF Ledgers
  <2> HIDE DEF l
  <2>3. /\ ledger' \in Ledgers /\ disk' \in Ledgers
        /\ dropped' \subseteq Ids \X {"limit", "age"}
        /\ faults' \in [write : Nat, signal : Nat, file : Nat, crash : Nat]
    BY <2>1, <2>2, SaveType DEF l
  <2>4. runtimeError' \in BOOLEAN
    BY <2>1
  <2>5. released' \subseteq Ids
    BY <1>6 DEF ReconcileFinish
  <2> QED BY <1>6, <2>3, <2>4, <2>5 DEF ReconcileFinish, Steps
<1> QED BY <1>1, <1>2, <1>3, <1>4, <1>5, <1>6 DEF Reconcile

LEMMA ControlType == TypeInv /\ Control => TypeInv'
<1> SUFFICES ASSUME TypeInv, Control PROVE TypeInv'
  OBVIOUS
<1> USE DEF TypeInv, TypeOK, StepOK, CtlSteps, SusSteps, ProbSteps
<1>0. ASSUME NEW r \in Requests, Takes(r)
      PROVE  /\ requests' \subseteq Requests
             /\ listed' \subseteq Requests
             /\ asked' \in Requests \union {None}
             /\ reply' \in {"none", "written", "failed"}
  BY <1>0 DEF Takes
<1>1. ASSUME NEW r \in Requests, ControlRefuse(r) PROVE TypeInv'
  BY <1>0, <1>1 DEF ControlRefuse, Steps
<1>2. ASSUME NEW r \in Requests, ControlIntent(r) PROVE TypeInv'
  <2> DEFINE target == Target(r)
             l == [ledger EXCEPT !.pending = target]
  <2>1. target \in PendingControls
    BY <1>2 DEF ControlIntent, Admissible, Target, PendingControls, Ids, Gens,
                Requests, Ledgers
  <2>2. l \in Ledgers
    BY <2>1 DEF Ledgers
  <2>3. \/ /\ UNCHANGED <<ledger, disk, faults, dropped>> \/ Saved(l)
           /\ op' = [id |-> target.id, what |-> target.action]
           /\ pc' = "ctl_signal"
        \/ /\ NotSaved(ledger)
           /\ pc' = "ctl_answer"
           /\ UNCHANGED op
    <3> HIDE DEF target, l
    <3> QED BY <1>2, Zenon DEF ControlIntent, target, l
  <2> HIDE DEF l
  <2>4. ledger' \in Ledgers /\ disk' \in Ledgers
        /\ dropped' \subseteq Ids \X {"limit", "age"}
        /\ faults' \in [write : Nat, signal : Nat, file : Nat, crash : Nat]
    BY <2>2, <2>3, SaveType
  <2>6. op' \in Ops /\ pc' \in Steps
        /\ (pc' = "ctl_signal" => op'.id \in Ids /\ op'.what \in ControlActions)
        /\ pc' \in {"ctl_answer", "ctl_signal"}
    BY <1>2, <2>1, <2>3 DEF ControlIntent, Ops, Steps, PendingControls
  <2> QED BY <1>0, <1>2, <2>4, <2>6 DEF ControlIntent
<1>3. CASE ControlSignal
  <2>1. op.id \in Ids /\ PidOf(op.id) \in Pids
    BY <1>3 DEF ControlSignal, Ids, PidOf
  <2>2. /\ os' \in [Pids -> [gen : Gens, state : {"run", "stop", "gone"}]]
        /\ faults' \in [write : Nat, signal : Nat, file : Nat, crash : Nat]
        /\ UNCHANGED dropped
    BY <1>3, <2>1, SignalType DEF ControlSignal, TerminateSignal
  <2>3. released' \subseteq Ids /\ lost' \subseteq Ids
    BY <1>3, <2>1 DEF ControlSignal, TerminateSignal
  <2> QED BY <1>3, <2>2, <2>3 DEF ControlSignal, Steps
<1>4. CASE ControlSignalRefused
  <2>1. op.id \in Ids /\ PidOf(op.id) \in Pids
    BY <1>4 DEF ControlSignalRefused, Ids, PidOf
  <2>2. /\ os' \in [Pids -> [gen : Gens, state : {"run", "stop", "gone"}]]
        /\ faults' \in [write : Nat, signal : Nat, file : Nat, crash : Nat]
        /\ UNCHANGED dropped
    BY <1>4, <2>1, SignalType DEF ControlSignalRefused
  <2> QED BY <1>4, <2>2 DEF ControlSignalRefused, NoOp, Ops, Steps
<1>5. CASE ControlCommit
  <2> DEFINE status == CASE op.what = "resume" -> "resumed"
                         [] op.what = "terminate" -> "terminated"
                         [] OTHER -> "killed"
             marked == ClearStopped(ledger, op.id)
             cleared == [marked EXCEPT
                           !.pending = None,
                           !.cooldown = IF op.what = "resume"
                                          THEN marked.cooldown \union {op.id}
                                          ELSE marked.cooldown]
             l == Transition(cleared, op.id, status, FALSE)
  <2>1. op.id \in Ids /\ status \in Statuses
    BY <1>5 DEF ControlCommit, Statuses, ClosedStatus
  <2>2. marked \in Ledgers
    BY <2>1, ClearType
  <2>3. cleared \in Ledgers
    <3> HIDE DEF marked
    <3> QED BY <2>1, <2>2 DEF Ledgers
  <2>4. l \in Ledgers
    <3> HIDE DEF cleared, status
    <3> QED BY <2>1, <2>3, SettleType, Zenon
  <2>5. (Saved(l) \/ NotSaved(l)) /\ runtimeError' \in BOOLEAN
    BY <1>5 DEF ControlCommit
  <2> HIDE DEF l
  <2>6. /\ ledger' \in Ledgers /\ disk' \in Ledgers
        /\ dropped' \subseteq Ids \X {"limit", "age"}
        /\ faults' \in [write : Nat, signal : Nat, file : Nat, crash : Nat]
    BY <2>4, <2>5, SaveType
  <2> QED BY <1>5, <2>5, <2>6 DEF ControlCommit, NoOp, Ops, Steps
<1>6. CASE ControlDone
  BY <1>6 DEF ControlDone, Steps
<1>7. CASE ControlList \/ ControlAnswer \/ ControlRemove
  <2>1. faults' \in [write : Nat, signal : Nat, file : Nat, crash : Nat]
    BY <1>7, FileFailsType DEF ControlList, ControlAnswer, ControlRemove
  <2>2. /\ requests' \subseteq Requests
        /\ listed' \subseteq Requests
        /\ asked' \in Requests \union {None}
        /\ reply' \in {"none", "written", "failed"}
    BY <1>7 DEF ControlList, ControlAnswer, ControlRemove
  <2>3. /\ pc' \in {"control", "ctl_remove"}
        /\ UNCHANGED <<os, ledger, disk, runtimeError, seen, assess, op, todo,
                       dirty, acted, released, lost, dropped>>
    BY <1>7 DEF ControlList, ControlAnswer, ControlRemove
  <2> QED BY <2>1, <2>2, <2>3 DEF Steps
<1> QED BY <1>1, <1>2, <1>3, <1>4, <1>5, <1>6, <1>7 DEF Control

(* A pause starts with the signal; the ledger is left to the next step. *)
LEMMA StopType ==
    ASSUME TypeInv, NEW p \in Pids, NEW reason \in PauseReasons,
           Eligible(p), Stop(p, reason)
    PROVE  TypeInv'
<1> USE DEF TypeInv, TypeOK, StepOK, CtlSteps, SusSteps, ProbSteps
<1>1. /\ os' \in [Pids -> [gen : Gens, state : {"run", "stop", "gone"}]]
      /\ faults' \in [write : Nat, signal : Nat, file : Nat, crash : Nat]
      /\ UNCHANGED dropped
  BY SignalType DEF Stop
<1>2. op' \in Ops /\ op'.id \in Ids /\ op'.what = reason
  BY DEF Stop, Eligible, Ops, Ids
<1> QED BY <1>1, <1>2 DEF Stop, Steps

LEMMA SuspendType == TypeInv /\ Suspend => TypeInv'
<1> SUFFICES ASSUME TypeInv, Suspend PROVE TypeInv'
  OBVIOUS
<1> USE DEF TypeInv, TypeOK, StepOK, CtlSteps, SusSteps, ProbSteps
<1>1. ASSUME NEW p \in Pids, DetectRunaway(p) PROVE TypeInv'
  BY <1>1, StopType DEF DetectRunaway, PauseReasons
<1>2. ASSUME NEW p \in Pids, PressurePause(p) PROVE TypeInv'
  BY <1>2, StopType DEF PressurePause, PauseReasons, PressureReasons
<1>3. ASSUME NEW p \in Pids, LastResort(p) PROVE TypeInv'
  BY <1>3, StopType DEF LastResort, PauseReasons, PressureReasons
<1>4. CASE DetectNone
  BY <1>4 DEF DetectNone, Steps
<1>5. ASSUME pc \in SusSteps PROVE op.id \in Ids /\ PidOf(op.id) \in Pids
  BY <1>5 DEF Ids, PidOf
<1>6. CASE SuspendRecord
  <2> DEFINE l == Recorded(ledger, op.id, op.what)
  <2>1. l \in Ledgers
    BY <1>5, <1>6, RecordedType DEF SuspendRecord
  <2>2. \/ Saved(l) /\ pc' = "sus_notify"
        \/ NotSaved(l) /\ pc' = "sus_rollback"
    BY <1>6 DEF SuspendRecord, Recorded
  <2> HIDE DEF l
  <2>3. /\ ledger' \in Ledgers /\ disk' \in Ledgers
        /\ dropped' \subseteq Ids \X {"limit", "age"}
        /\ faults' \in [write : Nat, signal : Nat, file : Nat, crash : Nat]
    BY <2>1, <2>2, SaveType
  <2> QED BY <1>6, <2>2, <2>3 DEF SuspendRecord, Steps
<1>7. ASSUME NEW paused \in BOOLEAN, SuspendReturns(paused)
      PROVE  /\ op' \in Ops /\ acted' \in BOOLEAN
             /\ pc' \in {"probation", "last_resort", "idle"}
  BY <1>7 DEF SuspendReturns, NoOp, Ops
<1>8. ASSUME op.id \in Ids
      PROVE  Transition(ClearStopped(ledger, op.id), op.id, "resumed", FALSE)
               \in Ledgers
  <2>1. ClearStopped(ledger, op.id) \in Ledgers /\ "resumed" \in Statuses
    BY <1>8, ClearType DEF Statuses, ClosedStatus
  <2> QED BY <1>8, <2>1, SettleType, Zenon
<1>9. CASE SuspendRollback
  <2>1. /\ os' \in [Pids -> [gen : Gens, state : {"run", "stop", "gone"}]]
        /\ faults' \in [write : Nat, signal : Nat, file : Nat, crash : Nat]
        /\ UNCHANGED dropped
    BY <1>5, <1>9, SignalType DEF SuspendRollback
  <2>2. ledger' \in Ledgers /\ runtimeError' \in BOOLEAN
    BY <1>5, <1>8, <1>9 DEF SuspendRollback
  <2>3. SuspendReturns(FALSE) /\ FALSE \in BOOLEAN
    BY <1>9 DEF SuspendRollback
  <2>4. op' \in Ops /\ acted' \in BOOLEAN
        /\ pc' \in {"probation", "last_resort", "idle"}
    BY <1>7, <2>3, Zenon
  <2> QED BY <1>9, <2>1, <2>2, <2>4 DEF SuspendRollback, Steps
<1>10. CASE SuspendNotified
  <2>1. SuspendReturns(TRUE) /\ TRUE \in BOOLEAN
    BY <1>10 DEF SuspendNotified
  <2>2. op' \in Ops /\ acted' \in BOOLEAN
        /\ pc' \in {"probation", "last_resort", "idle"}
    BY <1>7, <2>1, Zenon
  <2> QED BY <1>10, <2>2 DEF SuspendNotified, Steps
<1>11. CASE SuspendUnseen
  <2>1. /\ os' \in [Pids -> [gen : Gens, state : {"run", "stop", "gone"}]]
        /\ faults' \in [write : Nat, signal : Nat, file : Nat, crash : Nat]
        /\ UNCHANGED dropped
    BY <1>5, <1>11, SignalType DEF SuspendUnseen
  <2>2. ledger' \in Ledgers
    BY <1>5, <1>8, <1>11 DEF SuspendUnseen
  <2>3. lost' \subseteq Ids
    BY <1>5, <1>11 DEF SuspendUnseen
  <2> QED BY <1>11, <2>1, <2>2, <2>3 DEF SuspendUnseen, Steps
<1>12. CASE SuspendUnseenPersist
  <2>1. SuspendReturns(FALSE) /\ FALSE \in BOOLEAN
    BY <1>12 DEF SuspendUnseenPersist
  <2>2. op' \in Ops /\ acted' \in BOOLEAN
        /\ pc' \in {"probation", "last_resort", "idle"}
    BY <1>7, <2>1, Zenon
  <2>3. /\ ledger' \in Ledgers /\ disk' \in Ledgers
        /\ dropped' \subseteq Ids \X {"limit", "age"}
        /\ faults' \in [write : Nat, signal : Nat, file : Nat, crash : Nat]
    BY <1>12, SaveType DEF SuspendUnseenPersist
  <2> QED BY <1>12, <2>2, <2>3 DEF SuspendUnseenPersist, Steps
<1> QED BY <1>1, <1>2, <1>3, <1>4, <1>6, <1>9, <1>10, <1>11, <1>12
        DEF Suspend

(* The lead a probation is begun for is of a process that was identified. *)
LEMMA CandidateId ==
    ASSUME TypeOK, ProbationCandidates(ledger) # {}
    PROVE  ledger.incidents[Max(ProbationCandidates(ledger))].id \in Ids
<1> DEFINE C == ProbationCandidates(ledger)
           n == Len(ledger.incidents)
<1>1. ledger.incidents \in Seq(Incidents) /\ n \in Nat
      /\ DOMAIN ledger.incidents = 1..n
  BY DEF TypeOK, Ledgers
<1>2. C \subseteq DOMAIN ledger.incidents
  BY DEF ProbationCandidates
<1> HIDE DEF C, n
<1>3. Max(C) \in 1..n
  BY <1>1, <1>2, LatestIndex DEF C
<1>4. ledger.incidents[Max(C)] \in Incidents
  BY <1>1, <1>3 DEF n
<1> QED BY <1>4 DEF Incidents, C

LEMMA ProbationType == TypeInv /\ Probation => TypeInv'
<1> SUFFICES ASSUME TypeInv, Probation PROVE TypeInv'
  OBVIOUS
<1> USE DEF TypeInv, TypeOK, StepOK, CtlSteps, SusSteps, ProbSteps
<1>1. AfterProbation => pc' \in {"idle", "pressure"}
  BY DEF AfterProbation
<1>2. ASSUME ledger.probation \in Probations
      PROVE  OnProbation \in Ids /\ PidOf(OnProbation) \in Pids
  BY <1>2 DEF OnProbation, Probations, Ids, PidOf
<1>3. ASSUME Monitoring PROVE ledger.probation \in Probations
  BY <1>3 DEF Monitoring, Ledgers
<1>4. ASSUME NEW l \in Ledgers, NEW status \in Statuses,
             ledger.probation \in Probations
      PROVE  /\ Attempt(l, status) \in Ledgers
             /\ Attempt(l, status).probation = l.probation
  BY <1>2, <1>4, AttemptType DEF Attempt
<1>5. ASSUME ledger.probation \in Probations
      PROVE  /\ ProbationFailed(ledger) \in Ledgers
             /\ ProbationFailed(ledger).probation \in Probations
  <2> DEFINE marked == MarkStopped(ledger, OnProbation)
             tried == Attempt(marked, "probation_failed")
  <2>1. marked \in Ledgers /\ marked.probation = ledger.probation
    BY <1>2, <1>5, MarkType
  <2>2. tried \in Ledgers /\ tried.probation = ledger.probation
    BY <1>4, <1>5, <2>1 DEF Statuses, OpenStatus
  <2>3. ProbationFailed(ledger) = [tried EXCEPT !.probation.status = "failed"]
    BY DEF ProbationFailed
  <2> HIDE DEF tried
  <2>4. [tried.probation EXCEPT !.status = "failed"] \in Probations
    BY <1>5, <2>2 DEF Probations
  <2> QED BY <2>2, <2>3, <2>4 DEF Ledgers
<1>6. CASE ProbationIdle
  BY <1>6, <1>1 DEF ProbationIdle, Steps
<1>7. CASE ProbationGone
  <2> DEFINE closed == Transition(ledger, OnProbation, "gone", FALSE)
             l == [closed EXCEPT !.probation = None]
  <2>1. closed \in Ledgers
    BY <1>2, <1>3, <1>7, SettleType DEF ProbationGone, Statuses, ClosedStatus
  <2>2. l \in Ledgers
    <3> HIDE DEF closed
    <3> QED BY <2>1 DEF Ledgers
  <2>3. Saved(l) \/ NotSaved(l)
    BY <1>7 DEF ProbationGone
  <2> HIDE DEF l
  <2>4. /\ ledger' \in Ledgers /\ disk' \in Ledgers
        /\ dropped' \subseteq Ids \X {"limit", "age"}
        /\ faults' \in [write : Nat, signal : Nat, file : Nat, crash : Nat]
    BY <2>2, <2>3, SaveType
  <2> QED BY <1>1, <1>7, <2>4 DEF ProbationGone, Steps
<1>8. CASE ProbationPrepare
  <2> DEFINE id == ledger.incidents[Max(ProbationCandidates(ledger))].id
             begun == Transition(ledger, id, "probation", TRUE)
             l == [begun EXCEPT !.probation = [id |-> id, sent |-> FALSE,
                                               status |-> "monitoring"]]
  <2>1. /\ Live(id)
        /\ \/ Saved(l) /\ UNCHANGED pc
           \/ Restored /\ AfterProbation
    BY <1>8, Zenon DEF ProbationPrepare
  <2>2. l \in Ledgers /\ ledger \in Ledgers
    <3>1. ASSUME id \in Ids PROVE l \in Ledgers
      <4>1. begun \in Ledgers
        BY <3>1, AttemptType DEF Statuses, OpenStatus
      <4>2. [id |-> id, sent |-> FALSE, status |-> "monitoring"] \in Probations
        BY <3>1 DEF Probations
      <4> HIDE DEF begun, id
      <4> QED BY <4>1, <4>2 DEF Ledgers
    <3>2. id \in Ids
      BY <1>8, CandidateId DEF ProbationPrepare
    <3> QED BY <3>1, <3>2
  <2> HIDE DEF l
  <2>3. /\ ledger' \in Ledgers /\ disk' \in Ledgers
        /\ dropped' \subseteq Ids \X {"limit", "age"}
        /\ faults' \in [write : Nat, signal : Nat, file : Nat, crash : Nat]
    BY <2>1, <2>2, SaveType, RestoredType
  <2> QED BY <1>1, <1>8, <2>1, <2>3 DEF ProbationPrepare, Steps
<1>9. CASE ProbationResume
  <2>1. ledger.probation \in Probations
    BY <1>3, <1>9 DEF ProbationResume
  <2>2. /\ os' \in [Pids -> [gen : Gens, state : {"run", "stop", "gone"}]]
        /\ faults' \in [write : Nat, signal : Nat, file : Nat, crash : Nat]
        /\ UNCHANGED dropped
    BY <1>2, <1>9, <2>1, SignalType DEF ProbationResume
  <2> QED BY <1>1, <1>9, <2>1, <2>2 DEF ProbationResume, Steps
<1>10. CASE ProbationCommit
  <2> DEFINE cleared == ClearStopped(ledger, OnProbation)
             tried == Attempt(cleared, "probation")
             l == [tried EXCEPT !.probation.sent = TRUE]
  <2>1. ledger.probation \in Probations
    BY <1>10 DEF ProbationCommit
  <2>2. cleared \in Ledgers /\ cleared.probation = ledger.probation
    BY <1>2, <2>1, ClearType
  <2>3. tried \in Ledgers /\ tried.probation = ledger.probation
    BY <1>4, <2>1, <2>2 DEF Statuses, OpenStatus
  <2>4. l \in Ledgers /\ l.probation \in Probations
    <3> HIDE DEF tried
    <3>1. [tried.probation EXCEPT !.sent = TRUE] \in Probations
      BY <2>1, <2>3 DEF Probations
    <3>2. l = [tried EXCEPT !.probation = [tried.probation EXCEPT !.sent = TRUE]]
      BY <2>3 DEF Ledgers
    <3> QED BY <2>3, <3>1, <3>2 DEF Ledgers
  <2>5. \/ Saved(l) /\ AfterProbation
        \/ NotSaved(l) /\ pc' = "prob_rollback"
    BY <1>10 DEF ProbationCommit
  <2> HIDE DEF l
  <2>6. /\ ledger' \in Ledgers /\ ledger'.probation = l.probation
        /\ disk' \in Ledgers
        /\ dropped' \subseteq Ids \X {"limit", "age"}
        /\ faults' \in [write : Nat, signal : Nat, file : Nat, crash : Nat]
    BY <2>4, <2>5, SaveType
  <2> QED BY <1>1, <1>10, <2>4, <2>5, <2>6 DEF ProbationCommit, Steps
<1>11. CASE ProbationRollback \/ RelapseRollback
  <2>1. ledger.probation \in Probations
    BY <1>11 DEF ProbationRollback, RelapseRollback
  <2>2. /\ os' \in [Pids -> [gen : Gens, state : {"run", "stop", "gone"}]]
        /\ faults' \in [write : Nat, signal : Nat, file : Nat, crash : Nat]
        /\ UNCHANGED dropped
    BY <1>2, <1>11, <2>1, SignalType DEF ProbationRollback, RelapseRollback
  <2>3. CASE ProbationRollback
    BY <1>1, <1>5, <2>1, <2>2, <2>3 DEF ProbationRollback, Steps
  <2>4. CASE RelapseRollback
    <3> DEFINE l == Attempt(ClearStopped(ledger, OnProbation), "resumed")
    <3>1. /\ ClearStopped(ledger, OnProbation) \in Ledgers
          /\ ClearStopped(ledger, OnProbation).probation = ledger.probation
      BY <1>2, <2>1, ClearType
    <3>2. l \in Ledgers /\ l.probation = ledger.probation
      BY <1>4, <2>1, <3>1 DEF Statuses, ClosedStatus
    <3> HIDE DEF l
    <3> QED BY <1>1, <2>1, <2>2, <2>4, <3>2 DEF RelapseRollback, Steps, l
  <2> QED BY <1>11, <2>3, <2>4
<1>12. CASE ProbationRolledBack \/ RelapseUndone
  <2>1. /\ ledger' \in Ledgers /\ disk' \in Ledgers
        /\ dropped' \subseteq Ids \X {"limit", "age"}
        /\ faults' \in [write : Nat, signal : Nat, file : Nat, crash : Nat]
    BY <1>12, SaveType DEF ProbationRolledBack, RelapseUndone
  <2> QED BY <1>1, <1>12, <2>1 DEF ProbationRolledBack, RelapseUndone, Steps
<1>13. CASE Relapse
  <2>1. ledger.probation \in Probations
    BY <1>3, <1>13 DEF Relapse, Watching
  <2>2. /\ os' \in [Pids -> [gen : Gens, state : {"run", "stop", "gone"}]]
        /\ faults' \in [write : Nat, signal : Nat, file : Nat, crash : Nat]
        /\ UNCHANGED dropped
    BY <1>2, <1>13, <2>1, SignalType DEF Relapse
  <2> QED BY <1>13, <2>1, <2>2 DEF Relapse, Steps
<1>14. CASE RelapseRecord
  <2> DEFINE l == ProbationFailed(ledger)
  <2>1. l \in Ledgers /\ l.probation \in Probations
    BY <1>5, <1>14 DEF RelapseRecord
  <2>2. \/ Saved(l) /\ AfterProbation
        \/ NotSaved(l) /\ pc' = "rel_rollback"
    BY <1>14 DEF RelapseRecord
  <2> HIDE DEF l
  <2>3. /\ ledger' \in Ledgers /\ ledger'.probation = l.probation
        /\ disk' \in Ledgers
        /\ dropped' \subseteq Ids \X {"limit", "age"}
        /\ faults' \in [write : Nat, signal : Nat, file : Nat, crash : Nat]
    BY <2>1, <2>2, SaveType
  <2> QED BY <1>1, <1>14, <2>1, <2>2, <2>3 DEF RelapseRecord, Steps
<1>15. CASE ProbationComplete
  <2> DEFINE done == Attempt(ledger, "resumed")
             l == [done EXCEPT !.probation = None]
  <2>1. done \in Ledgers
    BY <1>3, <1>4, <1>15 DEF ProbationComplete, Watching, Statuses, ClosedStatus
  <2>2. l \in Ledgers
    <3> HIDE DEF done
    <3> QED BY <2>1 DEF Ledgers
  <2>3. Saved(l) \/ Restored
    BY <1>15 DEF ProbationComplete
  <2> HIDE DEF l
  <2>4. /\ ledger' \in Ledgers /\ disk' \in Ledgers
        /\ dropped' \subseteq Ids \X {"limit", "age"}
        /\ faults' \in [write : Nat, signal : Nat, file : Nat, crash : Nat]
    BY <2>2, <2>3, SaveType, RestoredType
  <2> QED BY <1>1, <1>15, <2>4 DEF ProbationComplete, Steps
<1> QED BY <1>6, <1>7, <1>8, <1>9, <1>10, <1>11, <1>12, <1>13, <1>14, <1>15
        DEF Probation

LEMMA PressureType == TypeInv /\ Pressure => TypeInv'
<1> SUFFICES ASSUME TypeInv, Pressure PROVE TypeInv'
  OBVIOUS
<1> USE DEF TypeInv, TypeOK, StepOK, CtlSteps, SusSteps, ProbSteps
<1>1. CASE Recover
  <2>1. PICK k \in PressureIncidents :
          LET id == ledger.incidents[k].id
          IN  /\ Delivered(PidOf(id), "run")
              /\ op' = [id |-> id, what |-> "recover"]
    BY <1>1 DEF Recover
  <2> DEFINE id == ledger.incidents[k].id
  <2>2. id \in Ids /\ PidOf(id) \in Pids
    <3>1. ledger.incidents \in Seq(Incidents)
      BY DEF Ledgers
    <3>2. ledger.incidents[k] \in Incidents
      BY <3>1 DEF PressureIncidents
    <3> QED BY <3>2 DEF Incidents, Ids, PidOf
  <2>3. /\ os' \in [Pids -> [gen : Gens, state : {"run", "stop", "gone"}]]
        /\ faults' \in [write : Nat, signal : Nat, file : Nat, crash : Nat]
        /\ UNCHANGED dropped
    BY <2>1, <2>2, SignalType
  <2>4. op' \in Ops /\ op'.id \in Ids
    BY <2>1, <2>2 DEF Ops
  <2> QED BY <1>1, <2>3, <2>4 DEF Recover, Steps
<1>2. CASE RecoverCommit
  <2> DEFINE cleared == ClearStopped(ledger, op.id)
             l == Transition(cleared, op.id, "resumed", FALSE)
  <2>1. op.id \in Ids
    BY <1>2 DEF RecoverCommit
  <2>2. cleared \in Ledgers
    BY <2>1, ClearType
  <2>3. l \in Ledgers
    BY <2>1, <2>2, SettleType DEF Statuses, ClosedStatus
  <2>4. (Saved(l) \/ NotSaved(l)) /\ runtimeError' \in BOOLEAN
    BY <1>2 DEF RecoverCommit
  <2> HIDE DEF l
  <2>5. /\ ledger' \in Ledgers /\ disk' \in Ledgers
        /\ dropped' \subseteq Ids \X {"limit", "age"}
        /\ faults' \in [write : Nat, signal : Nat, file : Nat, crash : Nat]
    BY <2>3, <2>4, SaveType
  <2> QED BY <1>2, <2>4, <2>5 DEF RecoverCommit, NoOp, Ops, Steps
<1>3. CASE PressureIdle
  BY <1>3 DEF PressureIdle, Steps
<1> QED BY <1>1, <1>2, <1>3 DEF Pressure

LEMMA EnvironmentType == TypeInv /\ Environment => TypeInv'
<1> SUFFICES ASSUME TypeInv, Environment PROVE TypeInv'
  OBVIOUS
<1> USE DEF TypeInv, TypeOK, StepOK, CtlSteps, SusSteps, ProbSteps, daemonVars
<1>1. ASSUME NEW p \in Pids, Exit(p) \/ ExternalResume(p) PROVE TypeInv'
  <2>1. os' \in [Pids -> [gen : Gens, state : {"run", "stop", "gone"}]]
    BY <1>1 DEF Exit, ExternalResume
  <2> QED BY <1>1, <2>1 DEF Exit, ExternalResume
<1>2. ASSUME NEW p \in Pids, Reuse(p) PROVE TypeInv'
  <2>1. os[p].gen + 1 \in Gens
    BY DEF Gens
  <2>2. os' \in [Pids -> [gen : Gens, state : {"run", "stop", "gone"}]]
    BY <1>2, <2>1 DEF Reuse
  <2> QED BY <1>2, <2>2 DEF Reuse
<1>3. ASSUME NEW r \in Requests, Submit(r) PROVE TypeInv'
  BY <1>3 DEF Submit
<1>4. CASE Day
  <2>1. ledger' \in Ledgers /\ disk' \in Ledgers
    BY <1>4, AgedFacts DEF Day
  <2> QED BY <1>4, <2>1 DEF Day
<1> QED BY <1>1, <1>2, <1>3, <1>4 DEF Environment

LEMMA OtherSaveType == TypeInv /\ OtherSave => TypeInv'
<1> SUFFICES ASSUME TypeInv, OtherSave PROVE TypeInv'
  OBVIOUS
<1> USE DEF TypeInv, TypeOK, StepOK, CtlSteps, SusSteps, ProbSteps
<1>1. /\ ledger' \in Ledgers /\ disk' \in Ledgers
      /\ dropped' \subseteq Ids \X {"limit", "age"}
      /\ faults' \in [write : Nat, signal : Nat, file : Nat, crash : Nat]
  BY SaveType DEF OtherSave
<1> QED BY <1>1 DEF OtherSave

LEMMA CrashType == TypeInv /\ (Crash \/ Restart) => TypeInv'
<1> SUFFICES ASSUME TypeInv, Crash \/ Restart PROVE TypeInv'
  OBVIOUS
<1> USE DEF TypeInv, TypeOK, StepOK, CtlSteps, SusSteps, ProbSteps
<1>1. EmptyLedger \in Ledgers /\ NoOp \in Ops
  BY DEF EmptyLedger, Ledgers, NoOp, Ops
<1>2. StoppedNow \subseteq Ids
  BY DEF StoppedNow, Ids
<1>3. CASE Crash
  <2>1. faults' \in [write : Nat, signal : Nat, file : Nat, crash : Nat]
    BY <1>3 DEF Crash
  <2>2. seen' \in [Pids -> Nat \union {Unverified}] /\ assess' \in Assessments
    BY <1>3 DEF Crash, Assessments
  <2>3. lost' \subseteq Ids
    BY <1>2, <1>3 DEF Crash
  <2> QED BY <1>1, <1>3, <2>1, <2>2, <2>3 DEF Crash, Steps
<1>4. CASE Restart
  <2>1. ledger' \in Ledgers
    BY <1>1, <1>4 DEF Restart, Ledgers
  <2>2. released' \subseteq Ids /\ lost' \subseteq Ids /\ runtimeError' \in BOOLEAN
    BY <1>2, <1>4 DEF Restart
  <2> QED BY <1>4, <2>1, <2>2 DEF Restart, Steps
<1> QED BY <1>3, <1>4

LEMMA StepType == TypeInv /\ [Next]_vars => TypeInv'
<1> SUFFICES ASSUME TypeInv, [Next]_vars PROVE TypeInv'
  OBVIOUS
<1>1. CASE UNCHANGED vars
  BY <1>1 DEF TypeInv, TypeOK, StepOK, vars, Managed, CtlSteps, SusSteps, ProbSteps
<1> QED BY <1>1, ReconcileType, ControlType, SuspendType, ProbationType,
           PressureType, OtherSaveType, EnvironmentType, CrashType DEF Next, Daemon

(* Whatever fails and whoever interferes, the ledger in memory and the one on *)
(* disk stay well-formed ledgers, and a handler in progress knows the        *)
(* identity it is acting on (the unwraps of supervisor.rs between a signal   *)
(* and its commit are safe).                                                 *)
THEOREM TypeCorrect == Spec => []TypeOK
<1>1. Init => TypeInv
  BY InitType
<1>2. TypeInv /\ [Next]_vars => TypeInv'
  BY StepType
<1>3. TypeInv => TypeOK
  BY DEF TypeInv
<1> QED BY <1>1, <1>2, <1>3, PTL DEF Spec

-----------------------------------------------------------------------------
(* The write-ahead rule of the owner's control requests. *)

(* While a daemon runs, a pending control in memory is on disk, and it is the *)
(* one whose signal is about to be sent.                                     *)
IntentInv ==
    /\ pc # "down" /\ ledger.pending # None => disk.pending = ledger.pending
    /\ pc = "ctl_signal" =>
         ledger.pending = [id |-> op.id, action |-> op.what]

(* What keeps it: a step that adds no pending control and writes, if it writes *)
(* at all, the ledger it leaves in memory.                                   *)
LEMMA IntentKept ==
    ASSUME IntentInv, pc # "down", pc' # "ctl_signal",
           ledger'.pending \in {ledger.pending, None},
           disk' \in {disk, ledger'}
    PROVE  IntentInv'
BY DEF IntentInv

LEMMA WriteKept ==
    ASSUME NEW l \in Ledgers, Saved(l) \/ NotSaved(l)
    PROVE  /\ ledger' \in Ledgers
           /\ ledger'.stopped = l.stopped
           /\ ledger'.pending = l.pending
           /\ ledger'.probation = l.probation
           /\ ledger'.cooldown = l.cooldown
           /\ disk' \in {disk, ledger'}
<1>1. ledger' \in {l, Pruned(l)}
  BY DEF Saved, NotSaved
<1>2. disk' \in {disk, ledger'}
  BY DEF Saved, NotSaved
<1> QED BY <1>1, <1>2, PrunedFacts

(* The steps that write nothing and leave the ledger alone. *)
LEMMA IntentUntouched ==
    ASSUME IntentInv, UNCHANGED <<ledger, disk>>,
           pc' # "ctl_signal" \/ UNCHANGED <<pc, op>>,
           pc = "down" => pc' = "down"
    PROVE  IntentInv'
BY DEF IntentInv

LEMMA ReconcileIntent ==
    TypeInv /\ IntentInv /\ (TickStart \/ Reconcile) => IntentInv'
<1> SUFFICES ASSUME TypeInv, IntentInv, TickStart \/ Reconcile PROVE IntentInv'
  OBVIOUS
<1> USE DEF TypeInv, TypeOK, StepOK
<1>1. ASSUME NEW p \in Pids, ReconcileGone(p) PROVE IntentInv'
  <2>1. p \in Managed(ledger) /\ GoneStatus(p) \in Statuses
    BY <1>1 DEF ReconcileGone, Visit, GoneStatus, Statuses, ClosedStatus
  <2>2. ledger'.pending \in {ledger.pending, None}
    BY <1>1, <2>1, ClosedType DEF ReconcileGone
  <2> QED BY <1>1, <2>2, IntentKept DEF ReconcileGone, Visit
<1>2. ASSUME NEW p \in Pids, ReconcileResumed(p) PROVE IntentInv'
  <2> DEFINE closed == Closed(ledger, p, "resumed")
  <2>1. p \in Managed(ledger)
    BY <1>2 DEF ReconcileResumed, Visit
  <2>2. closed \in Ledgers /\ closed.pending \in {ledger.pending, None}
    BY <2>1, ClosedType DEF Statuses, ClosedStatus
  <2>3. ledger' = [closed EXCEPT !.cooldown =
                     closed.cooldown \union {<<p, ledger.stopped[p]>>}]
    BY <1>2 DEF ReconcileResumed
  <2> HIDE DEF closed
  <2>4. ledger'.pending = closed.pending
    BY <2>2, <2>3 DEF Ledgers
  <2> QED BY <1>2, <2>2, <2>4, IntentKept DEF ReconcileResumed, Visit
<1>3. CASE ReconcileFinish
  <2>1. PICK keep \in SUBSET ledger.cooldown :
          LET l == [ledger EXCEPT !.cooldown = keep]
          IN  UNCHANGED <<ledger, disk>> \/ Saved(l) \/ NotSaved(l)
    BY <1>3 DEF ReconcileFinish
  <2> DEFINE l == [ledger EXCEPT !.cooldown = keep]
  <2>2. l \in Ledgers /\ l.pending = ledger.pending
    BY DEF Ledgers
  <2> HIDE DEF l
  <2>3. ledger'.pending = ledger.pending /\ disk' \in {disk, ledger'}
    BY <2>1, <2>2, WriteKept DEF l
  <2> QED BY <1>3, <2>3, IntentKept DEF ReconcileFinish
<1>4. CASE TickStart \/ \E p \in Pids : ReconcileUnverified(p) \/ ReconcileKept(p)
  BY <1>4, IntentUntouched
     DEF TickStart, ReconcileUnverified, ReconcileKept, Visit
<1> QED BY <1>1, <1>2, <1>3, <1>4 DEF Reconcile

LEMMA ControlIntentKept == TypeInv /\ IntentInv /\ Control => IntentInv'
<1> SUFFICES ASSUME TypeInv, IntentInv, Control PROVE IntentInv'
  OBVIOUS
<1> USE DEF TypeInv, TypeOK, StepOK
<1>1. ASSUME NEW r \in Requests, ControlRefuse(r) PROVE IntentInv'
  BY <1>1, IntentUntouched DEF ControlRefuse, Takes
<1>2. ASSUME NEW r \in Requests, ControlIntent(r) PROVE IntentInv'
  <2> DEFINE target == Target(r)
             l == [ledger EXCEPT !.pending = target]
  <2>1. pc = "control" /\ target = [id |-> target.id, action |-> target.action]
    BY <1>2 DEF ControlIntent, Takes, Target
  <2>2. l \in Ledgers /\ l.pending = target
    <3>1. target \in PendingControls
      BY <1>2 DEF ControlIntent, Admissible, Target, PendingControls, Ids, Gens,
                  Requests, Ledgers
    <3> QED BY <3>1 DEF Ledgers
  <2> HIDE DEF target, l
  <2>3. CASE /\ ledger.pending = target
             /\ op' = [id |-> target.id, what |-> target.action]
             /\ UNCHANGED <<ledger, disk>>
    BY <2>1, <2>3 DEF IntentInv
  <2>4. CASE Saved(l) /\ op' = [id |-> target.id, what |-> target.action]
    <3>1. ledger'.pending = l.pending /\ disk' = ledger'
      BY <2>2, <2>4, WriteKept DEF Saved
    <3> QED BY <2>1, <2>2, <2>4, <3>1 DEF IntentInv
  <2>5. CASE NotSaved(ledger) /\ pc' = "ctl_answer"
    BY <2>1, <2>5, WriteKept, IntentKept
  <2> QED BY <1>2, <2>3, <2>4, <2>5, Zenon DEF ControlIntent, target, l
<1>3. CASE ControlCommit
  <2> DEFINE status == CASE op.what = "resume" -> "resumed"
                         [] op.what = "terminate" -> "terminated"
                         [] OTHER -> "killed"
             marked == ClearStopped(ledger, op.id)
             cleared == [marked EXCEPT
                           !.pending = None,
                           !.cooldown = IF op.what = "resume"
                                          THEN marked.cooldown \union {op.id}
                                          ELSE marked.cooldown]
             l == Transition(cleared, op.id, status, FALSE)
  <2>1. op.id \in Ids /\ status \in Statuses
    BY <1>3 DEF ControlCommit, CtlSteps, Statuses, ClosedStatus
  <2>2. marked \in Ledgers
    BY <2>1, ClearType
  <2>3. cleared \in Ledgers /\ cleared.pending = None
    <3> HIDE DEF marked
    <3> QED BY <2>1, <2>2 DEF Ledgers
  <2>4. l \in Ledgers /\ l.pending = None
    <3> HIDE DEF cleared, status
    <3> QED BY <2>1, <2>3, SettleType, Zenon
  <2>5. Saved(l) \/ NotSaved(l)
    BY <1>3 DEF ControlCommit
  <2> HIDE DEF l
  <2> QED BY <1>3, <2>4, <2>5, WriteKept, IntentKept DEF ControlCommit
<1>4. CASE ControlSignal \/ ControlSignalRefused \/ ControlDone
  BY <1>4, IntentUntouched DEF ControlSignal, ControlSignalRefused, ControlDone
<1>5. CASE ControlList \/ ControlAnswer \/ ControlRemove
  BY <1>5, IntentUntouched DEF ControlList, ControlAnswer, ControlRemove
<1> QED BY <1>1, <1>2, <1>3, <1>4, <1>5 DEF Control

LEMMA SuspendIntent == TypeInv /\ IntentInv /\ Suspend => IntentInv'
<1> SUFFICES ASSUME TypeInv, IntentInv, Suspend PROVE IntentInv'
  OBVIOUS
<1> USE DEF TypeInv, TypeOK, StepOK, SusSteps
<1>1. ASSUME NEW p \in Pids, DetectRunaway(p) \/ PressurePause(p) \/ LastResort(p)
      PROVE  IntentInv'
  BY <1>1, IntentUntouched DEF DetectRunaway, PressurePause, LastResort, Stop
<1>2. CASE DetectNone
  BY <1>2, IntentUntouched DEF DetectNone
<1>3. CASE SuspendRecord
  <2> DEFINE l == Recorded(ledger, op.id, op.what)
  <2>1. l \in Ledgers /\ l.pending = ledger.pending
    BY <1>3, RecordedType DEF SuspendRecord
  <2>2. (Saved(l) \/ NotSaved(l)) /\ pc' # "ctl_signal"
    BY <1>3 DEF SuspendRecord, Recorded
  <2> HIDE DEF l
  <2> QED BY <1>3, <2>1, <2>2, WriteKept, IntentKept DEF SuspendRecord
<1>4. ASSUME NEW paused, SuspendReturns(paused) PROVE pc' # "ctl_signal"
  BY <1>4 DEF SuspendReturns
<1>5. ASSUME pc \in SusSteps
      PROVE  Transition(ClearStopped(ledger, op.id), op.id, "resumed", FALSE).pending
               = ledger.pending
  <2>1. op.id \in Ids /\ "resumed" \in Statuses
    BY <1>5 DEF Statuses, ClosedStatus
  <2>2. /\ ClearStopped(ledger, op.id) \in Ledgers
        /\ ClearStopped(ledger, op.id).pending = ledger.pending
    BY <2>1, ClearType
  <2> QED BY <2>1, <2>2, SettleType
<1>6. CASE SuspendRollback
  <2>1. ledger'.pending = ledger.pending
    BY <1>5, <1>6 DEF SuspendRollback
  <2>2. pc' # "ctl_signal"
    BY <1>4, <1>6 DEF SuspendRollback
  <2> QED BY <1>6, <2>1, <2>2, IntentKept DEF SuspendRollback
<1>7. CASE SuspendNotified
  <2>1. pc' # "ctl_signal"
    BY <1>4, <1>7 DEF SuspendNotified
  <2> QED BY <1>7, <2>1, IntentUntouched DEF SuspendNotified
<1>8. CASE SuspendUnseen
  BY <1>5, <1>8, IntentKept DEF SuspendUnseen
<1>9. CASE SuspendUnseenPersist
  <2>1. pc' # "ctl_signal"
    BY <1>4, <1>9 DEF SuspendUnseenPersist
  <2> QED BY <1>9, <2>1, WriteKept, IntentKept DEF SuspendUnseenPersist
<1> QED BY <1>1, <1>2, <1>3, <1>6, <1>7, <1>8, <1>9 DEF Suspend

LEMMA ProbationIntent == TypeInv /\ IntentInv /\ Probation => IntentInv'
<1> SUFFICES ASSUME TypeInv, IntentInv, Probation PROVE IntentInv'
  OBVIOUS
<1> USE DEF TypeInv, TypeOK, StepOK, ProbSteps
<1>1. AfterProbation => pc' # "ctl_signal"
  BY DEF AfterProbation
<1>2. ASSUME Monitoring PROVE ledger.probation \in Probations
  BY <1>2 DEF Monitoring, Ledgers
<1>3. ASSUME ledger.probation \in Probations PROVE OnProbation \in Ids
  BY <1>3 DEF OnProbation, Probations
<1>4. ASSUME NEW l \in Ledgers, NEW status \in Statuses,
             ledger.probation \in Probations
      PROVE  /\ Attempt(l, status) \in Ledgers
             /\ Attempt(l, status).pending = l.pending
             /\ Attempt(l, status).probation = l.probation
  BY <1>3, <1>4, AttemptType DEF Attempt
<1>5. ASSUME ledger.probation \in Probations
      PROVE  /\ ProbationFailed(ledger) \in Ledgers
             /\ ProbationFailed(ledger).pending = ledger.pending
  <2> DEFINE marked == MarkStopped(ledger, OnProbation)
             tried == Attempt(marked, "probation_failed")
  <2>1. /\ marked \in Ledgers /\ marked.pending = ledger.pending
        /\ marked.probation = ledger.probation
    BY <1>3, <1>5, MarkType
  <2>2. /\ tried \in Ledgers /\ tried.pending = ledger.pending
        /\ tried.probation = ledger.probation
    <3> HIDE DEF marked
    <3> QED BY <1>4, <1>5, <2>1 DEF Statuses, OpenStatus
  <2>3. ProbationFailed(ledger) = [tried EXCEPT !.probation.status = "failed"]
    BY DEF ProbationFailed
  <2> HIDE DEF tried
  <2>5. [tried.probation EXCEPT !.status = "failed"] \in Probations
    BY <1>5, <2>2 DEF Probations
  <2> QED BY <2>2, <2>3, <2>5 DEF Ledgers
<1>6. CASE ProbationIdle \/ ProbationResume \/ Relapse
  BY <1>1, <1>6, IntentUntouched
     DEF ProbationIdle, ProbationResume, Relapse, Monitoring, Watching
<1>7. CASE ProbationGone
  <2> DEFINE closed == Transition(ledger, OnProbation, "gone", FALSE)
             l == [closed EXCEPT !.probation = None]
  <2>1. closed \in Ledgers /\ closed.pending = ledger.pending
    BY <1>2, <1>3, <1>7, SettleType DEF ProbationGone, Statuses, ClosedStatus
  <2>2. l \in Ledgers /\ l.pending = ledger.pending
    <3> HIDE DEF closed
    <3> QED BY <2>1 DEF Ledgers
  <2>3. Saved(l) \/ NotSaved(l)
    BY <1>7 DEF ProbationGone
  <2> HIDE DEF l
  <2> QED BY <1>1, <1>7, <2>2, <2>3, WriteKept, IntentKept
          DEF ProbationGone, Monitoring
<1>8. CASE ProbationPrepare
  <2> DEFINE id == ledger.incidents[Max(ProbationCandidates(ledger))].id
             begun == Transition(ledger, id, "probation", TRUE)
             l == [begun EXCEPT !.probation = [id |-> id, sent |-> FALSE,
                                               status |-> "monitoring"]]
  <2>1. /\ pc = "probation"
        /\ \/ Saved(l) /\ UNCHANGED pc
           \/ Restored /\ AfterProbation
    BY <1>8, Zenon DEF ProbationPrepare
  <2>2. l \in Ledgers /\ l.pending = ledger.pending
    <3>1. id \in Ids
      BY <1>8, CandidateId DEF ProbationPrepare
    <3>2. begun \in Ledgers /\ begun.pending = ledger.pending
      BY <3>1, AttemptType DEF Statuses, OpenStatus
    <3>3. [id |-> id, sent |-> FALSE, status |-> "monitoring"] \in Probations
      BY <3>1 DEF Probations
    <3> HIDE DEF begun, id
    <3> QED BY <3>2, <3>3 DEF Ledgers
  <2> HIDE DEF l
  <2>3. ledger'.pending = ledger.pending /\ disk' \in {disk, ledger'}
    BY <2>1, <2>2, WriteKept, RestoredType
  <2> QED BY <1>1, <2>1, <2>3, IntentKept
<1>9. CASE ProbationCommit
  <2> DEFINE cleared == ClearStopped(ledger, OnProbation)
             tried == Attempt(cleared, "probation")
             l == [tried EXCEPT !.probation.sent = TRUE]
  <2>1. ledger.probation \in Probations
    BY <1>9 DEF ProbationCommit
  <2>2. /\ cleared \in Ledgers /\ cleared.pending = ledger.pending
        /\ cleared.probation = ledger.probation
    BY <1>3, <2>1, ClearType
  <2>3. /\ tried \in Ledgers /\ tried.pending = ledger.pending
        /\ tried.probation = ledger.probation
    <3> HIDE DEF cleared
    <3> QED BY <1>4, <2>1, <2>2 DEF Statuses, OpenStatus
  <2>4. l \in Ledgers /\ l.pending = ledger.pending
    <3> HIDE DEF tried
    <3>1. [tried.probation EXCEPT !.sent = TRUE] \in Probations
      BY <2>1, <2>3 DEF Probations
    <3>2. l = [tried EXCEPT !.probation = [tried.probation EXCEPT !.sent = TRUE]]
      BY <2>3 DEF Ledgers
    <3> QED BY <2>3, <3>1, <3>2 DEF Ledgers
  <2>5. (Saved(l) \/ NotSaved(l)) /\ pc' # "ctl_signal"
    BY <1>1, <1>9 DEF ProbationCommit
  <2> HIDE DEF l
  <2> QED BY <1>9, <2>4, <2>5, WriteKept, IntentKept DEF ProbationCommit
<1>10. CASE ProbationRollback
  <2>1. ledger.probation \in Probations
    BY <1>10 DEF ProbationRollback
  <2>2. ledger'.pending = ledger.pending /\ pc' # "ctl_signal"
    BY <1>1, <1>5, <1>10, <2>1 DEF ProbationRollback
  <2> QED BY <1>10, <2>2, IntentKept DEF ProbationRollback
<1>11. CASE RelapseRollback
  <2> DEFINE cleared == ClearStopped(ledger, OnProbation)
             l == Attempt(cleared, "resumed")
  <2>1. ledger.probation \in Probations
    BY <1>11 DEF RelapseRollback
  <2>2. cleared \in Ledgers /\ cleared.pending = ledger.pending
    BY <1>3, <2>1, ClearType
  <2>3. l \in Ledgers /\ l.pending = ledger.pending
    BY <1>4, <2>1, <2>2 DEF Statuses, ClosedStatus
  <2> HIDE DEF l
  <2>4. ledger'.pending = ledger.pending /\ pc' # "ctl_signal"
    BY <1>1, <1>11, <2>3 DEF RelapseRollback, l
  <2> QED BY <1>11, <2>4, IntentKept DEF RelapseRollback
<1>12. CASE ProbationRolledBack \/ RelapseUndone
  <2>1. (Saved(ledger) \/ NotSaved(ledger)) /\ pc' # "ctl_signal"
    BY <1>1, <1>12 DEF ProbationRolledBack, RelapseUndone
  <2> QED BY <1>12, <2>1, WriteKept, IntentKept DEF ProbationRolledBack, RelapseUndone
<1>13. CASE RelapseRecord
  <2> DEFINE l == ProbationFailed(ledger)
  <2>1. l \in Ledgers /\ l.pending = ledger.pending
    BY <1>5, <1>13 DEF RelapseRecord
  <2>2. (Saved(l) \/ NotSaved(l)) /\ pc' # "ctl_signal"
    BY <1>1, <1>13 DEF RelapseRecord
  <2> HIDE DEF l
  <2> QED BY <1>13, <2>1, <2>2, WriteKept, IntentKept DEF RelapseRecord
<1>14. CASE ProbationComplete
  <2> DEFINE done == Attempt(ledger, "resumed")
             l == [done EXCEPT !.probation = None]
  <2>1. done \in Ledgers /\ done.pending = ledger.pending
    BY <1>2, <1>4, <1>14 DEF ProbationComplete, Watching, Statuses, ClosedStatus
  <2>2. l \in Ledgers /\ l.pending = ledger.pending
    <3> HIDE DEF done
    <3> QED BY <2>1 DEF Ledgers
  <2>3. Saved(l) \/ Restored
    BY <1>14 DEF ProbationComplete
  <2> HIDE DEF l
  <2>4. ledger'.pending = ledger.pending /\ disk' \in {disk, ledger'}
    BY <2>2, <2>3, WriteKept, RestoredType
  <2> QED BY <1>1, <1>14, <2>4, IntentKept
          DEF ProbationComplete, Watching, Monitoring
<1> QED BY <1>6, <1>7, <1>8, <1>9, <1>10, <1>11, <1>12, <1>13, <1>14
        DEF Probation

LEMMA PressureIntent == TypeInv /\ IntentInv /\ Pressure => IntentInv'
<1> SUFFICES ASSUME TypeInv, IntentInv, Pressure PROVE IntentInv'
  OBVIOUS
<1>1. CASE Recover \/ PressureIdle
  BY <1>1, IntentUntouched DEF Recover, PressureIdle
<1>2. CASE RecoverCommit
  <2> DEFINE cleared == ClearStopped(ledger, op.id)
             l == Transition(cleared, op.id, "resumed", FALSE)
  <2>1. op.id \in Ids /\ ledger \in Ledgers
    BY <1>2 DEF RecoverCommit, TypeInv, TypeOK, StepOK
  <2>2. cleared \in Ledgers /\ cleared.pending = ledger.pending
    BY <2>1, ClearType
  <2>3. l \in Ledgers /\ l.pending = ledger.pending
    BY <2>1, <2>2, SettleType DEF Statuses, ClosedStatus
  <2>4. Saved(l) \/ NotSaved(l)
    BY <1>2 DEF RecoverCommit
  <2> HIDE DEF l
  <2> QED BY <1>2, <2>3, <2>4, WriteKept, IntentKept DEF RecoverCommit
<1> QED BY <1>1, <1>2 DEF Pressure

LEMMA OutsideIntent ==
    TypeInv /\ IntentInv /\ (Environment \/ OtherSave \/ Crash \/ Restart)
    => IntentInv'
<1> SUFFICES ASSUME TypeInv, IntentInv, Environment \/ OtherSave \/ Crash \/ Restart
             PROVE  IntentInv'
  OBVIOUS
<1>1. CASE Environment /\ ~Day
  BY <1>1, IntentUntouched
     DEF Environment, Exit, Reuse, ExternalResume, Submit, daemonVars
<1>4. CASE Day
  <2>1. ledger'.pending = ledger.pending /\ disk'.pending = disk.pending
    BY <1>4, AgedFacts DEF Day, TypeInv, TypeOK
  <2> QED BY <1>4, <2>1 DEF Day, IntentInv
<1>5. CASE OtherSave
  BY <1>5, WriteKept, IntentKept DEF OtherSave, TypeInv, TypeOK
<1>2. CASE Crash
  BY <1>2 DEF Crash, IntentInv
<1>3. CASE Restart
  <2>1. ledger'.pending \in {disk.pending, None}
    BY <1>3 DEF Restart, EmptyLedger, TypeInv, TypeOK, Ledgers
  <2> QED BY <1>3, <2>1 DEF Restart, IntentInv
<1> QED BY <1>1, <1>2, <1>3, <1>4, <1>5

(* When the signal of an owner's request is sent, that very request is the    *)
(* pending control on disk: after a crash the daemon knows what it was       *)
(* doing to whom.  The pending control in memory is never newer than disk.   *)
THEOREM IntentIsDurable == Spec => []IntentBeforeSignal
<1>1. Init => TypeInv /\ IntentInv
  BY InitType DEF Init, IntentInv, EmptyLedger
<1>2. TypeInv /\ IntentInv /\ [Next]_vars => TypeInv' /\ IntentInv'
  <2> SUFFICES ASSUME TypeInv, IntentInv, [Next]_vars PROVE IntentInv'
    BY StepType
  <2>1. CASE UNCHANGED vars
    BY <2>1 DEF IntentInv, vars
  <2> QED BY <2>1, ReconcileIntent, ControlIntentKept, SuspendIntent,
             ProbationIntent, PressureIntent, OutsideIntent DEF Next, Daemon
<1>3. TypeInv /\ IntentInv => IntentBeforeSignal
  <2> SUFFICES ASSUME TypeInv, IntentInv, pc = "ctl_signal"
               PROVE  disk.pending = [id |-> op.id, action |-> op.what]
    BY DEF IntentBeforeSignal
  <2>1. [id |-> op.id, action |-> op.what] \in PendingControls
    BY DEF TypeInv, StepOK, CtlSteps, PendingControls
  <2> QED BY <2>1, NoneAssumption DEF IntentInv
<1> QED BY <1>1, <1>2, <1>3, PTL DEF Spec

-----------------------------------------------------------------------------
(* Who owns a pause: each stopped process is followed through the ledger   *)
(* in memory, the file and the handlers.                                   *)

-----------------------------------------------------------------------------
(* What each step does to the `stopped` table, and whether it is written.  *)

(* persist_runtime: written, or kept in memory only.                       *)
LEMMA Written ==
    ASSUME NEW l \in Ledgers, Saved(l) \/ NotSaved(l)
    PROVE  /\ ledger' \in Ledgers
           /\ ledger'.stopped = l.stopped
           /\ ledger'.pending = l.pending
           /\ ledger'.probation = l.probation
           /\ ledger'.cooldown = l.cooldown
           /\ disk' = ledger' \/ disk' = disk
           /\ Saved(l) => disk' = ledger' /\ ~runtimeError
           /\ NotSaved(l) => disk' = disk
<1>1. Saved(l) => disk' = ledger' /\ ~runtimeError
  BY DEF Saved
<1>2. NotSaved(l) => disk' = disk
  BY DEF NotSaved
<1> QED BY <1>1, <1>2, WriteKept

(* A handler that clears a mark and settles the incident.                  *)
LEMMA SettledMarks ==
    ASSUME NEW l \in Ledgers, NEW id \in Ids, NEW status \in Statuses
    PROVE  /\ Transition(ClearStopped(l, id), id, status, FALSE) \in Ledgers
           /\ Transition(ClearStopped(l, id), id, status, FALSE).stopped
                = [l.stopped EXCEPT ![id[1]] = 0]
<1>1. /\ ClearStopped(l, id) \in Ledgers
      /\ ClearStopped(l, id).stopped = [l.stopped EXCEPT ![id[1]] = 0]
  BY ClearType
<1> QED BY <1>1, SettleType

LEMMA ReconcileMarks ==
    ASSUME TypeInv, NEW p \in Pids, ReconcileGone(p) \/ ReconcileResumed(p)
    PROVE  /\ p \in Managed(ledger)
           /\ ledger'.stopped = [ledger.stopped EXCEPT ![p] = 0]
           /\ UNCHANGED <<os, disk, runtimeError, pc, op, seen, lost>>
<1> USE DEF TypeInv, TypeOK, StepOK
<1>1. p \in Managed(ledger)
  BY DEF ReconcileGone, ReconcileResumed, Visit
<1>2. CASE ReconcileGone(p)
  <2>1. GoneStatus(p) \in Statuses
    BY DEF GoneStatus, Statuses, ClosedStatus
  <2> QED BY <1>1, <1>2, <2>1, ClosedType DEF ReconcileGone, Visit
<1>3. CASE ReconcileResumed(p)
  <2> DEFINE closed == Closed(ledger, p, "resumed")
  <2>1. closed \in Ledgers /\ closed.stopped = [ledger.stopped EXCEPT ![p] = 0]
    BY <1>1, ClosedType DEF Statuses, ClosedStatus
  <2>2. ledger' = [closed EXCEPT !.cooldown =
                     closed.cooldown \union {<<p, ledger.stopped[p]>>}]
    BY <1>3 DEF ReconcileResumed
  <2> HIDE DEF closed
  <2>3. ledger'.stopped = closed.stopped
    BY <2>1, <2>2 DEF Ledgers
  <2> QED BY <1>1, <1>3, <2>1, <2>3 DEF ReconcileResumed, Visit
<1> QED BY <1>2, <1>3

LEMMA FinishMarks ==
    ASSUME TypeInv, ReconcileFinish
    PROVE  /\ ledger'.stopped = ledger.stopped
           /\ disk' = disk \/ disk' = ledger'
           /\ runtimeError => runtimeError'
           /\ pc = "reconcile" /\ pc' = "list"
           /\ UNCHANGED <<os, op, seen, lost>>
<1> USE DEF TypeInv, TypeOK
<1>1. PICK keep \in SUBSET ledger.cooldown :
        LET l == [ledger EXCEPT !.cooldown = keep]
        IN  \/ UNCHANGED <<ledger, disk, faults, dropped, runtimeError>>
            \/ Saved(l) /\ UNCHANGED runtimeError
            \/ NotSaved(l) /\ runtimeError' = TRUE
  BY DEF ReconcileFinish
<1> DEFINE l == [ledger EXCEPT !.cooldown = keep]
<1>2. l \in Ledgers /\ l.stopped = ledger.stopped
  BY DEF Ledgers
<1> HIDE DEF l
<1>3. ledger'.stopped = ledger.stopped /\ (disk' = disk \/ disk' = ledger')
  BY <1>1, <1>2, Written DEF l
<1>4. runtimeError => runtimeError'
  <2>1. runtimeError' = runtimeError \/ runtimeError' = TRUE
    BY <1>1
  <2>2. runtimeError \in BOOLEAN
    OBVIOUS
  <2> QED BY <2>1, <2>2
<1> QED BY <1>3, <1>4 DEF ReconcileFinish

LEMMA IntentMarks ==
    ASSUME TypeInv, NEW r \in Requests, ControlIntent(r)
    PROVE  /\ ledger'.stopped = ledger.stopped
           /\ disk' = disk \/ disk' = ledger'
           /\ pc = "control"
           /\ \/ pc' = "ctl_answer" /\ UNCHANGED op
              \/ /\ pc' = "ctl_signal"
                 /\ op' = [id |-> <<r.pid, ledger.stopped[r.pid]>>,
                           what |-> r.action]
           /\ UNCHANGED <<os, runtimeError, seen, lost>>
<1> USE DEF TypeInv, TypeOK
<1> DEFINE target == Target(r)
           l == [ledger EXCEPT !.pending = target]
<1>1. l \in Ledgers /\ l.stopped = ledger.stopped
  <2>1. target \in PendingControls
    BY DEF ControlIntent, Admissible, Target, PendingControls, Ids, Gens,
           Requests, Ledgers
  <2> QED BY <2>1 DEF Ledgers
<1>2. /\ target.id = <<r.pid, ledger.stopped[r.pid]>>
      /\ target.action = r.action
  BY DEF Target
<1> HIDE DEF target, l
<1>3. \/ UNCHANGED <<ledger, disk>> /\ pc' = "ctl_signal"
         /\ op' = [id |-> target.id, what |-> target.action]
      \/ Saved(l) /\ pc' = "ctl_signal"
         /\ op' = [id |-> target.id, what |-> target.action]
      \/ NotSaved(ledger) /\ pc' = "ctl_answer" /\ UNCHANGED op
  BY Zenon DEF ControlIntent, target, l
<1>4. ledger'.stopped = ledger.stopped /\ (disk' = disk \/ disk' = ledger')
  BY <1>1, <1>3, Written
<1> QED BY <1>2, <1>3, <1>4 DEF ControlIntent, Takes

LEMMA CommitMarks ==
    ASSUME TypeInv, ControlCommit
    PROVE  /\ op.id \in Ids
           /\ ledger'.stopped = [ledger.stopped EXCEPT ![op.id[1]] = 0]
           /\ disk' = ledger' \/ runtimeError' = TRUE
           /\ pc = "ctl_commit" /\ pc' = "ctl_answer"
           /\ UNCHANGED <<os, seen, lost>>
<1> USE DEF TypeInv, TypeOK, StepOK, CtlSteps
<1> DEFINE status == CASE op.what = "resume" -> "resumed"
                       [] op.what = "terminate" -> "terminated"
                       [] OTHER -> "killed"
           marked == ClearStopped(ledger, op.id)
           cleared == [marked EXCEPT
                         !.pending = None,
                         !.cooldown = IF op.what = "resume"
                                        THEN marked.cooldown \union {op.id}
                                        ELSE marked.cooldown]
           l == Transition(cleared, op.id, status, FALSE)
<1>1. op.id \in Ids /\ status \in Statuses
  BY DEF ControlCommit, Statuses, ClosedStatus
<1>2. marked \in Ledgers /\ marked.stopped = [ledger.stopped EXCEPT ![op.id[1]] = 0]
  BY <1>1, ClearType
<1>3. cleared \in Ledgers /\ cleared.stopped = marked.stopped
  <2> HIDE DEF marked
  <2> QED BY <1>1, <1>2 DEF Ledgers
<1>4. l \in Ledgers /\ l.stopped = cleared.stopped
  <2> HIDE DEF cleared, status
  <2> QED BY <1>1, <1>3, SettleType, Zenon
<1>5. \/ Saved(l) /\ UNCHANGED runtimeError
      \/ NotSaved(l) /\ runtimeError' = TRUE
  BY DEF ControlCommit
<1> HIDE DEF l, cleared, marked, status
<1>6. ledger'.stopped = l.stopped /\ (disk' = ledger' \/ runtimeError' = TRUE)
  BY <1>4, <1>5, Written
<1> QED BY <1>1, <1>2, <1>3, <1>4, <1>6 DEF ControlCommit

LEMMA RecordedNow ==
    ASSUME ledger \in Ledgers, op.id \in Ids, op.what \in PauseReasons
    PROVE  /\ Recorded(ledger, op.id, op.what) \in Ledgers
           /\ Recorded(ledger, op.id, op.what).stopped
                = [ledger.stopped EXCEPT ![op.id[1]] = op.id[2]]
BY RecordedType

LEMMA RecordMarks ==
    ASSUME TypeInv, SuspendRecord
    PROVE  /\ op.id \in Ids
           /\ ledger'.stopped = [ledger.stopped EXCEPT ![op.id[1]] = op.id[2]]
           /\ \/ pc' = "sus_notify" /\ disk' = ledger'
              \/ pc' = "sus_rollback" /\ disk' = disk
           /\ pc = "sus_record"
           /\ UNCHANGED <<os, runtimeError, op, seen, lost>>
<1> USE DEF TypeInv, TypeOK, StepOK, SusSteps
<1> DEFINE l == Recorded(ledger, op.id, op.what)
<1>0. ledger \in Ledgers
  OBVIOUS
<1>1. op.id \in Ids /\ op.what \in PauseReasons
  BY DEF SuspendRecord
<1>2. /\ l \in Ledgers
      /\ l.stopped = [ledger.stopped EXCEPT ![op.id[1]] = op.id[2]]
  <2>1. /\ Recorded(ledger, op.id, op.what) \in Ledgers
        /\ Recorded(ledger, op.id, op.what).stopped
             = [ledger.stopped EXCEPT ![op.id[1]] = op.id[2]]
    BY <1>0, <1>1, RecordedNow
  <2> QED BY <2>1
<1>3. \/ Saved(l) /\ pc' = "sus_notify"
      \/ NotSaved(l) /\ pc' = "sus_rollback"
  BY DEF SuspendRecord, Recorded
<1> HIDE DEF l
<1> QED BY <1>1, <1>2, <1>3, Written DEF SuspendRecord

LEMMA RecoverMarks ==
    ASSUME TypeInv, RecoverCommit
    PROVE  /\ op.id \in Ids
           /\ ledger'.stopped = [ledger.stopped EXCEPT ![op.id[1]] = 0]
           /\ disk' = ledger' \/ runtimeError' = TRUE
           /\ pc = "rec_commit" /\ pc' = "idle"
           /\ UNCHANGED <<os, seen, lost>>
<1> DEFINE l == Transition(ClearStopped(ledger, op.id), op.id, "resumed", FALSE)
<1>1. op.id \in Ids
  BY DEF RecoverCommit, TypeInv, StepOK
<1>2. l \in Ledgers /\ l.stopped = [ledger.stopped EXCEPT ![op.id[1]] = 0]
  BY <1>1, SettledMarks DEF TypeInv, TypeOK, Statuses, ClosedStatus
<1>3. \/ Saved(l) /\ UNCHANGED runtimeError
      \/ NotSaved(l) /\ runtimeError' = TRUE
  BY DEF RecoverCommit
<1> HIDE DEF l
<1> QED BY <1>1, <1>2, <1>3, Written DEF RecoverCommit

(* The four ways manage_lead_probation rewrites the ledger.                *)
LEMMA AttemptMarks ==
    ASSUME NEW l \in Ledgers, NEW status \in Statuses,
           ledger.probation \in Probations
    PROVE  /\ Attempt(l, status) \in Ledgers
           /\ Attempt(l, status).stopped = l.stopped
           /\ Attempt(l, status).probation = l.probation
<1>1. OnProbation \in Ids
  BY DEF OnProbation, Probations
<1> QED BY <1>1, AttemptType DEF Attempt

LEMMA ProbationFailedMarks ==
    ASSUME TypeInv, ledger.probation \in Probations
    PROVE  /\ OnProbation \in Ids
           /\ ProbationFailed(ledger) \in Ledgers
           /\ ProbationFailed(ledger).stopped
                = [ledger.stopped EXCEPT ![OnProbation[1]] = OnProbation[2]]
           /\ ProbationFailed(ledger).probation
                = [ledger.probation EXCEPT !.status = "failed"]
<1> USE DEF TypeInv, TypeOK
<1> DEFINE marked == MarkStopped(ledger, OnProbation)
           tried == Attempt(marked, "probation_failed")
<1>1. OnProbation \in Ids
  BY DEF OnProbation, Probations
<1>2. /\ marked \in Ledgers /\ marked.probation = ledger.probation
      /\ marked.stopped = [ledger.stopped EXCEPT ![OnProbation[1]] = OnProbation[2]]
  BY <1>1, MarkType
<1>3. /\ tried \in Ledgers /\ tried.probation = marked.probation
      /\ tried.stopped = marked.stopped
  <2>1. "probation_failed" \in Statuses
    BY DEF Statuses, OpenStatus
  <2> HIDE DEF marked
  <2> QED BY <1>2, <2>1, AttemptMarks
<1>4. ProbationFailed(ledger) = [tried EXCEPT !.probation.status = "failed"]
  BY DEF ProbationFailed
<1> HIDE DEF tried, marked
<1>5. [tried.probation EXCEPT !.status = "failed"] \in Probations
  BY <1>2, <1>3 DEF Probations
<1>6. /\ ProbationFailed(ledger) \in Ledgers
      /\ ProbationFailed(ledger).stopped = tried.stopped
      /\ ProbationFailed(ledger).probation = [tried.probation EXCEPT !.status = "failed"]
  BY <1>3, <1>4, <1>5 DEF Ledgers
<1> QED BY <1>1, <1>2, <1>3, <1>6

(* A probation the handler relies on has an identity.                      *)
LEMMA OnProbationId ==
    ASSUME TypeInv, pc \in ProbSteps \/ Monitoring
    PROVE  ledger.probation \in Probations /\ OnProbation \in Ids
<1>1. ledger.probation \in Probations
  BY DEF TypeInv, TypeOK, StepOK, Monitoring, Ledgers
<1> QED BY <1>1 DEF OnProbation, Probations

LEMMA ProbationCommitMarks ==
    ASSUME TypeInv, ProbationCommit
    PROVE  /\ OnProbation \in Ids
           /\ ledger'.stopped = [ledger.stopped EXCEPT ![OnProbation[1]] = 0]
           /\ OnProbation' = OnProbation
           /\ \/ disk' = ledger' /\ pc' \in {"idle", "pressure"}
              \/ disk' = disk /\ pc' = "prob_rollback"
           /\ pc = "prob_commit"
           /\ UNCHANGED <<os, runtimeError, op, seen, lost>>
<1> USE DEF TypeInv, TypeOK
<1> DEFINE cleared == ClearStopped(ledger, OnProbation)
           tried == Attempt(cleared, "probation")
           l == [tried EXCEPT !.probation.sent = TRUE]
<1>1. ledger.probation \in Probations /\ OnProbation \in Ids
  BY OnProbationId DEF ProbationCommit, ProbSteps
<1>2. /\ cleared \in Ledgers /\ cleared.probation = ledger.probation
      /\ cleared.stopped = [ledger.stopped EXCEPT ![OnProbation[1]] = 0]
  BY <1>1, ClearType
<1>3. /\ tried \in Ledgers /\ tried.probation = ledger.probation
      /\ tried.stopped = cleared.stopped
  <2>1. "probation" \in Statuses
    BY DEF Statuses, OpenStatus
  <2> HIDE DEF cleared
  <2> QED BY <1>1, <1>2, <2>1, AttemptMarks
<1>4. /\ l \in Ledgers /\ l.stopped = cleared.stopped
      /\ l.probation.id = ledger.probation.id
  <2> HIDE DEF tried, cleared
  <2>1. [tried.probation EXCEPT !.sent = TRUE] \in Probations
    BY <1>1, <1>3 DEF Probations
  <2>2. l = [tried EXCEPT !.probation = [tried.probation EXCEPT !.sent = TRUE]]
    BY <1>3 DEF Ledgers
  <2> QED BY <1>1, <1>3, <2>1, <2>2 DEF Ledgers, Probations
<1>5. \/ Saved(l) /\ AfterProbation
      \/ NotSaved(l) /\ pc' = "prob_rollback"
  BY DEF ProbationCommit
<1>6. AfterProbation => pc' \in {"idle", "pressure"}
  BY DEF AfterProbation
<1> HIDE DEF l, tried, cleared
<1>7. ledger'.stopped = l.stopped /\ ledger'.probation = l.probation
  BY <1>4, <1>5, Written
<1>8. OnProbation' = OnProbation
  BY <1>4, <1>7 DEF OnProbation
<1>9. \/ disk' = ledger' /\ pc' \in {"idle", "pressure"}
      \/ disk' = disk /\ pc' = "prob_rollback"
  BY <1>4, <1>5, <1>6, Written
<1> QED BY <1>1, <1>2, <1>4, <1>7, <1>8, <1>9 DEF ProbationCommit

LEMMA RelapseRollbackMarks ==
    ASSUME TypeInv, ledger.probation \in Probations
    PROVE  LET l == Attempt(ClearStopped(ledger, OnProbation), "resumed")
           IN  /\ l.stopped = [ledger.stopped EXCEPT ![OnProbation[1]] = 0]
               /\ l.probation = ledger.probation
<1>1. OnProbation \in Ids
  BY DEF OnProbation, Probations
<1> DEFINE cleared == ClearStopped(ledger, OnProbation)
<1>2. /\ cleared \in Ledgers /\ cleared.probation = ledger.probation
      /\ cleared.stopped = [ledger.stopped EXCEPT ![OnProbation[1]] = 0]
  BY <1>1, ClearType DEF TypeInv, TypeOK
<1>3. "resumed" \in Statuses
  BY DEF Statuses, ClosedStatus
<1> HIDE DEF cleared
<1>4. Attempt(cleared, "resumed").stopped = cleared.stopped
      /\ Attempt(cleared, "resumed").probation = cleared.probation
  BY <1>2, <1>3, AttemptMarks
<1> QED BY <1>2, <1>4 DEF cleared

(* The steps of manage_lead_probation that leave the table alone.          *)
LEMMA ProbationQuietMarks ==
    ASSUME TypeInv, ProbationGone \/ ProbationPrepare \/ ProbationComplete
    PROVE  /\ ledger'.stopped = ledger.stopped
           /\ disk' = disk \/ disk' = ledger'
           /\ pc = "probation" /\ pc' \in {"probation", "idle", "pressure"}
           /\ UNCHANGED <<os, runtimeError, op, seen, lost>>
<1> USE DEF TypeInv, TypeOK
<1>1. AfterProbation => pc' \in {"idle", "pressure"}
  BY DEF AfterProbation
<1>2. CASE ProbationGone
  <2> DEFINE closed == Transition(ledger, OnProbation, "gone", FALSE)
             l == [closed EXCEPT !.probation = None]
  <2>1. Monitoring /\ pc = "probation"
    BY <1>2 DEF ProbationGone, Monitoring
  <2>2. closed \in Ledgers /\ closed.stopped = ledger.stopped
    BY <2>1, OnProbationId, SettleType DEF Statuses, ClosedStatus
  <2>3. l \in Ledgers /\ l.stopped = ledger.stopped
    <3> HIDE DEF closed
    <3> QED BY <2>2 DEF Ledgers
  <2>4. Saved(l) \/ NotSaved(l)
    BY <1>2 DEF ProbationGone
  <2> HIDE DEF l
  <2> QED BY <1>1, <1>2, <2>1, <2>3, <2>4, Written DEF ProbationGone
<1>3. CASE ProbationPrepare
  <2> DEFINE id == ledger.incidents[Max(ProbationCandidates(ledger))].id
             begun == Transition(ledger, id, "probation", TRUE)
             l == [begun EXCEPT !.probation = [id |-> id, sent |-> FALSE,
                                               status |-> "monitoring"]]
  <2>1. /\ pc = "probation"
        /\ \/ Saved(l) /\ UNCHANGED pc
           \/ Restored /\ AfterProbation
    BY <1>3, Zenon DEF ProbationPrepare
  <2>2. l \in Ledgers /\ l.stopped = ledger.stopped
    <3>1. id \in Ids
      BY <1>3, CandidateId DEF ProbationPrepare
    <3>2. begun \in Ledgers /\ begun.stopped = ledger.stopped
      BY <3>1, AttemptType DEF Statuses, OpenStatus
    <3>3. [id |-> id, sent |-> FALSE, status |-> "monitoring"] \in Probations
      BY <3>1 DEF Probations
    <3> HIDE DEF begun, id
    <3> QED BY <3>2, <3>3 DEF Ledgers
  <2> HIDE DEF l
  <2>3. ledger'.stopped = ledger.stopped /\ (disk' = disk \/ disk' = ledger')
    BY <2>1, <2>2, Written, RestoredType
  <2> QED BY <1>1, <1>3, <2>1, <2>3 DEF ProbationPrepare
<1>4. CASE ProbationComplete
  <2> DEFINE done == Attempt(ledger, "resumed")
             l == [done EXCEPT !.probation = None]
  <2>1. Monitoring /\ pc = "probation"
    BY <1>4 DEF ProbationComplete, Watching, Monitoring
  <2>2. done \in Ledgers /\ done.stopped = ledger.stopped
    BY <2>1, OnProbationId, AttemptMarks DEF Statuses, ClosedStatus
  <2>3. l \in Ledgers /\ l.stopped = ledger.stopped
    <3> HIDE DEF done
    <3> QED BY <2>2 DEF Ledgers
  <2>4. Saved(l) \/ Restored
    BY <1>4 DEF ProbationComplete
  <2> HIDE DEF l
  <2>5. ledger'.stopped = ledger.stopped /\ (disk' = disk \/ disk' = ledger')
    BY <2>3, <2>4, Written, RestoredType
  <2> QED BY <1>1, <1>4, <2>1, <2>5 DEF ProbationComplete
<1> QED BY <1>2, <1>3, <1>4

-----------------------------------------------------------------------------
(* A recorded pause is on disk. *)

(* The PIDs whose mark is only in memory: a handler is taking the pause back  *)
(* after a failed write, or writing it again.                                *)
UnwindingPids ==
    CASE pc = "sus_rollback" -> {op.id[1]}
      [] pc \in {"rel_rollback", "prob_rolled_back"} -> {OnProbation[1]}
      [] OTHER -> {}

(* Until the runtime is degraded, every other mark in memory is on disk.     *)
DurableInv ==
    (pc # "down" /\ ~runtimeError) =>
        \A p \in Pids \ UnwindingPids :
            ledger.stopped[p] # 0 => disk.stopped[p] = ledger.stopped[p]

(* A step that adds no mark, and writes the ledger it leaves if it writes at  *)
(* all, or degrades the runtime.                                             *)
LEMMA DurableKept ==
    ASSUME TypeInv, DurableInv, pc # "down",
           runtimeError => runtimeError',
           UnwindingPids \subseteq UnwindingPids',
           \A p \in Pids : ledger'.stopped[p] \in {0, ledger.stopped[p]},
           disk' = disk \/ disk' = ledger' \/ runtimeError'
    PROVE  DurableInv'
BY DEF DurableInv

(* A step that leaves the ledger, the file and the runtime's health alone.   *)
LEMMA DurableUntouched ==
    ASSUME DurableInv, UNCHANGED <<ledger, disk, runtimeError>>, pc # "down",
           UnwindingPids \subseteq UnwindingPids'
    PROVE  DurableInv'
BY DEF DurableInv

(* A step that writes the ledger, or degrades the runtime.                   *)
LEMMA DurableWritten ==
    ASSUME disk' = ledger' \/ runtimeError' = TRUE
    PROVE  DurableInv'
BY DEF DurableInv

(* Clearing one mark adds none. *)
LEMMA ClearAddsNone ==
    ASSUME TypeInv, NEW q, ledger'.stopped = [ledger.stopped EXCEPT ![q] = 0]
    PROVE  \A p \in Pids : ledger'.stopped[p] \in {0, ledger.stopped[p]}
BY DEF TypeInv, TypeOK, Ledgers

LEMMA ReconcileDurable ==
    TypeInv /\ DurableInv /\ (TickStart \/ Reconcile) => DurableInv'
<1> SUFFICES ASSUME TypeInv, DurableInv, TickStart \/ Reconcile PROVE DurableInv'
  OBVIOUS
<1>1. ASSUME NEW p \in Pids, ReconcileGone(p) \/ ReconcileResumed(p)
      PROVE  DurableInv'
  <2>1. pc = "reconcile"
    BY <1>1 DEF ReconcileGone, ReconcileResumed, Visit
  <2>2. UnwindingPids = {}
    BY <2>1 DEF UnwindingPids
  <2> QED BY <1>1, <2>1, <2>2, ReconcileMarks, ClearAddsNone, DurableKept
<1>2. CASE ReconcileFinish
  <2>1. UnwindingPids = {}
    BY <1>2 DEF UnwindingPids, ReconcileFinish
  <2>2. pc # "down" /\ (runtimeError => runtimeError')
        /\ (disk' = disk \/ disk' = ledger')
    BY <1>2, FinishMarks
  <2>3. \A p \in Pids : ledger'.stopped[p] \in {0, ledger.stopped[p]}
    BY <1>2, FinishMarks
  <2> QED BY <2>1, <2>2, <2>3, DurableKept
<1>3. CASE TickStart \/ \E p \in Pids : ReconcileUnverified(p) \/ ReconcileKept(p)
  <2>1. UnwindingPids = {} /\ pc # "down"
    BY <1>3 DEF UnwindingPids, TickStart, ReconcileUnverified, ReconcileKept, Visit
  <2>2. UNCHANGED <<ledger, disk>> /\ (runtimeError' = TRUE \/ UNCHANGED runtimeError)
    BY <1>3 DEF TickStart, ReconcileUnverified, ReconcileKept, Visit
  <2> QED BY <2>1, <2>2, DurableWritten, DurableUntouched
<1> QED BY <1>1, <1>2, <1>3 DEF Reconcile

LEMMA ControlDurable == TypeInv /\ DurableInv /\ Control => DurableInv'
<1> SUFFICES ASSUME TypeInv, DurableInv, Control PROVE DurableInv'
  OBVIOUS
<1>1. ASSUME NEW r \in Requests, ControlIntent(r) PROVE DurableInv'
  <2>1. UnwindingPids = {}
    BY <1>1 DEF UnwindingPids, ControlIntent, Takes
  <2> QED BY <1>1, <2>1, IntentMarks, DurableKept
<1>2. CASE ControlCommit
  BY <1>2, CommitMarks, DurableWritten
<1>3. CASE \/ \E r \in Requests : ControlRefuse(r)
           \/ ControlList \/ ControlSignal \/ ControlSignalRefused
           \/ ControlAnswer \/ ControlRemove \/ ControlDone
  <2>1. UnwindingPids = {} /\ pc # "down"
    BY <1>3 DEF UnwindingPids, ControlRefuse, Takes, ControlList, ControlSignal,
                ControlSignalRefused, ControlAnswer, ControlRemove, ControlDone
  <2>2. UNCHANGED <<ledger, disk, runtimeError>>
    BY <1>3 DEF ControlRefuse, ControlList, ControlSignal, ControlSignalRefused,
                ControlAnswer, ControlRemove, ControlDone
  <2> QED BY <2>1, <2>2, DurableUntouched
<1> QED BY <1>1, <1>2, <1>3 DEF Control

LEMMA SuspendDurable == TypeInv /\ DurableInv /\ Suspend => DurableInv'
<1> SUFFICES ASSUME TypeInv, DurableInv, Suspend PROVE DurableInv'
  OBVIOUS
<1>1. CASE SuspendRecord
  <2>1. CASE disk' = ledger'
    BY <2>1, DurableWritten
  <2>2. CASE pc' = "sus_rollback" /\ disk' = disk
    <3>1. UnwindingPids = {} /\ UnwindingPids' = {op.id[1]} /\ pc # "down"
      BY <1>1, <2>2, RecordMarks DEF UnwindingPids
    <3>2. \A p \in Pids \ {op.id[1]} : ledger'.stopped[p] = ledger.stopped[p]
      BY <1>1, RecordMarks DEF TypeInv, TypeOK, Ledgers
    <3> QED BY <1>1, <2>2, <3>1, <3>2, RecordMarks DEF DurableInv
  <2> QED BY <1>1, <2>1, <2>2, RecordMarks
<1>2. ASSUME pc \in SusSteps,
             ledger' = Transition(ClearStopped(ledger, op.id), op.id, "resumed", FALSE)
      PROVE  op.id \in Ids
             /\ ledger'.stopped = [ledger.stopped EXCEPT ![op.id[1]] = 0]
  <2>1. op.id \in Ids /\ ledger \in Ledgers
    BY <1>2 DEF TypeInv, TypeOK, StepOK
  <2> QED BY <1>2, <2>1, SettledMarks DEF Statuses, ClosedStatus
<1>3. CASE SuspendRollback
  <2>1. CASE runtimeError' = TRUE
    BY <2>1, DurableWritten
  <2>2. CASE /\ ledger' = Transition(ClearStopped(ledger, op.id), op.id,
                                     "resumed", FALSE)
             /\ UNCHANGED runtimeError
    <3>1. pc = "sus_rollback" /\ UNCHANGED disk
      BY <1>3 DEF SuspendRollback
    <3>2. op.id \in Ids
          /\ ledger'.stopped = [ledger.stopped EXCEPT ![op.id[1]] = 0]
      BY <1>2, <2>2, <3>1 DEF SusSteps
    <3>3. UnwindingPids = {op.id[1]}
      BY <3>1 DEF UnwindingPids
    <3>4. \A p \in Pids : ledger'.stopped[p] =
            IF p = op.id[1] THEN 0 ELSE ledger.stopped[p]
      BY <3>2 DEF TypeInv, TypeOK, Ledgers
    <3> QED BY <2>2, <3>1, <3>3, <3>4 DEF DurableInv
  <2> QED BY <1>3, <2>1, <2>2 DEF SuspendRollback
<1>4. CASE SuspendUnseen
  <2>1. pc = "sus_notify" /\ UNCHANGED <<disk, runtimeError>>
        /\ ledger' = Transition(ClearStopped(ledger, op.id), op.id, "resumed", FALSE)
    BY <1>4 DEF SuspendUnseen
  <2>2. UnwindingPids = {}
    BY <2>1 DEF UnwindingPids
  <2>3. ledger'.stopped = [ledger.stopped EXCEPT ![op.id[1]] = 0]
    BY <1>2, <2>1 DEF SusSteps
  <2> QED BY <2>1, <2>2, <2>3, ClearAddsNone, DurableKept
<1>5. CASE SuspendUnseenPersist
  <2>1. /\ pc = "sus_unseen" /\ UNCHANGED runtimeError
        /\ ledger'.stopped = ledger.stopped
        /\ (disk' = ledger' \/ disk' = disk)
    BY <1>5, Written DEF SuspendUnseenPersist, TypeInv, TypeOK
  <2>2. UnwindingPids = {}
    BY <2>1 DEF UnwindingPids
  <2> QED BY <2>1, <2>2, DurableKept
<1>6. CASE \/ \E p \in Pids : DetectRunaway(p) \/ PressurePause(p) \/ LastResort(p)
           \/ DetectNone \/ SuspendNotified
  <2>1. UnwindingPids = {} /\ pc # "down"
    BY <1>6 DEF UnwindingPids, DetectRunaway, PressurePause, LastResort,
                DetectNone, SuspendNotified
  <2>2. UNCHANGED <<ledger, disk, runtimeError>>
    BY <1>6 DEF DetectRunaway, PressurePause, LastResort, Stop, DetectNone,
                SuspendNotified
  <2> QED BY <2>1, <2>2, DurableUntouched
<1> QED BY <1>1, <1>3, <1>4, <1>5, <1>6 DEF Suspend

LEMMA ProbationDurable == TypeInv /\ DurableInv /\ Probation => DurableInv'
<1> SUFFICES ASSUME TypeInv, DurableInv, Probation PROVE DurableInv'
  OBVIOUS
<1>1. CASE ProbationGone \/ ProbationPrepare \/ ProbationComplete
  <2>1. UnwindingPids = {}
    BY <1>1, ProbationQuietMarks DEF UnwindingPids
  <2> QED BY <1>1, <2>1, ProbationQuietMarks, DurableKept
<1>2. CASE ProbationIdle \/ ProbationResume \/ Relapse
  <2>1. pc = "probation" /\ UNCHANGED <<ledger, disk, runtimeError>>
    BY <1>2 DEF ProbationIdle, ProbationResume, Relapse, Watching, Monitoring
  <2>2. UnwindingPids = {}
    BY <2>1 DEF UnwindingPids
  <2> QED BY <2>1, <2>2, DurableUntouched
<1>3. CASE ProbationCommit
  <2>1. UnwindingPids = {}
    BY <1>3, ProbationCommitMarks DEF UnwindingPids
  <2> QED BY <1>3, <2>1, ProbationCommitMarks, ClearAddsNone, DurableKept
<1>4. CASE ProbationRollback
  <2>1. CASE runtimeError' = TRUE
    BY <2>1, DurableWritten
  <2>2. CASE /\ ledger' = ProbationFailed(ledger) /\ pc' = "prob_rolled_back"
             /\ UNCHANGED runtimeError
    <3>1. pc = "prob_rollback" /\ UNCHANGED disk
      BY <1>4 DEF ProbationRollback
    <3>2. ledger.probation \in Probations
      BY <3>1, OnProbationId DEF ProbSteps
    <3>3. /\ OnProbation \in Ids
          /\ ledger'.stopped = [ledger.stopped EXCEPT ![OnProbation[1]] = OnProbation[2]]
          /\ ledger'.probation = [ledger.probation EXCEPT !.status = "failed"]
      BY <2>2, <3>2, ProbationFailedMarks
    <3>4. OnProbation' = OnProbation
      BY <3>2, <3>3 DEF OnProbation, Probations
    <3>5. UnwindingPids = {} /\ UnwindingPids' = {OnProbation[1]}
      BY <2>2, <3>1, <3>4 DEF UnwindingPids
    <3>6. \A p \in Pids \ {OnProbation[1]} : ledger'.stopped[p] = ledger.stopped[p]
      BY <3>3 DEF TypeInv, TypeOK, Ledgers
    <3> QED BY <2>2, <3>1, <3>5, <3>6 DEF DurableInv
  <2> QED BY <1>4, <2>1, <2>2 DEF ProbationRollback
<1>5. CASE ProbationRolledBack \/ RelapseUndone
  <2>1. disk' = ledger' \/ runtimeError' = TRUE
    BY <1>5, Written DEF ProbationRolledBack, RelapseUndone, TypeInv, TypeOK
  <2> QED BY <2>1, DurableWritten
<1>6. CASE RelapseRecord
  <2>1. pc = "rel_record" /\ UNCHANGED runtimeError
    BY <1>6 DEF RelapseRecord
  <2>2. CASE Saved(ProbationFailed(ledger))
    BY <2>2, DurableWritten DEF Saved
  <2>3. CASE NotSaved(ProbationFailed(ledger)) /\ pc' = "rel_rollback"
    <3>2. ledger.probation \in Probations
      BY <2>1, OnProbationId DEF ProbSteps
    <3>1. /\ ledger'.stopped = ProbationFailed(ledger).stopped
          /\ ledger'.probation = ProbationFailed(ledger).probation
          /\ disk' = disk
      BY <2>3, <3>2, ProbationFailedMarks, Written
    <3>3. /\ OnProbation \in Ids
          /\ ledger'.stopped = [ledger.stopped EXCEPT ![OnProbation[1]] = OnProbation[2]]
          /\ ledger'.probation = [ledger.probation EXCEPT !.status = "failed"]
      BY <3>1, <3>2, ProbationFailedMarks
    <3>4. OnProbation' = OnProbation
      BY <3>2, <3>3 DEF OnProbation, Probations
    <3>5. UnwindingPids = {} /\ UnwindingPids' = {OnProbation[1]}
      BY <2>1, <2>3, <3>4 DEF UnwindingPids
    <3>6. \A p \in Pids \ {OnProbation[1]} : ledger'.stopped[p] = ledger.stopped[p]
      BY <3>3 DEF TypeInv, TypeOK, Ledgers
    <3> QED BY <2>1, <3>1, <3>5, <3>6 DEF DurableInv
  <2> QED BY <1>6, <2>2, <2>3 DEF RelapseRecord
<1>7. CASE RelapseRollback
  <2>1. CASE runtimeError' = TRUE
    BY <2>1, DurableWritten
  <2>2. CASE /\ ledger' = Attempt(ClearStopped(ledger, OnProbation), "resumed")
             /\ UNCHANGED runtimeError
    <3>1. pc = "rel_rollback" /\ UNCHANGED disk
      BY <1>7 DEF RelapseRollback
    <3>2. ledger.probation \in Probations
      BY <3>1, OnProbationId DEF ProbSteps
    <3>3. ledger'.stopped = [ledger.stopped EXCEPT ![OnProbation[1]] = 0]
      BY <2>2, <3>2, RelapseRollbackMarks
    <3>4. UnwindingPids = {OnProbation[1]}
      BY <3>1 DEF UnwindingPids
    <3>5. \A p \in Pids : ledger'.stopped[p] =
            IF p = OnProbation[1] THEN 0 ELSE ledger.stopped[p]
      BY <3>3 DEF TypeInv, TypeOK, Ledgers
    <3> QED BY <2>2, <3>1, <3>4, <3>5 DEF DurableInv
  <2> QED BY <1>7, <2>1, <2>2 DEF RelapseRollback
<1> QED BY <1>1, <1>2, <1>3, <1>4, <1>5, <1>6, <1>7 DEF Probation

LEMMA PressureDurable == TypeInv /\ DurableInv /\ Pressure => DurableInv'
<1> SUFFICES ASSUME TypeInv, DurableInv, Pressure PROVE DurableInv'
  OBVIOUS
<1>1. CASE RecoverCommit
  BY <1>1, RecoverMarks, DurableWritten
<1>2. CASE Recover \/ PressureIdle
  <2>1. UnwindingPids = {} /\ pc # "down" /\ UNCHANGED <<ledger, disk, runtimeError>>
    BY <1>2 DEF UnwindingPids, Recover, PressureIdle
  <2> QED BY <2>1, DurableUntouched
<1> QED BY <1>1, <1>2 DEF Pressure

LEMMA OutsideDurable ==
    TypeInv /\ DurableInv /\ (Environment \/ OtherSave \/ Crash \/ Restart)
    => DurableInv'
<1> SUFFICES ASSUME TypeInv, DurableInv,
                    Environment \/ OtherSave \/ Crash \/ Restart
             PROVE  DurableInv'
  OBVIOUS
<1>1. CASE Environment /\ ~Day
  <2>1. UNCHANGED <<ledger, disk, runtimeError, pc, op>>
    BY <1>1 DEF Environment, Exit, Reuse, ExternalResume, Submit, daemonVars
  <2>2. UnwindingPids' = UnwindingPids
    BY <2>1 DEF UnwindingPids, OnProbation
  <2> QED BY <2>1, <2>2 DEF DurableInv
<1>2. CASE Crash
  BY <1>2 DEF Crash, DurableInv
<1>3. CASE Restart
  <2>1. runtimeError' = TRUE \/ ledger'.stopped = disk.stopped
    BY <1>3 DEF Restart, TypeInv, TypeOK, Ledgers
  <2>2. disk' = disk
    BY <1>3 DEF Restart
  <2> QED BY <2>1, <2>2 DEF DurableInv
<1>4. CASE Day
  <2>1. ledger'.stopped = ledger.stopped /\ disk'.stopped = disk.stopped
        /\ ledger'.probation = ledger.probation
    BY <1>4, AgedFacts DEF Day, TypeInv, TypeOK
  <2>2. UnwindingPids' = UnwindingPids
    BY <1>4, <2>1 DEF Day, UnwindingPids, OnProbation
  <2> QED BY <1>4, <2>1, <2>2 DEF Day, DurableInv
<1>5. CASE OtherSave
  <2>1. /\ pc = "idle" /\ UNCHANGED runtimeError
        /\ ledger'.stopped = ledger.stopped
        /\ (disk' = ledger' \/ disk' = disk)
    BY <1>5, Written DEF OtherSave, TypeInv, TypeOK
  <2>2. UnwindingPids = {}
    BY <2>1 DEF UnwindingPids
  <2> QED BY <2>1, <2>2, DurableKept
<1> QED BY <1>1, <1>2, <1>3, <1>4, <1>5

(* A pause the daemon has finished recording is on disk: until a write has    *)
(* failed for good and its runtime is degraded, no crash makes the daemon    *)
(* forget a process it holds (suspend_candidate and manage_lead_probation    *)
(* take back what they could not write).                                     *)
THEOREM PausesAreDurable == Spec => []OwnershipDurable
<1>1. Init => TypeInv /\ DurableInv
  <2>1. Init => DurableInv
    BY DEF Init, DurableInv, EmptyLedger
  <2> QED BY <2>1, InitType
<1>2. TypeInv /\ DurableInv /\ [Next]_vars => TypeInv' /\ DurableInv'
  <2> SUFFICES ASSUME TypeInv, DurableInv, [Next]_vars PROVE DurableInv'
    BY StepType
  <2>1. CASE UNCHANGED vars
    BY <2>1 DEF DurableInv, UnwindingPids, OnProbation, vars
  <2> QED BY <2>1, ReconcileDurable, ControlDurable, SuspendDurable,
             ProbationDurable, PressureDurable, OutsideDurable DEF Next, Daemon
<1>3. TypeInv /\ DurableInv => OwnershipDurable
  BY DEF DurableInv, OwnershipDurable, UnwindingPids, Unwinding, Managed
<1> QED BY <1>1, <1>2, <1>3, PTL DEF Spec

-----------------------------------------------------------------------------
(* Every stopped process is somebody's. *)

(* What the daemon remembers: its ledger, or the file while it is down.       *)
Remembered == IF pc = "down" THEN disk ELSE ledger

(* A process that is stopped is given up, in flight, or marked.              *)
AllHeld ==
    \A p \in Pids : os[p].state = "stop" =>
        \/ <<p, os[p].gen>> \in lost \union InFlight
        \/ Remembered.stopped[p] = os[p].gen

(* During a tick no PID changes hands, so the process list stays true.       *)
ListTrue ==
    pc \notin {"down", "idle"} =>
        \A p \in Pids : /\ seen[p] = 0 => os[p].state = "gone"
                        /\ seen[p] \in Gens => os[p].gen = seen[p]

SameProcess(id) == os[id[1]].gen = id[2]

(* What a handler knows of the process it has signalled. *)
InHand ==
    /\ pc = "sus_record" => SameProcess(op.id)
    /\ pc \in {"prob_commit", "prob_rollback", "rel_record"} => SameProcess(OnProbation)
    /\ pc \in {"ctl_signal", "sus_notify"} => ledger.stopped[op.id[1]] = op.id[2]
    /\ pc = "ctl_commit" => (os[op.id[1]].state = "stop" =>
                               <<op.id[1], os[op.id[1]].gen>> \in lost)
    /\ pc = "prob_commit" => os[OnProbation[1]].state # "stop"
    /\ pc = "rec_commit" => os[op.id[1]].state # "stop"

OwnInv == AllHeld /\ ListTrue /\ InHand

HandSteps == {"sus_record", "prob_commit", "prob_rollback", "rel_record",
              "ctl_signal", "sus_notify", "ctl_commit", "rec_commit"}

(* No step but the environment's gives a PID away or revives a process. *)
SamePids == \A p \in Pids : /\ os'[p].gen = os[p].gen
                            /\ os[p].state = "gone" => os'[p].state = "gone"

LEMMA ListKept ==
    ASSUME ListTrue, SamePids, UNCHANGED seen,
           pc \notin {"down", "idle"} \/ pc' \in {"down", "idle"}
    PROVE  ListTrue'
BY DEF ListTrue, SamePids

(* A signal is to one PID. *)
LEMMA SignalOne ==
    ASSUME TypeInv, NEW q \in Pids, NEW state \in {"run", "stop", "gone"},
           Delivered(q, state) \/ Refused(q)
    PROVE  /\ SamePids
           /\ \A p \in Pids \ {q} : os'[p] = os[p]
           /\ Delivered(q, state) => os'[q].state = state
           /\ Refused(q) => os' = os
<1>1. CASE Refused(q)
  <2>1. os' = os
    BY <1>1 DEF Refused
  <2>2. ~Delivered(q, state) \/ os'[q].state = state
    BY DEF Delivered, TypeInv, TypeOK
  <2> QED BY <2>1, <2>2 DEF SamePids
<1>2. CASE Delivered(q, state)
  <2>1. os[q].state # "gone" /\ os' = [os EXCEPT ![q].state = state]
    BY <1>2 DEF Delivered, Alive
  <2>2. \A p \in Pids : os[p] \in [gen : Gens, state : {"run", "stop", "gone"}]
    BY DEF TypeInv, TypeOK
  <2>3. \A p \in Pids : os'[p] = IF p = q THEN [os[q] EXCEPT !.state = state] ELSE os[p]
    BY <2>1 DEF TypeInv, TypeOK
  <2>4. Refused(q) => os' = os
    BY DEF Refused
  <2> QED BY <2>1, <2>2, <2>3, <2>4 DEF SamePids
<1> QED BY <1>1, <1>2

(* A step outside every handler that keeps the processes and the marks.      *)
LEMMA OwnQuiet ==
    ASSUME TypeInv, OwnInv, UNCHANGED <<os, seen, lost>>,
           ledger'.stopped = ledger.stopped,
           pc \notin HandSteps \union {"down", "idle"},
           pc' \notin HandSteps \union {"down"}
    PROVE  OwnInv'
<1> USE DEF OwnInv, HandSteps
<1>1. AllHeld'
  BY DEF AllHeld, InFlight, Remembered
<1>2. ListTrue'
  BY ListKept DEF SamePids
<1>3. InHand'
  BY DEF InHand
<1> QED BY <1>1, <1>2, <1>3

(* A handler that clears the mark of a PID nobody is stopped at, or given up. *)
LEMMA OwnCleared ==
    ASSUME TypeInv, OwnInv, SamePids, UNCHANGED seen, NEW q \in Pids,
           \A p \in Pids : os'[p].state = "stop" => os[p].state = "stop",
           lost \subseteq lost',
           os'[q].state = "stop" => <<q, os[q].gen>> \in lost',
           ledger'.stopped = [ledger.stopped EXCEPT ![q] = 0],
           pc \notin {"down", "idle", "sus_record", "rel_record"},
           pc' \notin HandSteps \union {"down"}
    PROVE  OwnInv'
<1> USE DEF OwnInv, HandSteps
<1>1. AllHeld'
  <2> SUFFICES ASSUME NEW p \in Pids, os'[p].state = "stop"
               PROVE  <<p, os'[p].gen>> \in lost' \/ ledger'.stopped[p] = os'[p].gen
    BY DEF AllHeld, Remembered
  <2>1. os[p].state = "stop" /\ os'[p].gen = os[p].gen
    BY DEF SamePids
  <2>2. <<p, os[p].gen>> \in lost \/ ledger.stopped[p] = os[p].gen
    BY <2>1 DEF AllHeld, InFlight, Remembered
  <2>3. p # q => ledger'.stopped[p] = ledger.stopped[p]
    BY DEF TypeInv, TypeOK, Ledgers
  <2> QED BY <2>1, <2>2, <2>3
<1>2. ListTrue'
  BY ListKept
<1>3. InHand'
  BY DEF InHand
<1> QED BY <1>1, <1>2, <1>3

LEMMA ReconcileOwn ==
    TypeInv /\ OwnInv /\ (TickStart \/ Reconcile) => OwnInv'
<1> SUFFICES ASSUME TypeInv, OwnInv, TickStart \/ Reconcile PROVE OwnInv'
  OBVIOUS
<1>1. CASE TickStart
  <2>1. AllHeld'
    BY <1>1 DEF TickStart, OwnInv, AllHeld, InFlight, Remembered
  <2>2. ListTrue'
    <3>1. PICK blind \in SUBSET Unreadable :
            seen' = [p \in Pids |-> CASE ~Alive(p) -> 0
                                      [] Alive(p) /\ p \in blind -> Unverified
                                      [] OTHER -> os[p].gen]
      BY <1>1 DEF TickStart
    <3>2. \A p \in Pids : os[p].gen \in Gens
      BY DEF TypeInv, TypeOK
    <3>3. Unverified \notin Gens /\ 0 \notin Gens /\ Unverified # 0
      BY ConstantsAssumption DEF Gens
    <3>4. ASSUME NEW p \in Pids
          PROVE  /\ seen'[p] = 0 => os[p].state = "gone"
                 /\ seen'[p] \in Gens => os[p].gen = seen'[p]
      BY <3>1, <3>2, <3>3 DEF Alive
    <3>5. UNCHANGED os
      BY <1>1 DEF TickStart
    <3> QED BY <3>4, <3>5 DEF ListTrue
  <2>3. InHand'
    BY <1>1 DEF TickStart, InHand
  <2> QED BY <2>1, <2>2, <2>3 DEF OwnInv
<1>2. ASSUME NEW p \in Pids, ReconcileGone(p) PROVE OwnInv'
  <2>1. pc = "reconcile" /\ pc' = "reconcile"
        /\ seen[p] \notin {Unverified, ledger.stopped[p]}
    BY <1>2 DEF ReconcileGone, Visit
  <2>2. ledger'.stopped = [ledger.stopped EXCEPT ![p] = 0]
        /\ UNCHANGED <<os, seen, lost>>
    BY <1>2, ReconcileMarks
  <2>3. seen[p] = 0 \/ seen[p] \in Gens
    BY <2>1 DEF TypeInv, TypeOK, Gens
  <2>4. os[p].state = "stop" => os[p].gen # ledger.stopped[p]
    BY <2>1, <2>3 DEF OwnInv, ListTrue
  <2>5. os[p].state = "stop" => <<p, os[p].gen>> \in lost
    BY <2>1, <2>4 DEF OwnInv, AllHeld, InFlight, Remembered
  <2> QED BY <2>1, <2>2, <2>5, OwnCleared DEF HandSteps, SamePids
<1>3. ASSUME NEW p \in Pids, ReconcileResumed(p) PROVE OwnInv'
  <2>1. pc = "reconcile" /\ pc' = "reconcile" /\ os[p].state # "stop"
    BY <1>3 DEF ReconcileResumed, Visit
  <2>2. ledger'.stopped = [ledger.stopped EXCEPT ![p] = 0]
        /\ UNCHANGED <<os, seen, lost>>
    BY <1>3, ReconcileMarks
  <2> QED BY <2>1, <2>2, OwnCleared DEF HandSteps, SamePids
<1>4. ASSUME NEW p \in Pids, ReconcileUnverified(p) \/ ReconcileKept(p)
      PROVE  OwnInv'
  <2>1. pc = "reconcile" /\ pc' = "reconcile" /\ UNCHANGED <<os, seen, lost, ledger>>
    BY <1>4 DEF ReconcileUnverified, ReconcileKept, Visit
  <2> QED BY <2>1, OwnQuiet DEF HandSteps
<1>5. CASE ReconcileFinish
  BY <1>5, FinishMarks, OwnQuiet DEF HandSteps
<1> QED BY <1>1, <1>2, <1>3, <1>4, <1>5 DEF Reconcile

LEMMA ControlOwn == TypeInv /\ OwnInv /\ Control => OwnInv'
<1> SUFFICES ASSUME TypeInv, OwnInv, Control PROVE OwnInv'
  OBVIOUS
<1>1. ASSUME NEW r \in Requests, ControlRefuse(r) PROVE OwnInv'
  <2>1. pc = "control" /\ pc' = "ctl_answer" /\ UNCHANGED <<os, seen, lost, ledger>>
    BY <1>1 DEF ControlRefuse, Takes
  <2> QED BY <2>1, OwnQuiet DEF HandSteps
<1>2. ASSUME NEW r \in Requests, ControlIntent(r) PROVE OwnInv'
  <2>1. CASE pc' = "ctl_answer"
    BY <1>2, <2>1, IntentMarks, OwnQuiet DEF HandSteps
  <2>2. CASE /\ pc' = "ctl_signal"
             /\ op' = [id |-> <<r.pid, ledger.stopped[r.pid]>>, what |-> r.action]
    <3>1. /\ pc = "control" /\ ledger'.stopped = ledger.stopped
          /\ UNCHANGED <<os, seen, lost>>
      BY <1>2, IntentMarks
    <3>2. AllHeld'
      BY <2>2, <3>1 DEF OwnInv, AllHeld, InFlight, Remembered
    <3>3. ListTrue'
      BY <3>1, ListKept DEF OwnInv, SamePids
    <3>4. InHand'
      BY <2>2, <3>1 DEF InHand
    <3> QED BY <3>2, <3>3, <3>4 DEF OwnInv
  <2> QED BY <1>2, <2>1, <2>2, IntentMarks
<1>3. CASE ControlSignal
  <2> DEFINE q == op.id[1]
  <2>1. op.id \in Ids /\ q \in Pids /\ op.id = <<q, op.id[2]>> /\ PidOf(op.id) = q
    BY <1>3 DEF ControlSignal, TypeInv, StepOK, CtlSteps, Ids, PidOf
  <2>2. /\ pc = "ctl_signal" /\ pc' = "ctl_commit"
        /\ UNCHANGED <<ledger, op, seen>>
        /\ ledger.stopped[q] = op.id[2]
    BY <1>3 DEF ControlSignal, OwnInv, InHand
  <2>3. \/ \E state \in {"gone", "run"} : Delivered(q, state) /\ UNCHANGED lost
        \/ Refused(q) /\ lost' = lost \union
                           {id \in {op.id} : os[PidOf(id)].state = "stop"}
    BY <1>3, <2>1 DEF ControlSignal, TerminateSignal
  <2> HIDE DEF q
  <2>4. /\ SamePids /\ lost \subseteq lost'
        /\ \A p \in Pids : os'[p].state = "stop" => os[p].state = "stop"
        /\ os'[q].state = "stop" => os' = os /\ op.id \in lost'
    <3>1. ASSUME NEW state \in {"gone", "run"}, Delivered(q, state), UNCHANGED lost
          PROVE  <2>4!:
      BY <2>1, <3>1, SignalOne
    <3>2. ASSUME Refused(q), lost' = lost \union
                               {id \in {op.id} : os[PidOf(id)].state = "stop"}
          PROVE  <2>4!:
      <4>1. SamePids /\ os' = os
        BY <2>1, <3>2, SignalOne
      <4> QED BY <2>1, <3>2, <4>1
    <3> QED BY <2>3, <3>1, <3>2
  <2>5. AllHeld'
    BY <2>2, <2>4 DEF OwnInv, AllHeld, InFlight, Remembered, SamePids
  <2>6. ListTrue'
    BY <2>2, <2>4, ListKept DEF OwnInv
  <2>7. os'[q].state = "stop" => <<q, os'[q].gen>> \in lost'
    BY <2>1, <2>2, <2>4 DEF OwnInv, AllHeld, InFlight, Remembered, SamePids
  <2>8. InHand'
    BY <2>2, <2>7 DEF InHand, q
  <2> QED BY <2>5, <2>6, <2>8 DEF OwnInv
<1>4. CASE ControlSignalRefused
  <2>1. op.id \in Ids /\ PidOf(op.id) \in Pids
    BY <1>4 DEF ControlSignalRefused, TypeInv, StepOK, CtlSteps, Ids, PidOf
  <2>2. /\ os' = os /\ UNCHANGED <<ledger, seen, lost>>
        /\ pc = "ctl_signal" /\ pc' = "ctl_answer"
    BY <1>4, <2>1, SignalOne DEF ControlSignalRefused
  <2>3. AllHeld'
    BY <2>2 DEF OwnInv, AllHeld, InFlight, Remembered
  <2>4. ListTrue'
    BY <2>2, ListKept DEF OwnInv, SamePids
  <2>5. InHand'
    BY <2>2 DEF InHand
  <2> QED BY <2>3, <2>4, <2>5 DEF OwnInv
<1>5. CASE ControlCommit
  <2>1. op.id[1] \in Pids
    BY <1>5, CommitMarks DEF Ids
  <2>2. os[op.id[1]].state = "stop" => <<op.id[1], os[op.id[1]].gen>> \in lost
    BY <1>5, CommitMarks DEF OwnInv, InHand
  <2> QED BY <1>5, <2>1, <2>2, CommitMarks, OwnCleared DEF HandSteps, SamePids
<1>6. CASE ControlDone
  <2>1. pc = "control" /\ pc' = "detect" /\ UNCHANGED <<os, seen, lost, ledger>>
    BY <1>6 DEF ControlDone
  <2> QED BY <2>1, OwnQuiet DEF HandSteps
<1>7. CASE ControlList \/ ControlAnswer \/ ControlRemove
  <2>1. /\ pc \in {"list", "ctl_answer", "ctl_remove"}
        /\ pc' \in {"control", "ctl_remove"}
        /\ UNCHANGED <<os, seen, lost, ledger>>
    BY <1>7 DEF ControlList, ControlAnswer, ControlRemove
  <2> QED BY <2>1, OwnQuiet DEF HandSteps
<1> QED BY <1>1, <1>2, <1>3, <1>4, <1>5, <1>6, <1>7 DEF Control

(* A pause starts in flight. *)
LEMMA StopOwn ==
    ASSUME TypeInv, OwnInv, NEW p \in Pids, NEW reason,
           Eligible(p), Stop(p, reason), pc \notin HandSteps \union {"down", "idle"}
    PROVE  OwnInv'
<1>1. /\ seen[p] \in Gens /\ os[p].gen = seen[p]
      /\ Delivered(p, "stop") /\ UNCHANGED <<ledger, seen, lost>>
      /\ op' = [id |-> <<p, seen[p]>>, what |-> reason] /\ pc' = "sus_record"
  BY DEF Stop, Eligible, Live, PidOf
<1>2. SamePids /\ \A q \in Pids \ {p} : os'[q] = os[q]
  BY <1>1, SignalOne
<1>3. InFlight' = {<<p, seen[p]>>}
  BY <1>1 DEF InFlight
<1>4. AllHeld'
  <2> SUFFICES ASSUME NEW q \in Pids, os'[q].state = "stop"
               PROVE  \/ <<q, os'[q].gen>> \in lost' \union InFlight'
                      \/ ledger'.stopped[q] = os'[q].gen
    BY <1>1 DEF AllHeld, Remembered
  <2>1. CASE q = p
    BY <1>1, <1>2, <1>3, <2>1 DEF SamePids
  <2>2. CASE q # p
    BY <1>1, <1>2, <2>2 DEF OwnInv, AllHeld, InFlight, Remembered, HandSteps
  <2> QED BY <2>1, <2>2
<1>5. ListTrue'
  BY <1>1, <1>2, ListKept DEF OwnInv
<1>6. InHand'
  <2>1. SameProcess(op.id)'
    BY <1>1, <1>2 DEF SameProcess, SamePids
  <2> QED BY <1>1, <2>1 DEF InHand
<1> QED BY <1>4, <1>5, <1>6 DEF OwnInv

LEMMA SuspendOwn == TypeInv /\ OwnInv /\ Suspend => OwnInv'
<1> SUFFICES ASSUME TypeInv, OwnInv, Suspend PROVE OwnInv'
  OBVIOUS
<1>1. ASSUME NEW p \in Pids, DetectRunaway(p) PROVE OwnInv'
  BY <1>1, StopOwn DEF DetectRunaway, HandSteps
<1>2. ASSUME NEW p \in Pids, PressurePause(p) PROVE OwnInv'
  BY <1>2, StopOwn DEF PressurePause, HandSteps
<1>3. ASSUME NEW p \in Pids, LastResort(p) PROVE OwnInv'
  BY <1>3, StopOwn DEF LastResort, HandSteps
<1>4. CASE DetectNone
  <2>1. pc = "detect" /\ pc' = "probation" /\ UNCHANGED <<os, seen, lost, ledger>>
    BY <1>4 DEF DetectNone
  <2> QED BY <2>1, OwnQuiet DEF HandSteps
<1>5. ASSUME pc \in SusSteps
      PROVE  /\ op.id \in Ids /\ op.id[1] \in Pids /\ PidOf(op.id) = op.id[1]
             /\ op.id = <<op.id[1], op.id[2]>>
  BY <1>5 DEF TypeInv, StepOK, Ids, PidOf
<1>6. CASE SuspendRecord
  <2>1. /\ op.id \in Ids /\ op.id[1] \in Pids /\ op.id = <<op.id[1], op.id[2]>>
        /\ pc = "sus_record" /\ pc' \in {"sus_notify", "sus_rollback"}
        /\ ledger'.stopped = [ledger.stopped EXCEPT ![op.id[1]] = op.id[2]]
        /\ UNCHANGED <<os, op, seen, lost>>
    BY <1>5, <1>6, RecordMarks DEF SusSteps
  <2>2. \A p \in Pids : ledger'.stopped[p] =
          IF p = op.id[1] THEN op.id[2] ELSE ledger.stopped[p]
    BY <2>1 DEF TypeInv, TypeOK, Ledgers
  <2>3. os[op.id[1]].gen = op.id[2]
    BY <2>1 DEF OwnInv, InHand, SameProcess
  <2>4. AllHeld'
    <3> SUFFICES ASSUME NEW p \in Pids, os[p].state = "stop"
                 PROVE  <<p, os[p].gen>> \in lost \/ ledger'.stopped[p] = os[p].gen
      BY <2>1 DEF AllHeld, Remembered
    <3>1. CASE p = op.id[1]
      BY <2>2, <2>3, <3>1
    <3>2. CASE p # op.id[1]
      <4>1. <<p, os[p].gen>> # op.id
        BY <2>1, <3>2
      <4> QED BY <2>1, <2>2, <3>2, <4>1 DEF OwnInv, AllHeld, InFlight, Remembered
    <3> QED BY <3>1, <3>2
  <2>5. ListTrue'
    BY <2>1, ListKept DEF OwnInv, SamePids
  <2>6. InHand'
    BY <2>1, <2>2 DEF InHand
  <2> QED BY <2>4, <2>5, <2>6 DEF OwnInv
<1>7. ASSUME NEW paused, SuspendReturns(paused)
      PROVE  pc' \notin HandSteps \union {"down"}
  BY <1>7 DEF SuspendReturns, HandSteps
<1>8. ASSUME pc \in SusSteps,
             ledger' = Transition(ClearStopped(ledger, op.id), op.id, "resumed", FALSE)
      PROVE  ledger'.stopped = [ledger.stopped EXCEPT ![op.id[1]] = 0]
  <2>1. ledger \in Ledgers /\ "resumed" \in Statuses
    BY DEF TypeInv, TypeOK, Statuses, ClosedStatus
  <2> QED BY <1>5, <1>8, <2>1, SettledMarks
<1>9. CASE SuspendRollback
  <2>1. /\ pc = "sus_rollback" /\ op.id[1] \in Pids /\ PidOf(op.id) = op.id[1]
        /\ UNCHANGED <<seen, lost>> /\ pc' \notin HandSteps \union {"down"}
    BY <1>5, <1>7, <1>9 DEF SuspendRollback, SusSteps
  <2>2. CASE /\ Delivered(op.id[1], "run")
             /\ ledger' = Transition(ClearStopped(ledger, op.id), op.id,
                                     "resumed", FALSE)
    <3>1. /\ SamePids /\ os'[op.id[1]].state = "run"
          /\ \A p \in Pids \ {op.id[1]} : os'[p] = os[p]
      BY <2>1, <2>2, SignalOne
    <3>2. ledger'.stopped = [ledger.stopped EXCEPT ![op.id[1]] = 0]
      BY <1>8, <2>1, <2>2 DEF SusSteps
    <3>3. \A p \in Pids : os'[p].state = "stop" => os[p].state = "stop"
      BY <3>1
    <3> HIDE DEF SamePids
    <3> QED BY <2>1, <3>1, <3>2, <3>3, OwnCleared DEF HandSteps
  <2>3. CASE Refused(op.id[1]) /\ UNCHANGED ledger
    <3>1. os' = os
      BY <2>1, <2>3, SignalOne
    <3> QED BY <2>1, <2>3, <3>1, OwnQuiet DEF HandSteps
  <2> QED BY <1>9, <2>1, <2>2, <2>3 DEF SuspendRollback
<1>10. CASE SuspendNotified
  <2>1. /\ pc = "sus_notify" /\ UNCHANGED <<os, seen, lost, ledger>>
        /\ pc' \notin HandSteps \union {"down"}
    BY <1>7, <1>10 DEF SuspendNotified
  <2>2. AllHeld'
    BY <2>1 DEF OwnInv, AllHeld, InFlight, Remembered, HandSteps
  <2>3. ListTrue'
    BY <2>1, ListKept DEF OwnInv, SamePids
  <2>4. InHand'
    BY <2>1 DEF InHand, HandSteps
  <2> QED BY <2>2, <2>3, <2>4 DEF OwnInv
<1>11. CASE SuspendUnseen
  <2>1. /\ pc = "sus_notify" /\ pc' = "sus_unseen" /\ op.id[1] \in Pids
        /\ PidOf(op.id) = op.id[1] /\ op.id = <<op.id[1], op.id[2]>>
        /\ UNCHANGED seen
        /\ ledger'.stopped = [ledger.stopped EXCEPT ![op.id[1]] = 0]
    BY <1>5, <1>8, <1>11 DEF SuspendUnseen, SusSteps
  <2>2. CASE Delivered(op.id[1], "run") /\ UNCHANGED lost
    <3>1. /\ SamePids /\ os'[op.id[1]].state = "run"
          /\ \A p \in Pids \ {op.id[1]} : os'[p] = os[p]
      BY <2>1, <2>2, SignalOne
    <3>2. \A p \in Pids : os'[p].state = "stop" => os[p].state = "stop"
      BY <3>1
    <3> QED BY <2>1, <2>2, <3>1, <3>2, OwnCleared DEF HandSteps
  <2>3. CASE /\ Refused(op.id[1])
             /\ lost' = lost \union {id \in {op.id} :
                                       Live(id) /\ os[PidOf(id)].state = "stop"}
    <3>1. SamePids /\ os' = os
      BY <2>1, <2>3, SignalOne
    <3>2. ASSUME os[op.id[1]].state = "stop"
          PROVE  <<op.id[1], os[op.id[1]].gen>> \in lost'
      <4>1. <<op.id[1], os[op.id[1]].gen>> \in lost \/ os[op.id[1]].gen = op.id[2]
        BY <2>1, <3>2 DEF OwnInv, AllHeld, InHand, InFlight, Remembered
      <4>2. os[op.id[1]].gen = op.id[2] => Live(op.id)
        BY <2>1, <3>2 DEF Live, Alive
      <4> QED BY <2>1, <2>3, <3>2, <4>1, <4>2
    <3>3. \A p \in Pids : os'[p].state = "stop" => os[p].state = "stop"
      BY <3>1
    <3>4. lost \subseteq lost'
      BY <2>3
    <3> QED BY <2>1, <3>1, <3>2, <3>3, <3>4, OwnCleared DEF HandSteps
  <2> QED BY <1>11, <2>1, <2>2, <2>3 DEF SuspendUnseen
<1>12. CASE SuspendUnseenPersist
  <2>1. /\ pc = "sus_unseen" /\ UNCHANGED <<os, seen, lost>>
        /\ ledger'.stopped = ledger.stopped
        /\ pc' \notin HandSteps \union {"down"}
    BY <1>7, <1>12, Written DEF SuspendUnseenPersist, TypeInv, TypeOK
  <2> QED BY <2>1, OwnQuiet DEF HandSteps
<1> QED BY <1>1, <1>2, <1>3, <1>4, <1>6, <1>9, <1>10, <1>11, <1>12 DEF Suspend

(* A step of manage_lead_probation that sets the state and the mark of the    *)
(* process on probation and leaves the other processes alone.                *)
LEMMA OnlyProbation ==
    ASSUME TypeInv, OwnInv, NEW id \in Ids, SamePids, UNCHANGED <<seen, lost>>,
           \A p \in Pids \ {id[1]} : /\ os'[p] = os[p]
                                     /\ ledger'.stopped[p] = ledger.stopped[p],
           pc \notin {"down", "idle"}, pc' # "down",
           InFlight \subseteq {id},
           os'[id[1]].state = "stop" =>
             \/ <<id[1], os'[id[1]].gen>> \in lost \union InFlight'
             \/ ledger'.stopped[id[1]] = os'[id[1]].gen
    PROVE  AllHeld' /\ ListTrue'
<1>1. ListTrue'
  BY ListKept DEF OwnInv
<1>2. AllHeld'
  <2> SUFFICES ASSUME NEW p \in Pids, os'[p].state = "stop"
               PROVE  \/ <<p, os'[p].gen>> \in lost \union InFlight'
                      \/ ledger'.stopped[p] = os'[p].gen
    BY DEF AllHeld, Remembered
  <2>1. CASE p = id[1]
    BY <2>1
  <2>2. CASE p # id[1]
    <3>1. <<p, os[p].gen>> \notin InFlight
      BY <2>2 DEF Ids
    <3> QED BY <2>2, <3>1 DEF OwnInv, AllHeld, Remembered
  <2> QED BY <2>1, <2>2
<1> QED BY <1>1, <1>2

LEMMA ProbationOwn == TypeInv /\ OwnInv /\ Probation => OwnInv'
<1> SUFFICES ASSUME TypeInv, OwnInv, Probation PROVE OwnInv'
  OBVIOUS
<1>1. AfterProbation => pc' \in {"idle", "pressure"}
  BY DEF AfterProbation
<1> DEFINE id == OnProbation
<1>2. ASSUME pc \in ProbSteps \/ Monitoring
      PROVE  /\ ledger.probation \in Probations /\ id \in Ids
             /\ id[1] \in Pids /\ id = <<id[1], id[2]>> /\ PidOf(id) = id[1]
  BY <1>2, OnProbationId DEF Ids, PidOf
<1>3. CASE ProbationIdle
  <2>1. /\ pc = "probation" /\ pc' \in {"idle", "pressure"}
        /\ UNCHANGED <<os, seen, lost, ledger>>
    BY <1>1, <1>3 DEF ProbationIdle
  <2> QED BY <2>1, OwnQuiet DEF HandSteps
<1>4. CASE ProbationGone \/ ProbationPrepare \/ ProbationComplete
  BY <1>4, ProbationQuietMarks, OwnQuiet DEF HandSteps
<1>5. CASE ProbationResume
  <2>1. /\ pc = "probation" /\ Monitoring /\ Live(id)
        /\ UNCHANGED <<ledger, seen, lost, op>>
    BY <1>5 DEF ProbationResume, Monitoring
  <2>2. CASE Refused(id[1]) /\ AfterProbation
    <3>1. os' = os
      BY <1>2, <2>1, <2>2, SignalOne
    <3> QED BY <1>1, <2>1, <2>2, <3>1, OwnQuiet DEF HandSteps
  <2>3. CASE Delivered(id[1], "run") /\ pc' = "prob_commit"
    <3>1. /\ SamePids /\ os'[id[1]].state = "run"
          /\ \A p \in Pids \ {id[1]} : os'[p] = os[p]
      BY <1>2, <2>1, <2>3, SignalOne
    <3>2. OnProbation' = id /\ os'[id[1]].gen = id[2]
      BY <1>2, <2>1, <3>1 DEF OnProbation, Live, SamePids
    <3>3. AllHeld' /\ ListTrue'
      <4>1. InFlight = {}
        BY <2>1 DEF InFlight
      <4> HIDE DEF id
      <4> QED BY <1>2, <2>1, <2>3, <3>1, <4>1, OnlyProbation
    <3>4. InHand'
      BY <2>3, <3>1, <3>2 DEF InHand, SameProcess
    <3> QED BY <3>3, <3>4 DEF OwnInv
  <2> QED BY <1>2, <1>5, <2>1, <2>2, <2>3 DEF ProbationResume
<1>6. CASE ProbationCommit
  <2>1. /\ pc = "prob_commit" /\ pc \in ProbSteps
        /\ ledger'.stopped = [ledger.stopped EXCEPT ![id[1]] = 0]
        /\ OnProbation' = id
        /\ pc' \in {"idle", "pressure", "prob_rollback"}
        /\ UNCHANGED <<os, op, seen, lost>>
    BY <1>6, ProbationCommitMarks DEF ProbSteps
  <2>2. os[id[1]].state # "stop" /\ os[id[1]].gen = id[2]
    BY <2>1 DEF OwnInv, InHand, SameProcess
  <2>3. AllHeld' /\ ListTrue'
    <3>1. InFlight = {}
      BY <2>1 DEF InFlight
    <3> HIDE DEF id
    <3> QED BY <1>2, <2>1, <2>2, <3>1, OnlyProbation DEF SamePids
  <2>4. InHand'
    BY <2>1, <2>2 DEF InHand, SameProcess
  <2> QED BY <2>3, <2>4 DEF OwnInv
<1>7. CASE ProbationRollback
  <2>1. /\ pc = "prob_rollback" /\ pc \in ProbSteps /\ UNCHANGED <<seen, lost>>
        /\ os[id[1]].gen = id[2]
    BY <1>7 DEF ProbationRollback, ProbSteps, OwnInv, InHand, SameProcess
  <2>2. InFlight = {}
    BY <2>1 DEF InFlight
  <2>3. CASE /\ Delivered(id[1], "stop") /\ ledger' = ProbationFailed(ledger)
             /\ pc' = "prob_rolled_back"
    <3>1. /\ SamePids /\ \A p \in Pids \ {id[1]} : os'[p] = os[p]
      BY <1>2, <2>1, <2>3, SignalOne
    <3>2. ledger'.stopped = [ledger.stopped EXCEPT ![id[1]] = id[2]]
      BY <1>2, <2>1, <2>3, ProbationFailedMarks
    <3>3. ledger'.stopped[id[1]] = os'[id[1]].gen
      BY <1>2, <2>1, <3>1, <3>2 DEF SamePids, TypeInv, TypeOK, Ledgers
    <3>4. \A p \in Pids \ {id[1]} : ledger'.stopped[p] = ledger.stopped[p]
      BY <3>2 DEF TypeInv, TypeOK, Ledgers
    <3>5. AllHeld' /\ ListTrue'
      <4> HIDE DEF id
      <4> QED BY <1>2, <2>1, <2>2, <2>3, <3>1, <3>3, <3>4, OnlyProbation
    <3>6. InHand'
      BY <2>3 DEF InHand
    <3> QED BY <3>5, <3>6 DEF OwnInv
  <2>4. CASE Refused(id[1]) /\ AfterProbation /\ UNCHANGED ledger
    <3>1. os' = os
      BY <1>2, <2>1, <2>4, SignalOne
    <3>2. AllHeld'
      BY <1>1, <2>1, <2>4, <3>1 DEF OwnInv, AllHeld, InFlight, Remembered
    <3>3. ListTrue'
      BY <2>1, <3>1, ListKept DEF OwnInv, SamePids
    <3>4. InHand'
      BY <1>1, <2>4 DEF InHand
    <3> QED BY <3>2, <3>3, <3>4 DEF OwnInv
  <2> QED BY <1>2, <1>7, <2>1, <2>3, <2>4 DEF ProbationRollback
<1>8. CASE ProbationRolledBack \/ RelapseUndone
  <2>1. /\ pc \in {"prob_rolled_back", "rel_undone"} /\ pc' \in {"idle", "pressure"}
        /\ ledger'.stopped = ledger.stopped /\ UNCHANGED <<os, seen, lost>>
    BY <1>1, <1>8, Written DEF ProbationRolledBack, RelapseUndone, TypeInv, TypeOK
  <2> QED BY <2>1, OwnQuiet DEF HandSteps
<1>9. CASE Relapse
  <2>1. /\ pc = "probation" /\ pc' = "rel_record" /\ Monitoring /\ Live(id)
        /\ Delivered(PidOf(id), "stop") /\ UNCHANGED <<ledger, seen, lost, op>>
    BY <1>9 DEF Relapse, Watching, Monitoring
  <2>2. /\ SamePids /\ \A p \in Pids \ {id[1]} : os'[p] = os[p]
    BY <1>2, <2>1, SignalOne
  <2>3. OnProbation' = id /\ os'[id[1]].gen = id[2]
    BY <1>2, <2>1, <2>2 DEF OnProbation, Live, SamePids
  <2>4. InFlight = {} /\ InFlight' = {id}
    BY <2>1, <2>3 DEF InFlight
  <2>5. <<id[1], os'[id[1]].gen>> \in InFlight'
    BY <1>2, <2>1, <2>3, <2>4
  <2>6. AllHeld' /\ ListTrue'
    <3> HIDE DEF id
    <3> QED BY <1>2, <2>1, <2>2, <2>4, <2>5, OnlyProbation
  <2>7. InHand'
    BY <2>1, <2>3 DEF InHand, SameProcess
  <2> QED BY <2>6, <2>7 DEF OwnInv
<1>10. CASE RelapseRecord
  <2>1. /\ pc = "rel_record" /\ pc \in ProbSteps /\ UNCHANGED <<os, seen, lost>>
        /\ os[id[1]].gen = id[2] /\ InFlight = {id}
        /\ Saved(ProbationFailed(ledger)) \/ NotSaved(ProbationFailed(ledger))
        /\ pc' \in {"idle", "pressure", "rel_rollback"}
    BY <1>1, <1>10
       DEF RelapseRecord, ProbSteps, OwnInv, InHand, SameProcess, InFlight
  <2>2. ledger'.stopped = [ledger.stopped EXCEPT ![id[1]] = id[2]]
    BY <1>2, <2>1, ProbationFailedMarks, Written
  <2>3. ledger'.stopped[id[1]] = os[id[1]].gen
    BY <1>2, <2>1, <2>2 DEF TypeInv, TypeOK, Ledgers
  <2>4. \A p \in Pids \ {id[1]} : ledger'.stopped[p] = ledger.stopped[p]
    BY <2>2 DEF TypeInv, TypeOK, Ledgers
  <2>5. AllHeld' /\ ListTrue'
    <3> HIDE DEF id
    <3> QED BY <1>2, <2>1, <2>3, <2>4, OnlyProbation DEF SamePids
  <2>6. InHand'
    BY <2>1 DEF InHand
  <2> QED BY <2>5, <2>6 DEF OwnInv
<1>11. CASE RelapseRollback
  <2>1. /\ pc = "rel_rollback" /\ pc \in ProbSteps /\ UNCHANGED <<seen, lost>>
    BY <1>11 DEF RelapseRollback, ProbSteps
  <2>2. CASE /\ Delivered(id[1], "run") /\ pc' = "rel_undone"
             /\ ledger' = Attempt(ClearStopped(ledger, OnProbation), "resumed")
    <3>1. /\ SamePids /\ os'[id[1]].state = "run"
          /\ \A p \in Pids \ {id[1]} : os'[p] = os[p]
      BY <1>2, <2>1, <2>2, SignalOne
    <3>2. ledger'.stopped = [ledger.stopped EXCEPT ![id[1]] = 0]
      BY <1>2, <2>1, <2>2, RelapseRollbackMarks
    <3>3. \A p \in Pids : os'[p].state = "stop" => os[p].state = "stop"
      BY <3>1
    <3> HIDE DEF id
    <3> QED BY <1>2, <2>1, <2>2, <3>1, <3>2, <3>3, OwnCleared DEF HandSteps
  <2>3. CASE Refused(id[1]) /\ AfterProbation /\ UNCHANGED ledger
    <3>1. os' = os
      BY <1>2, <2>1, <2>3, SignalOne
    <3> QED BY <1>1, <2>1, <2>3, <3>1, OwnQuiet DEF HandSteps
  <2> QED BY <1>2, <1>11, <2>1, <2>2, <2>3 DEF RelapseRollback
<1> QED BY <1>3, <1>4, <1>5, <1>6, <1>7, <1>8, <1>9, <1>10, <1>11 DEF Probation

LEMMA PressureOwn == TypeInv /\ OwnInv /\ Pressure => OwnInv'
<1> SUFFICES ASSUME TypeInv, OwnInv, Pressure PROVE OwnInv'
  OBVIOUS
<1>1. CASE Recover
  <2>1. PICK k \in PressureIncidents :
          LET id == ledger.incidents[k].id
          IN  /\ Delivered(PidOf(id), "run")
              /\ op' = [id |-> id, what |-> "recover"]
    BY <1>1 DEF Recover
  <2> DEFINE id == ledger.incidents[k].id
  <2>2. id \in Ids /\ id[1] \in Pids /\ PidOf(id) = id[1]
    <3>1. ledger.incidents \in Seq(Incidents)
      BY DEF TypeInv, TypeOK, Ledgers
    <3>2. ledger.incidents[k] \in Incidents
      BY <3>1 DEF PressureIncidents
    <3> QED BY <3>2 DEF Incidents, Ids, PidOf
  <2> HIDE DEF id
  <2>3. /\ pc = "pressure" /\ pc' = "rec_commit" /\ op'.id = id
        /\ UNCHANGED <<ledger, seen, lost>>
    BY <1>1, <2>1 DEF Recover, id
  <2>4. /\ SamePids /\ os'[id[1]].state = "run"
        /\ \A p \in Pids \ {id[1]} : os'[p] = os[p]
    BY <2>1, <2>2, SignalOne DEF id
  <2>5. AllHeld'
    BY <2>3, <2>4 DEF OwnInv, AllHeld, InFlight, Remembered
  <2>6. ListTrue'
    BY <2>3, <2>4, ListKept DEF OwnInv
  <2>7. InHand'
    BY <2>3, <2>4 DEF InHand
  <2> QED BY <2>5, <2>6, <2>7 DEF OwnInv
<1>2. CASE RecoverCommit
  <2>1. op.id[1] \in Pids /\ os[op.id[1]].state # "stop"
    BY <1>2, RecoverMarks DEF Ids, OwnInv, InHand
  <2> QED BY <1>2, <2>1, RecoverMarks, OwnCleared DEF HandSteps, SamePids
<1>3. CASE PressureIdle
  <2>1. /\ pc \in {"pressure", "last_resort"} /\ pc' = "idle"
        /\ UNCHANGED <<os, seen, lost, ledger>>
    BY <1>3 DEF PressureIdle
  <2> QED BY <2>1, OwnQuiet DEF HandSteps
<1> QED BY <1>1, <1>2, <1>3 DEF Pressure

(* Other processes may exit, be continued, or take a free PID between ticks. *)
LEMMA EnvironmentOwn ==
    ASSUME ~ReuseMidTick, TypeInv, OwnInv, Environment, ~Day
    PROVE  OwnInv'
<1>1. UNCHANGED <<ledger, disk, pc, seen, op>>
  BY DEF Environment, Exit, Reuse, ExternalResume, Submit, daemonVars
<1>2. InFlight' = InFlight /\ Remembered' = Remembered /\ OnProbation' = OnProbation
  BY <1>1 DEF InFlight, Remembered, OnProbation
<1>3. ASSUME NEW p \in Pids, Exit(p) \/ ExternalResume(p) PROVE OwnInv'
  <2>1. /\ os'[p].state # "stop" /\ os'[p].gen = os[p].gen
        /\ os[p].state = "gone" => os'[p].state = "gone"
        /\ \A q \in Pids \ {p} : os'[q] = os[q]
        /\ lost' = lost \ {<<p, os[p].gen>>}
    BY <1>3 DEF Exit, ExternalResume, Alive, TypeInv, TypeOK
  <2>2. \A q \in Pids : os'[q].state = "stop" =>
          q # p /\ (<<q, os'[q].gen>> \in lost => <<q, os'[q].gen>> \in lost')
    BY <2>1
  <2>3. AllHeld'
    BY <1>2, <2>1, <2>2 DEF OwnInv, AllHeld
  <2>4. SamePids
    BY <2>1 DEF SamePids
  <2>5. ListTrue'
    BY <1>1, <2>4, ListKept DEF OwnInv
  <2>6. InHand'
    <3>1. ASSUME pc \in ProbSteps PROVE OnProbation[1] \in Pids
      BY <3>1, OnProbationId DEF Ids
    <3>2. ASSUME pc \in CtlSteps \union {"sus_record", "rec_commit"}
          PROVE  op.id[1] \in Pids
      BY <3>2 DEF TypeInv, StepOK, SusSteps, Ids
    <3> QED BY <1>1, <1>2, <2>1, <2>2, <2>4, <3>1, <3>2
            DEF OwnInv, InHand, SameProcess, SamePids, ProbSteps, CtlSteps
  <2> QED BY <2>3, <2>5, <2>6 DEF OwnInv
<1>4. ASSUME NEW p \in Pids, Reuse(p) PROVE OwnInv'
  <2>1. pc \in {"idle", "down"}
    BY <1>4 DEF Reuse
  <2>2. /\ os'[p].state = "run" /\ \A q \in Pids \ {p} : os'[q] = os[q]
        /\ UNCHANGED lost
    BY <1>4 DEF Reuse, TypeInv, TypeOK
  <2>3. AllHeld'
    BY <1>2, <2>2 DEF OwnInv, AllHeld
  <2> QED BY <1>1, <2>1, <2>3 DEF OwnInv, ListTrue, InHand
<1>5. ASSUME NEW r \in Requests, Submit(r) PROVE OwnInv'
  <2>1. UNCHANGED <<os, lost>>
    BY <1>5 DEF Submit
  <2> QED BY <1>1, <1>2, <2>1 DEF OwnInv, AllHeld, ListTrue, InHand, SameProcess
<1> QED BY <1>3, <1>4, <1>5 DEF Environment

(* Between two ticks a day may pass, and the ledger may be saved again. *)
LEMMA BetweenOwn ==
    ASSUME TypeInv, OwnInv, Day \/ OtherSave
    PROVE  OwnInv'
<1>1. /\ pc = "idle" /\ UNCHANGED <<os, pc, seen, lost>>
      /\ ledger'.stopped = ledger.stopped
  BY AgedFacts, Written DEF Day, OtherSave, TypeInv, TypeOK
<1>2. AllHeld'
  BY <1>1 DEF OwnInv, AllHeld, InFlight, Remembered
<1> QED BY <1>1, <1>2 DEF OwnInv, ListTrue, InHand

LEMMA CrashOwn == TypeInv /\ OwnInv /\ (Crash \/ Restart) => OwnInv'
<1> SUFFICES ASSUME TypeInv, OwnInv, Crash \/ Restart PROVE OwnInv'
  OBVIOUS
<1>1. \A p \in Pids : os[p].state = "stop" =>
        <<p, os[p].gen>> \in StoppedNow /\ os[p].gen # 0
  BY DEF StoppedNow, PidOf, TypeInv, TypeOK, Gens
<1>2. CASE Crash
  <2>1. /\ pc' = "down" /\ UNCHANGED <<os, disk>>
        /\ lost' = lost \union {id \in StoppedNow : disk.stopped[PidOf(id)] # id[2]}
    BY <1>2 DEF Crash
  <2>2. AllHeld'
    BY <1>1, <2>1 DEF AllHeld, Remembered, PidOf
  <2> QED BY <2>1, <2>2 DEF OwnInv, ListTrue, InHand
<1>3. CASE Restart
  <2>1. /\ pc = "down" /\ pc' = "idle" /\ UNCHANGED <<os, disk>>
        /\ \/ lost' = lost \union StoppedNow
           \/ lost' = lost /\ ledger'.stopped = disk.stopped
    BY <1>3 DEF Restart, TypeInv, TypeOK, Ledgers
  <2>2. AllHeld'
    BY <1>1, <2>1 DEF OwnInv, AllHeld, InFlight, Remembered
  <2> QED BY <2>1, <2>2 DEF OwnInv, ListTrue, InHand
<1> QED BY <1>2, <1>3

(* While a daemon runs, a stopped process is in its `stopped` table under its *)
(* exact identity, or a handler is about to put it there.  A pause gets away *)
(* only by a crash before the write, or when the signal that should undo it  *)
(* is refused and the result ignored; those are in `lost`.  The hypothesis   *)
(* is that a PID is not given away within one tick: manage_lead_probation    *)
(* rolls back with a signal to a PID it checked before the write.            *)
THEOREM PausesAreOwned ==
    ASSUME ~ReuseMidTick
    PROVE  Spec => []PauseOwned
<1>1. Init => TypeInv /\ OwnInv
  <2>1. Init => OwnInv
    BY DEF Init, OwnInv, AllHeld, ListTrue, InHand
  <2> QED BY <2>1, InitType
<1>2. TypeInv /\ OwnInv /\ [Next]_vars => TypeInv' /\ OwnInv'
  <2> SUFFICES ASSUME TypeInv, OwnInv, [Next]_vars PROVE OwnInv'
    BY StepType
  <2>1. CASE UNCHANGED vars
    BY <2>1 DEF OwnInv, AllHeld, ListTrue, InHand, InFlight, Remembered,
                SameProcess, OnProbation, vars
  <2> QED BY <2>1, ReconcileOwn, ControlOwn, SuspendOwn, ProbationOwn,
             PressureOwn, EnvironmentOwn, BetweenOwn, CrashOwn DEF Next, Daemon
<1>3. TypeInv /\ OwnInv => PauseOwned
  <2> SUFFICES ASSUME TypeInv, OwnInv, pc # "down", NEW id \in StoppedNow
               PROVE  id \in lost \union InFlight \union
                              {<<p, ledger.stopped[p]>> : p \in Managed(ledger)}
    BY DEF PauseOwned
  <2>1. PICK p \in Pids : id = <<p, os[p].gen>>
    BY DEF StoppedNow
  <2>2. os[p].state = "stop" /\ os[p].gen # 0
    BY <2>1 DEF StoppedNow, PidOf, TypeInv, TypeOK, Gens
  <2>3. id \in lost \union InFlight \/ ledger.stopped[p] = os[p].gen
    BY <2>1, <2>2 DEF OwnInv, AllHeld, Remembered
  <2> QED BY <2>1, <2>2, <2>3 DEF Managed
<1> QED BY <1>1, <1>2, <1>3, PTL DEF Spec

-----------------------------------------------------------------------------
(* What the ledger remembers: the incidents a user reads and the handlers   *)
(* search say the same as the table of stopped processes, and a process its *)
(* owner has resumed is left alone until its cooldown ends, through crashes, *)
(* failed writes and refused signals.                                       *)

(* The books of a ledger l, about the processes o of the operating system.  *)

Lively(o, id) == o[id[1]].state # "gone" /\ o[id[1]].gen = id[2]
Open(incident) == incident.status \in OpenStatus

NoTwin(l) ==
    \A i, j \in DOMAIN l.incidents :
        (/\ l.incidents[i].id = l.incidents[j].id
         /\ Open(l.incidents[i]) /\ Open(l.incidents[j])) => i = j

(* A suspended incident is of a marked process, another open one of the      *)
(* process on probation.                                                     *)
Accounted(l) ==
    \A k \in DOMAIN l.incidents :
        LET id == l.incidents[k].id
        IN  /\ l.incidents[k].status = "suspended" => l.stopped[id[1]] = id[2]
            /\ (Open(l.incidents[k]) /\ l.incidents[k].status # "suspended") =>
                 HasProbation(l, id)

(* A save has dropped the identity's open incident: see Forgotten. *)
Excused(l, d, id) ==
    <<id, "limit">> \in d \/ (<<id, "age">> \in d /\ HasProbation(l, id))

HasOpen(l, id) ==
    \E k \in DOMAIN l.incidents : l.incidents[k].id = id /\ Open(l.incidents[k])

(* A marked process that lives has an open incident. *)
Backed(l, o, d) ==
    \A p \in Pids : (l.stopped[p] # 0 /\ Lively(o, <<p, l.stopped[p]>>)) =>
        HasOpen(l, <<p, l.stopped[p]>>) \/ Excused(l, d, <<p, l.stopped[p]>>)

(* Marks and the probation are of processes that existed, the mark of the    *)
(* later one, and a lead being watched is not marked.                        *)
Dated(l, o) ==
    /\ \A p \in Pids : l.stopped[p] <= o[p].gen
    /\ l.probation # None =>
         LET id == l.probation.id
         IN  /\ id[2] <= o[id[1]].gen
             /\ l.stopped[id[1]] = 0 \/ id[2] <= l.stopped[id[1]]
             /\ (l.probation.sent /\ l.probation.status = "monitoring") =>
                  l.stopped[id[1]] # id[2]

Booked(l, o, d) ==
    l \in Ledgers /\ NoTwin(l) /\ Accounted(l) /\ Backed(l, o, d) /\ Dated(l, o)

Systems == [Pids -> [gen : Gens, state : {"run", "stop", "gone"}]]

(* Processes exit and PIDs are reused for later processes only.              *)
LEMMA BookedLater ==
    ASSUME NEW l \in Ledgers, NEW o \in Systems, NEW n \in Systems,
           NEW d, Booked(l, o, d),
           \A p \in Pids : /\ o[p].gen <= n[p].gen
                           /\ (n[p].gen = o[p].gen /\ o[p].state = "gone") =>
                                n[p].state = "gone"
    PROVE  Booked(l, n, d)
<1>1. \A p \in Pids : o[p].gen \in Nat /\ n[p].gen \in Nat /\ l.stopped[p] \in Nat
  BY DEF Systems, Gens, Ledgers
<1>2. ASSUME NEW p \in Pids, l.stopped[p] # 0, Lively(n, <<p, l.stopped[p]>>)
      PROVE  Lively(o, <<p, l.stopped[p]>>)
  <2>1. n[p].gen = l.stopped[p] /\ n[p].state # "gone" /\ l.stopped[p] <= o[p].gen
    BY <1>2 DEF Lively, Booked, Dated
  <2>2. o[p].gen = n[p].gen
    BY <1>1, <2>1
  <2> QED BY <2>1, <2>2 DEF Lively
<1>3. Backed(l, n, d)
  BY <1>2 DEF Booked, Backed
<1>4. Dated(l, n)
  <2>1. \A p \in Pids : l.stopped[p] <= n[p].gen
    BY <1>1 DEF Booked, Dated
  <2>2. ASSUME l.probation # None
        PROVE  l.probation.id[2] <= n[l.probation.id[1]].gen
    <3>1. l.probation.id[1] \in Pids /\ l.probation.id[2] \in Nat
      BY <2>2 DEF Ledgers, Probations, Ids, Gens
    <3> QED BY <1>1, <2>2, <3>1 DEF Booked, Dated
  <2> QED BY <2>1, <2>2 DEF Booked, Dated
<1> QED BY <1>3, <1>4 DEF Booked

(* Pending controls and cooldowns are not in the books.                      *)
LEMMA BookedSame ==
    ASSUME NEW l \in Ledgers, NEW m \in Ledgers, NEW o \in Systems, NEW d,
           Booked(l, o, d),
           m.stopped = l.stopped, m.incidents = l.incidents,
           m.probation = l.probation
    PROVE  Booked(m, o, d)
BY DEF Booked, NoTwin, Accounted, Backed, HasOpen, Excused, Dated, HasProbation

-----------------------------------------------------------------------------
(* What transition_incident does to the open incidents.                     *)

IncidentsOf(l, id, status, attempted) ==
    Transition(l, id, status, attempted).incidents

(* One incident of the identity gets the status, none of its others is open,  *)
(* and the rest stays where and as it was.                                   *)
Moves(old, new, id, status) ==
    /\ \E m \in DOMAIN new :
         /\ new[m].id = id /\ new[m].status = status
         /\ \A k \in DOMAIN new : k # m =>
              /\ k \in DOMAIN old /\ new[k] = old[k]
              /\ ~(old[k].id = id /\ Open(old[k]))
    /\ \A k \in DOMAIN old : (old[k].id # id \/ ~Open(old[k])) =>
         k \in DOMAIN new /\ new[k] = old[k]

(* Without twins, that is what transition_incident does. *)
LEMMA TransitionMoves ==
    ASSUME NEW l \in Ledgers, NEW id \in Ids, NEW status \in Statuses,
           NEW attempted \in BOOLEAN, NoTwin(l)
    PROVE  Moves(l.incidents, IncidentsOf(l, id, status, attempted), id, status)
<1> DEFINE old == l.incidents
           new == IncidentsOf(l, id, status, attempted)
           open == OpenAt(old, id)
           n == Len(old)
           fresh == [id |-> id, reason |-> "recovered-runtime",
                     status |-> status, attempted |-> attempted,
                     old |-> FALSE]
           moved == [old[Max(open)] EXCEPT
                       !.status = status,
                       !.attempted = old[Max(open)].attempted \/ attempted,
                       !.old = FALSE]
<1>1. old \in Seq(Incidents) /\ n \in Nat /\ DOMAIN old = 1..n
  BY DEF Ledgers
<1>2. new = IF open = {} THEN Append(old, fresh)
            ELSE [old EXCEPT ![Max(open)] = moved]
  <2>1. Transition(l, id, status, attempted) =
          [l EXCEPT !.incidents = IF open = {} THEN Append(old, fresh)
                                  ELSE [old EXCEPT ![Max(open)] = moved]]
    BY DEF Transition
  <2> HIDE DEF open, fresh, moved
  <2> QED BY <2>1 DEF IncidentsOf, Ledgers
<1>3. open = {k \in DOMAIN old : old[k].id = id /\ Open(old[k])}
  BY DEF OpenAt, Open
<1> SUFFICES Moves(old, new, id, status)
  OBVIOUS
<1>4. CASE open = {}
  <2>1. new = Append(old, fresh) /\ fresh.id = id /\ fresh.status = status
    BY <1>2, <1>4
  <2> HIDE DEF fresh, new, open, old, n
  <2>2. /\ DOMAIN new = 1..(n + 1) /\ new[n + 1] = fresh
        /\ \A k \in 1..n : new[k] = old[k]
    BY <1>1, <2>1 DEF n
  <2>3. \A k \in DOMAIN old : ~(old[k].id = id /\ Open(old[k]))
    BY <1>3, <1>4
  <2>4. n + 1 \in DOMAIN new /\ \A k \in DOMAIN new : k # n + 1 => k \in DOMAIN old
    BY <1>1, <2>2
  <2> QED BY <1>1, <2>1, <2>2, <2>3, <2>4 DEF new, old, Moves
<1>5. CASE open # {}
  <2> DEFINE m == Max(open)
  <2>1. m \in open
    <3>1. open \subseteq 1..n
      BY <1>1, <1>3
    <3> HIDE DEF open, n, old
    <3> QED BY <1>1, <1>5, <3>1, LatestIndex
  <2>2. m \in DOMAIN old /\ old[m].id = id /\ Open(old[m])
    BY <1>3, <2>1
  <2>3. new = [old EXCEPT ![m] = moved]
    BY <1>2, <1>5
  <2>4. moved.id = id /\ moved.status = status
    <3>1. old[m] \in Incidents
      BY <1>1, <2>2
    <3> QED BY <2>2, <3>1 DEF Incidents
  <2>5. \A k \in DOMAIN old : old[k].id = id /\ Open(old[k]) => k = m
    BY <2>2 DEF NoTwin
  <2> HIDE DEF moved, new, open, m, old
  <2>6. /\ DOMAIN new = DOMAIN old /\ new[m] = moved
        /\ \A k \in DOMAIN old : k # m => new[k] = old[k]
    BY <1>1, <2>2, <2>3
  <2> QED BY <2>2, <2>4, <2>5, <2>6 DEF new, old, Moves
<1> QED BY <1>4, <1>5

LEMMA IncidentIds ==
    ASSUME NEW l \in Ledgers
    PROVE  \A k \in DOMAIN l.incidents : l.incidents[k].id \in Ids
<1>1. l.incidents \in Seq(Incidents)
  BY DEF Ledgers
<1>2. \A k \in DOMAIN l.incidents : l.incidents[k] \in Incidents
  BY <1>1
<1> QED BY <1>2 DEF Incidents

LEMMA IdsPairs ==
    /\ \A i \in Ids : i = <<i[1], i[2]>>
    /\ \A i, j \in Ids : i[1] = j[1] /\ i[2] = j[2] => i = j
BY DEF Ids

(* The mark of an identity is cleared, was not there, or is of a process that *)
(* is no more; its probation may be dropped.                                 *)
MarkDropped(l, m, o, id) ==
    \/ m.stopped[id[1]] = 0 /\ l.stopped[id[1]] \in {0, id[2]}
    \/ /\ m.stopped[id[1]] = l.stopped[id[1]]
       /\ l.stopped[id[1]] # id[2] \/ ~Lively(o, id)
ProbationDropped(l, m, id) ==
    m.probation = l.probation \/ (m.probation = None /\ HasProbation(l, id))

(* Closing the incident of an identity whose mark, if it was there, is taken  *)
(* away, or whose process is no more.                                        *)
LEMMA BookedClosed ==
    ASSUME NEW l \in Ledgers, NEW m \in Ledgers, NEW o \in Systems, NEW d,
           Booked(l, o, d),
           NEW id \in Ids, NEW status \in ClosedStatus,
           Moves(l.incidents, m.incidents, id, status),
           \A p \in Pids \ {id[1]} : m.stopped[p] = l.stopped[p],
           MarkDropped(l, m, o, id), ProbationDropped(l, m, id)
    PROVE  Booked(m, o, d)
<1> USE DEF MarkDropped, ProbationDropped
<1> DEFINE old == l.incidents
           new == m.incidents
<1>1. /\ id[1] \in Pids /\ id[2] \in Gens /\ id = <<id[1], id[2]>>
      /\ \A p \in Pids : l.stopped[p] \in Nat /\ m.stopped[p] \in Nat
      /\ \A k \in DOMAIN old : old[k].id \in Ids
      /\ \A i, j \in Ids : i[1] = j[1] /\ i[2] = j[2] => i = j
  BY IdsPairs, IncidentIds DEF Ids, Ledgers
<1>2. ~(status \in OpenStatus)
  BY DEF ClosedStatus, OpenStatus
<1>3. \A k \in DOMAIN new : Open(new[k]) =>
        k \in DOMAIN old /\ new[k] = old[k] /\ old[k].id # id
  BY <1>2 DEF Moves, Open
<1>4. \A k \in DOMAIN old : old[k].id # id => k \in DOMAIN new /\ new[k] = old[k]
  BY DEF Moves
<1>5. NoTwin(m)
  BY <1>3 DEF Booked, NoTwin
<1>6. Accounted(m)
  <2> SUFFICES ASSUME NEW k \in DOMAIN new, Open(new[k])
               PROVE  /\ new[k].status = "suspended" =>
                           m.stopped[new[k].id[1]] = new[k].id[2]
                      /\ new[k].status # "suspended" =>
                           HasProbation(m, new[k].id)
    BY DEF Accounted, Open, OpenStatus
  <2> DEFINE x == old[k].id
  <2>1. k \in DOMAIN old /\ new[k] = old[k] /\ x # id /\ x \in Ids /\ Open(old[k])
    BY <1>1, <1>3
  <2>2. x[1] \in Pids /\ x[2] \in Gens
    BY <2>1 DEF Ids
  <2>3. l.stopped[x[1]] = x[2] => m.stopped[x[1]] = x[2]
    <3>1. CASE x[1] = id[1]
      <4>1. x[2] # id[2]
        BY <1>1, <2>1, <3>1
      <4> QED BY <2>2, <3>1, <4>1 DEF Gens
    <3>2. CASE x[1] # id[1]
      BY <2>2, <3>2
    <3> QED BY <3>1, <3>2
  <2>4. HasProbation(l, x) => HasProbation(m, x)
    BY <2>1 DEF HasProbation
  <2> HIDE DEF x
  <2>5. /\ old[k].status = "suspended" => l.stopped[x[1]] = x[2]
        /\ old[k].status # "suspended" => HasProbation(l, x)
    BY <2>1 DEF Booked, Accounted, x
  <2> QED BY <2>1, <2>3, <2>4, <2>5 DEF x
<1>7. Backed(m, o, d)
  <2> SUFFICES ASSUME NEW p \in Pids, m.stopped[p] # 0,
                      Lively(o, <<p, m.stopped[p]>>)
               PROVE  \/ HasOpen(m, <<p, m.stopped[p]>>)
                      \/ Excused(m, d, <<p, m.stopped[p]>>)
    BY DEF Backed
  <2>1. m.stopped[p] = l.stopped[p] /\ <<p, m.stopped[p]>> # id
    <3>1. CASE p = id[1]
      BY <1>1, <3>1
    <3>2. CASE p # id[1]
      BY <1>1, <3>2
    <3> QED BY <3>1, <3>2
  <2>2. CASE HasOpen(l, <<p, l.stopped[p]>>)
    BY <1>4, <2>1, <2>2 DEF HasOpen
  <2>3. CASE Excused(l, d, <<p, l.stopped[p]>>)
    BY <2>1, <2>3 DEF Excused, HasProbation
  <2> QED BY <2>1, <2>2, <2>3 DEF Booked, Backed
<1>8. Dated(m, o)
  <2>1. \A p \in Pids : m.stopped[p] \in {0, l.stopped[p]}
    BY <1>1
  <2>2. \A p \in Pids : o[p].gen \in Gens
    BY DEF Systems
  <2>3. \A p \in Pids : m.stopped[p] <= o[p].gen
    BY <1>1, <2>1, <2>2 DEF Booked, Dated, Gens
  <2>4. ASSUME m.probation # None
        PROVE  LET x == m.probation.id
               IN  /\ x[2] <= o[x[1]].gen
                   /\ m.stopped[x[1]] = 0 \/ x[2] <= m.stopped[x[1]]
                   /\ (m.probation.sent /\ m.probation.status = "monitoring") =>
                        m.stopped[x[1]] # x[2]
    <3>1. m.probation = l.probation
      BY <2>4
    <3>2. m.probation.id[1] \in Pids /\ m.probation.id[2] \in Gens
      BY <2>4 DEF Ledgers, Probations, Ids
    <3> QED BY <2>1, <2>4, <3>1, <3>2 DEF Booked, Dated, Gens
  <2> QED BY <2>3, <2>4 DEF Dated
<1> QED BY <1>5, <1>6, <1>7, <1>8 DEF Booked

(* Opening, or reopening, the incident of the process that is on probation.  *)
LEMMA BookedProbation ==
    ASSUME NEW l \in Ledgers, NEW m \in Ledgers, NEW o \in Systems, NEW d,
           Booked(l, o, d),
           NEW id \in Ids, NEW status \in {"probation", "probation_failed"},
           Moves(l.incidents, m.incidents, id, status),
           \A p \in Pids \ {id[1]} : m.stopped[p] = l.stopped[p],
           l.stopped[id[1]] \in {0, id[2]}, m.stopped[id[1]] \in {0, id[2]},
           id[2] <= o[id[1]].gen,
           l.probation = None \/ l.probation.id = id,
           m.probation # None, m.probation.id = id,
           (m.probation.sent /\ m.probation.status = "monitoring") =>
             m.stopped[id[1]] = 0
    PROVE  Booked(m, o, d)
<1> DEFINE old == l.incidents
           new == m.incidents
<1>1. /\ id[1] \in Pids /\ id[2] \in Gens /\ id = <<id[1], id[2]>>
      /\ \A p \in Pids : l.stopped[p] \in Nat /\ m.stopped[p] \in Nat
      /\ \A k \in DOMAIN old : old[k].id \in Ids
      /\ \A i, j \in Ids : i[1] = j[1] /\ i[2] = j[2] => i = j
  BY IdsPairs, IncidentIds DEF Ids, Ledgers
<1>2. status \in OpenStatus /\ status # "suspended"
  BY DEF OpenStatus
<1>3. PICK h \in DOMAIN new :
        /\ new[h].id = id /\ new[h].status = status
        /\ \A k \in DOMAIN new : k # h =>
             /\ k \in DOMAIN old /\ new[k] = old[k]
             /\ ~(old[k].id = id /\ Open(old[k]))
  BY DEF Moves
<1>4. \A k \in DOMAIN old : old[k].id # id => k \in DOMAIN new /\ new[k] = old[k]
  BY DEF Moves
<1>5. NoTwin(m)
  <2> SUFFICES ASSUME NEW i \in DOMAIN new, NEW j \in DOMAIN new,
                      new[i].id = new[j].id, Open(new[i]), Open(new[j])
               PROVE  i = j
    BY DEF NoTwin
  <2>1. CASE i = h \/ j = h
    BY <1>3, <2>1
  <2>2. CASE i # h /\ j # h
    BY <1>3, <2>2 DEF Booked, NoTwin
  <2> QED BY <2>1, <2>2
<1>6. Accounted(m)
  <2> SUFFICES ASSUME NEW k \in DOMAIN new
               PROVE  /\ new[k].status = "suspended" =>
                           m.stopped[new[k].id[1]] = new[k].id[2]
                      /\ (Open(new[k]) /\ new[k].status # "suspended") =>
                           HasProbation(m, new[k].id)
    BY DEF Accounted
  <2>1. CASE k = h
    BY <1>2, <1>3, <2>1 DEF HasProbation
  <2>2. CASE k # h /\ Open(new[k])
    <3> DEFINE x == old[k].id
    <3>1. k \in DOMAIN old /\ new[k] = old[k] /\ x # id /\ x \in Ids /\ Open(old[k])
      BY <1>1, <1>3, <2>2
    <3>2. x[1] \in Pids /\ x[2] \in Gens
      BY <3>1 DEF Ids
    <3>3. l.stopped[x[1]] = x[2] /\ old[k].status = "suspended"
      BY <3>1 DEF Booked, Accounted, HasProbation
    <3>4. x[1] # id[1]
      BY <1>1, <3>1, <3>2, <3>3 DEF Gens
    <3> QED BY <3>1, <3>2, <3>3, <3>4
  <2>3. CASE ~Open(new[k])
    BY <2>3 DEF Open, OpenStatus
  <2> QED BY <2>1, <2>2, <2>3
<1>7. Backed(m, o, d)
  <2> SUFFICES ASSUME NEW p \in Pids, m.stopped[p] # 0,
                      Lively(o, <<p, m.stopped[p]>>)
               PROVE  \/ HasOpen(m, <<p, m.stopped[p]>>)
                      \/ Excused(m, d, <<p, m.stopped[p]>>)
    BY DEF Backed
  <2>1. CASE p = id[1]
    <3>1. <<p, m.stopped[p]>> = id
      BY <1>1, <2>1
    <3> QED BY <1>2, <1>3, <3>1 DEF Open, HasOpen
  <2>2. CASE p # id[1]
    <3>1. m.stopped[p] = l.stopped[p] /\ <<p, l.stopped[p]>> # id
      BY <1>1, <2>2
    <3>2. CASE HasOpen(l, <<p, l.stopped[p]>>)
      BY <1>4, <3>1, <3>2 DEF HasOpen
    <3>3. CASE Excused(l, d, <<p, l.stopped[p]>>)
      BY <3>1, <3>3 DEF Excused, HasProbation
    <3> QED BY <3>1, <3>2, <3>3 DEF Booked, Backed
  <2> QED BY <2>1, <2>2
<1>8. Dated(m, o)
  <2>1. \A p \in Pids : o[p].gen \in Gens
    BY DEF Systems
  <2>2. \A p \in Pids : m.stopped[p] <= o[p].gen
    BY <1>1, <2>1 DEF Booked, Dated, Gens
  <2>3. m.stopped[id[1]] = 0 \/ id[2] <= m.stopped[id[1]]
    BY <1>1 DEF Gens
  <2>4. 0 # id[2]
    BY <1>1 DEF Gens
  <2> QED BY <2>2, <2>3, <2>4 DEF Dated
<1> QED BY <1>5, <1>6, <1>7, <1>8 DEF Booked

(* A new pause: the process is not marked, and not the one on probation.      *)
LEMMA BookedPause ==
    ASSUME NEW l \in Ledgers, NEW m \in Ledgers, NEW o \in Systems, NEW d,
           Booked(l, o, d),
           NEW id \in Ids, NEW incident \in Incidents,
           incident.id = id, incident.status = "suspended",
           m.incidents = Append(l.incidents, incident),
           m.stopped = [l.stopped EXCEPT ![id[1]] = id[2]],
           m.probation = l.probation,
           l.stopped[id[1]] = 0, id[2] <= o[id[1]].gen, ~HasProbation(l, id),
           (l.probation # None /\ l.probation.id[1] = id[1]) =>
             l.probation.id[2] <= id[2]
    PROVE  Booked(m, o, d)
<1> DEFINE old == l.incidents
           new == m.incidents
           n == Len(old)
<1>1. /\ id[1] \in Pids /\ id[2] \in Gens /\ id = <<id[1], id[2]>>
      /\ \A p \in Pids : l.stopped[p] \in Nat
      /\ \A p \in Pids : m.stopped[p] = IF p = id[1] THEN id[2] ELSE l.stopped[p]
      /\ \A k \in DOMAIN old : old[k].id \in Ids
      /\ \A i, j \in Ids : i[1] = j[1] /\ i[2] = j[2] => i = j
  <2>1. id[1] \in Pids /\ id[2] \in Gens /\ l.stopped \in [Pids -> Nat]
    BY DEF Ids, Ledgers
  <2> QED BY <2>1, IdsPairs, IncidentIds
<1>2. /\ n \in Nat /\ DOMAIN old = 1..n /\ DOMAIN new = 1..(n + 1)
      /\ new[n + 1] = incident /\ \A k \in 1..n : new[k] = old[k]
  <2>1. old \in Seq(Incidents)
    BY DEF Ledgers
  <2> QED BY <2>1
<1> HIDE DEF n
<1>3. \A k \in DOMAIN old : Open(old[k]) => old[k].id # id
  <2> SUFFICES ASSUME NEW k \in DOMAIN old, Open(old[k]), old[k].id = id
               PROVE  FALSE
    OBVIOUS
  <2>1. l.stopped[id[1]] = id[2] \/ HasProbation(l, id)
    BY DEF Booked, Accounted
  <2> QED BY <1>1, <2>1 DEF Gens
<1>4. \A k \in DOMAIN new : k = n + 1 \/ (k \in DOMAIN old /\ new[k] = old[k])
  BY <1>2
<1>5. NoTwin(m)
  <2> SUFFICES ASSUME NEW i \in DOMAIN new, NEW j \in DOMAIN new,
                      new[i].id = new[j].id, Open(new[i]), Open(new[j])
               PROVE  i = j
    BY DEF NoTwin
  <2> QED BY <1>2, <1>3, <1>4 DEF Booked, NoTwin
<1>6. Accounted(m)
  <2> SUFFICES ASSUME NEW k \in DOMAIN new
               PROVE  /\ new[k].status = "suspended" =>
                           m.stopped[new[k].id[1]] = new[k].id[2]
                      /\ (Open(new[k]) /\ new[k].status # "suspended") =>
                           HasProbation(m, new[k].id)
    BY DEF Accounted
  <2>1. CASE k = n + 1
    BY <1>1, <1>2, <2>1
  <2>2. CASE k # n + 1
    <3> DEFINE x == old[k].id
    <3>1. k \in DOMAIN old /\ new[k] = old[k] /\ x \in Ids
      BY <1>1, <1>4, <2>2
    <3>2. x[1] \in Pids /\ x[2] \in Gens
      BY <3>1 DEF Ids
    <3>3. l.stopped[x[1]] = x[2] => m.stopped[x[1]] = x[2]
      BY <1>1, <3>2 DEF Gens
    <3>4. HasProbation(m, x) = HasProbation(l, x)
      BY DEF HasProbation
    <3>5. /\ old[k].status = "suspended" => l.stopped[x[1]] = x[2]
          /\ (Open(old[k]) /\ old[k].status # "suspended") => HasProbation(l, x)
      BY <3>1 DEF Booked, Accounted
    <3> HIDE DEF x
    <3> QED BY <3>1, <3>3, <3>4, <3>5 DEF x
  <2> QED BY <2>1, <2>2
<1>7. Backed(m, o, d)
  <2> SUFFICES ASSUME NEW p \in Pids, m.stopped[p] # 0,
                      Lively(o, <<p, m.stopped[p]>>)
               PROVE  \/ HasOpen(m, <<p, m.stopped[p]>>)
                      \/ Excused(m, d, <<p, m.stopped[p]>>)
    BY DEF Backed
  <2>1. CASE p = id[1]
    <3>1. n + 1 \in DOMAIN new /\ Open(new[n + 1])
          /\ new[n + 1].id = <<p, m.stopped[p]>>
      BY <1>1, <1>2, <2>1 DEF Open, OpenStatus
    <3> QED BY <3>1 DEF HasOpen
  <2>2. CASE p # id[1]
    <3>1. m.stopped[p] = l.stopped[p]
      BY <1>1, <2>2
    <3>2. \A k \in DOMAIN old : k \in DOMAIN new /\ new[k] = old[k]
      BY <1>2
    <3>3. CASE HasOpen(l, <<p, l.stopped[p]>>)
      BY <3>1, <3>2, <3>3 DEF HasOpen
    <3>4. CASE Excused(l, d, <<p, l.stopped[p]>>)
      BY <3>1, <3>4 DEF Excused, HasProbation
    <3> QED BY <3>1, <3>3, <3>4 DEF Booked, Backed
  <2> QED BY <2>1, <2>2
<1>8. Dated(m, o)
  <2>1. \A p \in Pids : m.stopped[p] <= o[p].gen
    BY <1>1 DEF Booked, Dated
  <2>2. ASSUME m.probation # None
        PROVE  LET x == m.probation.id
               IN  /\ x[2] <= o[x[1]].gen
                   /\ m.stopped[x[1]] = 0 \/ x[2] <= m.stopped[x[1]]
                   /\ (m.probation.sent /\ m.probation.status = "monitoring") =>
                        m.stopped[x[1]] # x[2]
    <3> DEFINE x == l.probation.id
    <3>1. m.probation = l.probation /\ l.probation # None
      BY <2>2
    <3>2. x \in Ids /\ x[1] \in Pids /\ x[2] \in Gens /\ x # id
      BY <3>1 DEF Ledgers, Probations, Ids, HasProbation
    <3>3. CASE x[1] = id[1]
      <4>1. x[2] # id[2] /\ x[2] <= id[2]
        BY <1>1, <3>1, <3>2, <3>3
      <4> QED BY <1>1, <3>1, <3>2, <3>3, <4>1 DEF Booked, Dated
    <3>4. CASE x[1] # id[1]
      <4>1. m.stopped[x[1]] = l.stopped[x[1]]
        BY <1>1, <3>2, <3>4
      <4> QED BY <3>1, <4>1 DEF Booked, Dated
    <3> QED BY <3>3, <3>4
  <2> QED BY <2>1, <2>2 DEF Dated
<1> QED BY <1>5, <1>6, <1>7, <1>8 DEF Booked

-----------------------------------------------------------------------------
(* The handlers' updates of the ledger keep its books. *)

(* Transition changes the incidents only. *)
LEMMA TransitionKeeps ==
    ASSUME NEW l \in Ledgers, NEW id \in Ids, NEW status \in Statuses, NoTwin(l)
    PROVE  \A b \in BOOLEAN :
             /\ Transition(l, id, status, b) \in Ledgers
             /\ Transition(l, id, status, b).stopped = l.stopped
             /\ Transition(l, id, status, b).probation = l.probation
             /\ Moves(l.incidents, Transition(l, id, status, b).incidents, id, status)
<1> TAKE b \in BOOLEAN
<1>1. Moves(l.incidents, Transition(l, id, status, b).incidents, id, status)
  BY TransitionMoves DEF IncidentsOf
<1>2. /\ Transition(l, id, status, b) \in Ledgers
      /\ Transition(l, id, status, b).stopped = l.stopped
      /\ Transition(l, id, status, b).probation = l.probation
  BY TransitionType
<1> QED BY <1>1, <1>2, Zenon

(* Closing an identity's incident in a ledger c whose mark and probation have *)
(* been dropped already.                                                     *)
LEMMA SettledBooks ==
    ASSUME NEW l \in Ledgers, NEW c \in Ledgers, NEW o \in Systems, NEW d,
           Booked(l, o, d),
           NEW id \in Ids, NEW status \in ClosedStatus,
           c.incidents = l.incidents,
           c.stopped = [l.stopped EXCEPT ![id[1]] = 0],
           l.stopped[id[1]] \in {0, id[2]},
           c.probation = l.probation \/ (c.probation = None /\ HasProbation(l, id))
    PROVE  /\ Booked(Transition(c, id, status, FALSE), o, d)
           /\ Booked(Transition(c, id, status, TRUE), o, d)
<1>1. status \in Statuses /\ NoTwin(c)
  BY DEF Statuses, Booked, NoTwin
<1>2. /\ \A p \in Pids \ {id[1]} : c.stopped[p] = l.stopped[p]
      /\ c.stopped[id[1]] = 0
  BY DEF Ledgers, Ids
<1>3. ASSUME NEW m \in Ledgers, m.stopped = c.stopped, m.probation = c.probation,
             Moves(c.incidents, m.incidents, id, status)
      PROVE  Booked(m, o, d)
  <2>1. MarkDropped(l, m, o, id)
    BY <1>2, <1>3 DEF MarkDropped
  <2>2. ProbationDropped(l, m, id)
    BY <1>3 DEF ProbationDropped
  <2>3. Moves(l.incidents, m.incidents, id, status)
    BY <1>3
  <2>4. \A p \in Pids \ {id[1]} : m.stopped[p] = l.stopped[p]
    BY <1>2, <1>3
  <2> QED BY <2>1, <2>2, <2>3, <2>4, BookedClosed
<1>4. ASSUME NEW b \in BOOLEAN
      PROVE  Booked(Transition(c, id, status, b), o, d)
  <2>1. \A x \in BOOLEAN :
          /\ Transition(c, id, status, x) \in Ledgers
          /\ Transition(c, id, status, x).stopped = c.stopped
          /\ Transition(c, id, status, x).probation = c.probation
          /\ Moves(c.incidents, Transition(c, id, status, x).incidents, id, status)
    BY <1>1, TransitionKeeps
  <2> QED BY <1>3, <2>1, Zenon
<1> QED BY <1>4, Zenon

(* Clearing the mark of an identity and closing its incident. *)
LEMMA ReleasedBooks ==
    ASSUME NEW l \in Ledgers, NEW o \in Systems, NEW d,
           Booked(l, o, d),
           NEW id \in Ids, NEW status \in ClosedStatus,
           l.stopped[id[1]] \in {0, id[2]}
    PROVE  /\ Booked(Transition(ClearStopped(l, id), id, status, FALSE), o, d)
           /\ Booked(Transition(ClearStopped(l, id), id, status, TRUE), o, d)
<1> DEFINE c == ClearStopped(l, id)
<1>1. /\ c \in Ledgers /\ c.incidents = l.incidents
      /\ c.stopped = [l.stopped EXCEPT ![id[1]] = 0]
      /\ c.probation = l.probation
  BY ClearType
<1> HIDE DEF c
<1>2. /\ Booked(Transition(c, id, status, FALSE), o, d)
      /\ Booked(Transition(c, id, status, TRUE), o, d)
  BY <1>1, SettledBooks
<1> QED BY <1>2 DEF c

(* reconcile_stopped closes an entry. *)
LEMMA ClosedBooks ==
    ASSUME NEW l \in Ledgers, NEW o \in Systems, NEW d,
           Booked(l, o, d),
           NEW p \in Managed(l), NEW status \in ClosedStatus
    PROVE  Booked(Closed(l, p, status), o, d)
<1> DEFINE id == <<p, l.stopped[p]>>
           cleared == ClearStopped(l, id)
           unmarked == [cleared EXCEPT
                          !.probation = IF HasProbation(l, id) THEN None
                                        ELSE cleared.probation,
                          !.pending = IF PendingFor(l, p) THEN None
                                      ELSE cleared.pending]
<1>1. id \in Ids /\ id[1] = p /\ l.stopped[id[1]] = id[2]
  BY DEF Managed, Ids, Gens, Ledgers
<1>2. /\ cleared \in Ledgers /\ cleared.stopped = [l.stopped EXCEPT ![id[1]] = 0]
      /\ cleared.incidents = l.incidents /\ cleared.probation = l.probation
  BY <1>1, ClearType
<1>3. Closed(l, p, status) = Transition(unmarked, id, status, FALSE)
  BY DEF Closed
<1> HIDE DEF cleared, id
<1>4. unmarked \in Ledgers
  BY <1>2 DEF Ledgers
<1>5. /\ unmarked.stopped = cleared.stopped /\ unmarked.incidents = cleared.incidents
      /\ unmarked.probation = IF HasProbation(l, id) THEN None ELSE cleared.probation
  BY <1>2 DEF Ledgers
<1> HIDE DEF unmarked
<1>6. unmarked.probation = l.probation \/
        (unmarked.probation = None /\ HasProbation(l, id))
  BY <1>2, <1>5
<1>7. Booked(Transition(unmarked, id, status, FALSE), o, d)
  <2>1. unmarked.stopped = [l.stopped EXCEPT ![id[1]] = 0] /\ unmarked.incidents = l.incidents
    BY <1>2, <1>5
  <2>2. l.stopped[id[1]] \in {0, id[2]}
    BY <1>1
  <2> QED BY <1>1, <1>4, <1>6, <2>1, <2>2, SettledBooks, Zenon
<1> QED BY <1>3, <1>7

-----------------------------------------------------------------------------
(* The books are kept. *)

(* What is excused stays so. *)
LEMMA BookedGrown ==
    ASSUME NEW l, NEW o, NEW d, NEW e, Booked(l, o, d), d \subseteq e
    PROVE  Booked(l, o, e)
BY DEF Booked, Backed, Excused

(* What persist prunes is excused: an incident that is old and not suspended  *)
(* is of the process on probation.                                           *)
LEMMA BookedPruned ==
    ASSUME NEW l \in Ledgers, NEW o \in Systems, NEW d, Booked(l, o, d)
    PROVE  Booked(Pruned(l), o, d \union Dropped(l))
<1> DEFINE m == Pruned(l)
           e == d \union Dropped(l)
           K == Retained(l)
           old == l.incidents
           new == m.incidents
<1>1. /\ m \in Ledgers /\ m.stopped = l.stopped /\ m.probation = l.probation
      /\ PicksEach(new, old, K)
  BY PrunedFacts
<1>2. K \subseteq Recent(l) /\ Recent(l) \subseteq DOMAIN old
  BY DEF Retained, Recent
<1> HIDE DEF m, K
<1>3. PICK f \in [DOMAIN new -> K] :
        /\ \A i, j \in DOMAIN new : f[i] = f[j] => i = j
        /\ \A k \in K : \E i \in DOMAIN new : f[i] = k
        /\ \A i \in DOMAIN new : new[i] = old[f[i]]
  BY <1>1 DEF PicksEach
<1>4. \A i \in DOMAIN new : f[i] \in DOMAIN old /\ new[i] = old[f[i]]
  BY <1>2, <1>3
<1>5. NoTwin(m)
  BY <1>3, <1>4 DEF Booked, NoTwin
<1>6. \A id : HasProbation(m, id) <=> HasProbation(l, id)
  BY <1>1 DEF HasProbation
<1>7. Accounted(m)
  <2> SUFFICES ASSUME NEW i \in DOMAIN new
               PROVE  LET id == new[i].id
                      IN  /\ new[i].status = "suspended" => m.stopped[id[1]] = id[2]
                          /\ (Open(new[i]) /\ new[i].status # "suspended") =>
                               HasProbation(m, id)
    BY DEF Accounted
  <2> QED BY <1>1, <1>4, <1>6 DEF Booked, Accounted
<1>8. Backed(m, o, e)
  <2> SUFFICES ASSUME NEW p \in Pids, m.stopped[p] # 0,
                      Lively(o, <<p, m.stopped[p]>>)
               PROVE  \/ HasOpen(m, <<p, m.stopped[p]>>)
                      \/ Excused(m, e, <<p, m.stopped[p]>>)
    BY DEF Backed
  <2> DEFINE id == <<p, l.stopped[p]>>
  <2>1. id = <<p, m.stopped[p]>> /\ (HasOpen(l, id) \/ Excused(l, d, id))
    BY <1>1 DEF Booked, Backed
  <2> HIDE DEF id
  <2>2. CASE Excused(l, d, id)
    BY <1>6, <2>1, <2>2 DEF Excused
  <2>3. CASE HasOpen(l, id)
    <3>1. PICK k \in DOMAIN old : old[k].id = id /\ Open(old[k])
      BY <2>3 DEF HasOpen
    <3>2. CASE k \in K
      BY <1>3, <2>1, <3>1, <3>2 DEF HasOpen
    <3>3. CASE k \notin K /\ k \in Recent(l)
      <4>1. <<id, "limit">> \in Dropped(l)
        BY <3>1, <3>3 DEF Dropped, Open, K
      <4> QED BY <2>1, <4>1 DEF Excused
    <3>4. CASE k \notin K /\ k \notin Recent(l)
      <4>1. <<id, "age">> \in Dropped(l)
        BY <3>1, <3>4 DEF Dropped, Open, K
      <4>2. HasProbation(l, id)
        BY <3>1, <3>4 DEF Recent, Booked, Accounted
      <4> QED BY <1>6, <2>1, <4>1, <4>2 DEF Excused
    <3> QED BY <3>2, <3>3, <3>4
  <2> QED BY <2>1, <2>2, <2>3
<1>9. Dated(m, o)
  BY <1>1 DEF Booked, Dated
<1>10. Booked(m, o, e)
  BY <1>1, <1>5, <1>7, <1>8, <1>9 DEF Booked
<1> QED BY <1>10 DEF m

(* The age of the incidents is not in the books. *)
LEMMA BookedAged ==
    ASSUME NEW l \in Ledgers, NEW o \in Systems, NEW d, Booked(l, o, d)
    PROVE  Booked(Aged(l), o, d)
<1> DEFINE m == Aged(l)
<1>1. /\ m \in Ledgers /\ m.stopped = l.stopped /\ m.probation = l.probation
      /\ DOMAIN m.incidents = DOMAIN l.incidents
      /\ \A k \in DOMAIN l.incidents :
           /\ m.incidents[k].id = l.incidents[k].id
           /\ m.incidents[k].status = l.incidents[k].status
  BY AgedFacts
<1> HIDE DEF m
<1>2. NoTwin(m) /\ Accounted(m)
  BY <1>1 DEF Booked, NoTwin, Accounted, HasProbation, Open
<1>3. Backed(m, o, d)
  BY <1>1 DEF Booked, Backed, HasOpen, Excused, HasProbation, Open
<1>4. Dated(m, o)
  BY <1>1 DEF Booked, Dated
<1>5. Booked(m, o, d)
  BY <1>1, <1>2, <1>3, <1>4 DEF Booked
<1> QED BY <1>5 DEF m


(* What a handler in progress relies on. *)
HandInv ==
    /\ pc = "sus_record" =>
         /\ ledger.stopped[op.id[1]] = 0
         /\ op.id[2] <= os[op.id[1]].gen
         /\ ~HasProbation(ledger, op.id)
         /\ (ledger.probation # None /\ OnProbation[1] = op.id[1]) =>
              OnProbation[2] <= op.id[2]
    /\ pc \in {"ctl_signal", "ctl_commit", "sus_rollback", "sus_notify", "rec_commit"} =>
         ledger.stopped[op.id[1]] = op.id[2]
    /\ pc \in {"prob_commit", "prob_rollback", "rel_record", "rel_rollback"} =>
         ledger.stopped[OnProbation[1]] \in {0, OnProbation[2]}

BookSteps == {"sus_record", "ctl_signal", "ctl_commit", "sus_rollback",
              "sus_notify", "rec_commit", "prob_commit", "prob_rollback",
              "rel_record", "rel_rollback"}

BookInv == Booked(ledger, os, dropped) /\ Booked(disk, os, dropped) /\ HandInv

Later ==
    \A p \in Pids : /\ os[p].gen <= os'[p].gen
                    /\ (os'[p].gen = os[p].gen /\ os[p].state = "gone") =>
                         os'[p].state = "gone"

LEMMA SamePidsLater == ASSUME TypeInv, SamePids PROVE Later
BY DEF SamePids, Later, TypeInv, TypeOK, Gens

LEMMA BooksKept ==
    ASSUME TypeInv, TypeInv', BookInv, Later, dropped \subseteq dropped',
           Booked(ledger', os, dropped'),
           disk' = disk \/ disk' = ledger'
    PROVE  Booked(ledger', os', dropped') /\ Booked(disk', os', dropped')
<1>1. os \in Systems /\ os' \in Systems
  BY DEF TypeInv, TypeOK, Systems
<1>2. ledger' \in Ledgers /\ disk' \in Ledgers /\ disk \in Ledgers
  BY DEF TypeInv, TypeOK
<1>3. Booked(ledger', os', dropped')
  BY <1>1, <1>2, BookedLater DEF Later
<1>4. Booked(disk, os', dropped')
  <2>1. Booked(disk, os, dropped')
    BY BookedGrown DEF BookInv
  <2> QED BY <1>1, <1>2, <2>1, BookedLater DEF Later
<1> QED BY <1>3, <1>4

(* A save, or a failed one, of a ledger whose books are kept. *)
LEMMA BooksWritten ==
    ASSUME TypeInv, TypeInv', BookInv, Later, NEW l, Booked(l, os, dropped),
           Saved(l) \/ NotSaved(l)
    PROVE  Booked(ledger', os', dropped') /\ Booked(disk', os', dropped')
<1>1. l \in Ledgers /\ os \in Systems
  BY DEF Booked, TypeInv, TypeOK, Systems
<1>2. disk' = disk \/ disk' = ledger'
  BY DEF Saved, NotSaved
<1>3. \/ ledger' = l /\ dropped' = dropped
      \/ ledger' = Pruned(l) /\ dropped' = dropped \union Dropped(l)
  BY DEF Saved, NotSaved
<1>4. dropped \subseteq dropped'
  BY <1>3
<1>5. Booked(ledger', os, dropped')
  <2>1. Booked(Pruned(l), os, dropped \union Dropped(l))
    BY <1>1, BookedPruned
  <2> QED BY <1>3, <2>1
<1> QED BY <1>2, <1>4, <1>5, BooksKept

(* A step that leaves the table, the incidents and the probation alone. *)
LEMMA BooksQuiet ==
    ASSUME TypeInv, TypeInv', BookInv, Later, UNCHANGED dropped,
           ledger'.stopped = ledger.stopped,
           ledger'.incidents = ledger.incidents,
           ledger'.probation = ledger.probation,
           disk' = disk \/ disk' = ledger'
    PROVE  Booked(ledger', os', dropped') /\ Booked(disk', os', dropped')
<1>1. Booked(ledger', os, dropped)
  <2>1. ledger \in Ledgers /\ ledger' \in Ledgers /\ os \in Systems
    BY DEF TypeInv, TypeOK, Systems
  <2> QED BY <2>1, BookedSame DEF BookInv
<1> QED BY <1>1, BooksKept

(* A save of a ledger that differs in its pending control and cooldowns.      *)
LEMMA BooksSaved ==
    ASSUME TypeInv, TypeInv', BookInv, Later, NEW l \in Ledgers,
           l.stopped = ledger.stopped, l.incidents = ledger.incidents,
           l.probation = ledger.probation, Saved(l) \/ NotSaved(l)
    PROVE  Booked(ledger', os', dropped') /\ Booked(disk', os', dropped')
<1>1. Booked(l, os, dropped)
  <2>1. ledger \in Ledgers /\ os \in Systems
    BY DEF TypeInv, TypeOK, Systems
  <2> QED BY <2>1, BookedSame DEF BookInv
<1> QED BY <1>1, BooksWritten

LEMMA NoHand == ASSUME pc' \notin BookSteps PROVE HandInv'
BY DEF HandInv, BookSteps

LEMMA ReconcileBooks ==
    ASSUME TypeInv, TypeInv', BookInv, TickStart \/ Reconcile
    PROVE  BookInv'
<1>1. ledger \in Ledgers /\ os \in Systems /\ Booked(ledger, os, dropped)
  BY DEF TypeInv, TypeOK, Systems, BookInv
<1>2. CASE TickStart \/ \E p \in Pids : ReconcileUnverified(p) \/ ReconcileKept(p)
  <2>1. /\ UNCHANGED <<os, ledger, disk, dropped>> /\ pc' \notin BookSteps
    BY <1>2 DEF TickStart, ReconcileUnverified, ReconcileKept, Visit, BookSteps
  <2>2. Later
    BY <2>1, SamePidsLater DEF SamePids
  <2> QED BY <2>1, <2>2, BooksQuiet, NoHand DEF BookInv
<1>3. ASSUME NEW p \in Pids, ReconcileGone(p) \/ ReconcileResumed(p)
      PROVE  BookInv'
  <2>1. /\ p \in Managed(ledger) /\ UNCHANGED <<os, disk, dropped>> /\ pc' \notin BookSteps
    BY <1>3, ReconcileMarks
       DEF ReconcileGone, ReconcileResumed, Visit, BookSteps
  <2>2. Later
    BY <2>1, SamePidsLater DEF SamePids
  <2>3. CASE ReconcileGone(p)
    <3>1. GoneStatus(p) \in ClosedStatus
      BY DEF GoneStatus, ClosedStatus
    <3>2. Booked(ledger', os, dropped)
      BY <1>1, <2>1, <2>3, <3>1, ClosedBooks DEF ReconcileGone
    <3> QED BY <2>1, <2>2, <3>2, BooksKept, NoHand DEF BookInv
  <2>4. CASE ReconcileResumed(p)
    <3> DEFINE closed == Closed(ledger, p, "resumed")
    <3>1. closed \in Ledgers /\ Booked(closed, os, dropped)
      BY <1>1, <2>1, ClosedBooks, ClosedType DEF ClosedStatus, Statuses
    <3>2. ledger' = [closed EXCEPT !.cooldown =
                       closed.cooldown \union {<<p, ledger.stopped[p]>>}]
      BY <2>4 DEF ReconcileResumed
    <3> HIDE DEF closed
    <3>3. /\ ledger'.stopped = closed.stopped
          /\ ledger'.incidents = closed.incidents
          /\ ledger'.probation = closed.probation
      BY <3>1, <3>2 DEF Ledgers
    <3>4. ledger' \in Ledgers
      BY DEF TypeInv, TypeOK
    <3>5. Booked(ledger', os, dropped)
      BY <1>1, <3>1, <3>3, <3>4, BookedSame
    <3> QED BY <2>1, <2>2, <3>5, BooksKept, NoHand DEF BookInv
  <2> QED BY <1>3, <2>3, <2>4
<1>4. CASE ReconcileFinish
  <2>1. PICK keep \in SUBSET ledger.cooldown :
          LET l == [ledger EXCEPT !.cooldown = keep]
          IN  UNCHANGED <<ledger, disk, dropped>> \/ Saved(l) \/ NotSaved(l)
    BY <1>4 DEF ReconcileFinish
  <2> DEFINE l == [ledger EXCEPT !.cooldown = keep]
  <2>2. /\ l \in Ledgers /\ l.stopped = ledger.stopped
        /\ l.incidents = ledger.incidents /\ l.probation = ledger.probation
    BY <1>1 DEF Ledgers
  <2>3. UNCHANGED <<ledger, disk, dropped>> \/ Saved(l) \/ NotSaved(l)
    BY <2>1
  <2> HIDE DEF l
  <2>4. UNCHANGED os /\ pc' \notin BookSteps
    BY <1>4 DEF ReconcileFinish, BookSteps
  <2>5. Later
    BY <2>4, SamePidsLater DEF SamePids
  <2>6. Booked(ledger', os', dropped') /\ Booked(disk', os', dropped')
    BY <2>2, <2>3, <2>5, BooksQuiet, BooksSaved
  <2> QED BY <2>4, <2>6, NoHand DEF BookInv
<1> QED BY <1>2, <1>3, <1>4 DEF Reconcile

LEMMA ControlBooks ==
    ASSUME TypeInv, TypeInv', BookInv, Control
    PROVE  BookInv'
<1>1. ledger \in Ledgers /\ os \in Systems /\ Booked(ledger, os, dropped)
  BY DEF TypeInv, TypeOK, Systems, BookInv
<1>2. CASE \/ \E r \in Requests : ControlRefuse(r)
           \/ ControlList \/ ControlAnswer \/ ControlRemove \/ ControlDone
  <2>1. UNCHANGED <<os, ledger, disk, dropped>> /\ pc' \notin BookSteps
    BY <1>2 DEF ControlRefuse, Takes, ControlList, ControlAnswer, ControlRemove,
                ControlDone, BookSteps
  <2>2. Later
    BY <2>1, SamePidsLater DEF SamePids
  <2> QED BY <2>1, <2>2, BooksQuiet, NoHand DEF BookInv
<1>3. ASSUME NEW r \in Requests, ControlIntent(r) PROVE BookInv'
  <2> DEFINE target == Target(r)
             l == [ledger EXCEPT !.pending = target]
  <2>1. \/ UNCHANGED <<ledger, disk, dropped>> \/ NotSaved(ledger)
        \/ Saved(l) /\ l \in Ledgers
    <3>1. Target(r) \in PendingControls
      BY <1>1, <1>3 DEF ControlIntent, Admissible, Target, PendingControls,
                        Requests, Ids, Gens, Ledgers
    <3>2. l \in Ledgers
      <4> HIDE DEF target
      <4> QED BY <1>1, <3>1 DEF Ledgers, target
    <3> QED BY <1>3, <3>2, Zenon DEF ControlIntent
  <2>2. l \in Ledgers => /\ l.stopped = ledger.stopped
                         /\ l.incidents = ledger.incidents
                         /\ l.probation = ledger.probation
    <3> HIDE DEF target
    <3> QED BY <1>1 DEF Ledgers
  <2> HIDE DEF l, target
  <2>3. Later
    BY <1>3, IntentMarks, SamePidsLater DEF SamePids
  <2>4. HandInv'
    BY <1>3, IntentMarks DEF HandInv
  <2>5. Booked(ledger', os', dropped') /\ Booked(disk', os', dropped')
    BY <1>1, <2>1, <2>2, <2>3, BooksQuiet, BooksSaved
  <2> QED BY <2>4, <2>5 DEF BookInv
<1>4. CASE ControlSignal
  <2>1. op.id \in Ids /\ PidOf(op.id) \in Pids
    BY <1>4 DEF ControlSignal, TypeInv, StepOK, CtlSteps, Ids, PidOf
  <2>2. \E state \in {"gone", "run"} :
          Delivered(PidOf(op.id), state) \/ Refused(PidOf(op.id))
    BY <1>4 DEF ControlSignal, TerminateSignal
  <2>3. Later
    BY <2>1, <2>2, SignalOne, SamePidsLater
  <2>4. /\ UNCHANGED <<ledger, disk, op, dropped>>
        /\ pc = "ctl_signal" /\ pc' = "ctl_commit"
    BY <1>4 DEF ControlSignal, TerminateSignal, Delivered, Refused
  <2>5. HandInv'
    BY <2>4 DEF HandInv, BookInv
  <2> QED BY <2>3, <2>4, <2>5, BooksQuiet DEF BookInv
<1>5. CASE ControlSignalRefused
  <2>1. op.id \in Ids /\ PidOf(op.id) \in Pids
    BY <1>5 DEF ControlSignalRefused, TypeInv, StepOK, CtlSteps, Ids, PidOf
  <2>2. Later
    BY <1>5, <2>1, SignalOne, SamePidsLater DEF ControlSignalRefused
  <2>3. UNCHANGED <<ledger, disk, dropped>> /\ pc' \notin BookSteps
    BY <1>5 DEF ControlSignalRefused, Refused, BookSteps
  <2> QED BY <2>2, <2>3, BooksQuiet, NoHand DEF BookInv
<1>6. CASE ControlCommit
  <2> DEFINE status == CASE op.what = "resume" -> "resumed"
                         [] op.what = "terminate" -> "terminated"
                         [] OTHER -> "killed"
             marked == ClearStopped(ledger, op.id)
             cleared == [marked EXCEPT
                           !.pending = None,
                           !.cooldown = IF op.what = "resume"
                                          THEN marked.cooldown \union {op.id}
                                          ELSE marked.cooldown]
             l == Transition(cleared, op.id, status, FALSE)
  <2>1. op.id \in Ids /\ status \in ClosedStatus /\ ledger.stopped[op.id[1]] = op.id[2]
    BY <1>6, CommitMarks DEF ClosedStatus, BookInv, HandInv
  <2>2. /\ marked \in Ledgers /\ marked.stopped = [ledger.stopped EXCEPT ![op.id[1]] = 0]
        /\ marked.incidents = ledger.incidents /\ marked.probation = ledger.probation
    BY <1>1, <2>1, ClearType
  <2>3. /\ cleared \in Ledgers /\ cleared.stopped = marked.stopped
        /\ cleared.incidents = marked.incidents /\ cleared.probation = marked.probation
    <3> HIDE DEF marked
    <3> QED BY <2>1, <2>2 DEF Ledgers
  <2>4. Booked(l, os, dropped)
    <3> HIDE DEF marked, cleared, status
    <3> QED BY <1>1, <2>1, <2>2, <2>3, SettledBooks
  <2>5. Saved(l) \/ NotSaved(l)
    BY <1>6 DEF ControlCommit
  <2> HIDE DEF l
  <2>6. Later /\ pc' \notin BookSteps
    BY <1>6, CommitMarks, SamePidsLater DEF SamePids, BookSteps
  <2> QED BY <2>4, <2>5, <2>6, BooksWritten, NoHand DEF BookInv
<1> QED BY <1>2, <1>3, <1>4, <1>5, <1>6 DEF Control

(* exact_process reread the identity that is being stopped. *)
LEMMA StopBooks ==
    ASSUME TypeInv, TypeInv', BookInv, NEW p \in Pids, NEW reason,
           Eligible(p), Stop(p, reason), ~HasProbation(ledger, <<p, seen[p]>>)
    PROVE  BookInv'
<1>1. /\ op'.id = <<p, seen[p]>> /\ pc' = "sus_record"
      /\ os[p].gen = seen[p] /\ seen[p] \in Gens /\ ledger.stopped[p] = 0
      /\ Delivered(p, "stop") /\ UNCHANGED <<ledger, disk, dropped>>
  BY DEF Stop, Eligible, Live, PidOf, Delivered
<1>2. SamePids
  BY <1>1, SignalOne
<1>3. Later
  BY <1>2, SamePidsLater
<1>4. (ledger.probation # None /\ OnProbation[1] = p) => OnProbation[2] <= seen[p]
  BY <1>1 DEF BookInv, Booked, Dated, OnProbation
<1>5. seen[p] <= os'[p].gen
  BY <1>1, <1>2 DEF SamePids, Gens
<1>6. HandInv'
  <2>1. /\ op'.id[1] = p /\ op'.id[2] = seen[p]
        /\ OnProbation' = OnProbation
        /\ ~HasProbation(ledger', op'.id)
    BY <1>1 DEF OnProbation, HasProbation
  <2> QED BY <1>1, <1>4, <1>5, <2>1 DEF HandInv
<1> QED BY <1>1, <1>3, <1>6, BooksQuiet DEF BookInv

LEMMA SuspendBooks ==
    ASSUME TypeInv, TypeInv', BookInv, Suspend
    PROVE  BookInv'
<1>1. ledger \in Ledgers /\ os \in Systems /\ Booked(ledger, os, dropped)
  BY DEF TypeInv, TypeOK, Systems, BookInv
<1>2. ASSUME NEW p \in Pids, DetectRunaway(p) PROVE BookInv'
  BY <1>2, StopBooks DEF DetectRunaway
<1>3. ASSUME NEW p \in Pids, PressurePause(p) \/ LastResort(p) PROVE BookInv'
  <2>1. /\ ledger.probation = None /\ Eligible(p)
        /\ \E reason \in PauseReasons : Stop(p, reason)
    BY <1>3 DEF PressurePause, LastResort, Unsafe, PauseReasons, PressureReasons
  <2>2. ~HasProbation(ledger, <<p, seen[p]>>)
    BY <2>1 DEF HasProbation
  <2>3. PICK reason \in PauseReasons : Stop(p, reason)
    BY <2>1
  <2> QED BY <2>1, <2>2, <2>3, StopBooks
<1>4. ASSUME pc \in SusSteps
      PROVE  op.id \in Ids /\ op.id[1] \in Pids /\ PidOf(op.id) = op.id[1]
             /\ op.what \in PauseReasons
  BY <1>4 DEF TypeInv, StepOK, Ids, PidOf
<1>5. ASSUME NEW paused, SuspendReturns(paused) PROVE pc' \notin BookSteps
  BY <1>5 DEF SuspendReturns, BookSteps
<1>6. CASE DetectNone
  <2>1. UNCHANGED <<os, ledger, disk, dropped>> /\ pc' \notin BookSteps
    BY <1>6 DEF DetectNone, BookSteps
  <2>2. Later
    BY <2>1, SamePidsLater DEF SamePids
  <2> QED BY <2>1, <2>2, BooksQuiet, NoHand DEF BookInv
<1>7. CASE SuspendRecord
  <2> DEFINE incident == [id |-> op.id, reason |-> op.what,
                          status |-> "suspended", attempted |-> FALSE,
                          old |-> FALSE]
             marked == MarkStopped(ledger, op.id)
             l == [marked EXCEPT !.incidents = Append(marked.incidents, incident)]
  <2>1. /\ pc = "sus_record" /\ UNCHANGED <<os, op>>
        /\ op.id \in Ids /\ op.id[1] \in Pids /\ op.what \in PauseReasons
    BY <1>4, <1>7 DEF SuspendRecord, SusSteps
  <2>2. /\ incident \in Incidents /\ incident.id = op.id
        /\ incident.status = "suspended"
    BY <2>1 DEF Incidents, OpenStatus
  <2>3. /\ marked \in Ledgers
        /\ marked.stopped = [ledger.stopped EXCEPT ![op.id[1]] = op.id[2]]
        /\ marked.incidents = ledger.incidents
        /\ marked.probation = ledger.probation
    BY <1>1, <2>1, MarkType
  <2> HIDE DEF incident, marked
  <2>4. /\ l \in Ledgers /\ l.incidents = Append(ledger.incidents, incident)
        /\ l.stopped = [ledger.stopped EXCEPT ![op.id[1]] = op.id[2]]
        /\ l.probation = ledger.probation
    <3>1. Append(marked.incidents, incident) \in Seq(Incidents)
      <4>1. marked.incidents \in Seq(Incidents)
        BY <2>3 DEF Ledgers
      <4> QED BY <2>2, <4>1
    <3> DEFINE longer == Append(marked.incidents, incident)
    <3>2. longer \in Seq(Incidents) /\ longer = Append(ledger.incidents, incident)
      BY <2>3, <3>1
    <3> HIDE DEF longer
    <3>3. LET n == [marked EXCEPT !.incidents = longer]
          IN  /\ n \in Ledgers /\ n.incidents = longer
              /\ n.stopped = marked.stopped /\ n.probation = marked.probation
      BY <2>3, <3>2 DEF Ledgers
    <3> QED BY <2>3, <3>2, <3>3 DEF longer
  <2>5. Saved(l) \/ NotSaved(l)
    BY <1>7 DEF SuspendRecord, incident, marked
  <2> HIDE DEF l
  <2>6. /\ ledger.stopped[op.id[1]] = 0 /\ op.id[2] <= os[op.id[1]].gen
        /\ ~HasProbation(ledger, op.id)
        /\ (ledger.probation # None /\ ledger.probation.id[1] = op.id[1]) =>
             ledger.probation.id[2] <= op.id[2]
    BY <2>1 DEF BookInv, HandInv, OnProbation
  <2>7. Booked(l, os, dropped)
    BY <1>1, <2>1, <2>2, <2>4, <2>6, BookedPause
  <2>8. Later
    BY <2>1, SamePidsLater DEF SamePids
  <2>9. HandInv'
    <3>1. ledger'.stopped[op'.id[1]] = op'.id[2]
      <4>1. ledger'.stopped = [ledger.stopped EXCEPT ![op.id[1]] = op.id[2]]
        BY <2>4, <2>5, Written
      <4> QED BY <1>1, <2>1, <4>1 DEF Ledgers
    <3>2. pc' \in {"sus_notify", "sus_rollback"}
      BY <1>7 DEF SuspendRecord
    <3> QED BY <3>1, <3>2 DEF HandInv
  <2> QED BY <2>5, <2>7, <2>8, <2>9, BooksWritten DEF BookInv
<1>8. ASSUME pc \in {"sus_rollback", "sus_notify"}
      PROVE  Booked(Transition(ClearStopped(ledger, op.id), op.id, "resumed", FALSE), os, dropped)
  <2>1. op.id \in Ids /\ ledger.stopped[op.id[1]] \in {0, op.id[2]}
    BY <1>4, <1>8 DEF BookInv, HandInv, SusSteps
  <2> QED BY <1>1, <2>1, ReleasedBooks DEF ClosedStatus
<1>9. CASE SuspendRollback
  <2>1. /\ pc = "sus_rollback" /\ op.id[1] \in Pids /\ PidOf(op.id) = op.id[1]
        /\ UNCHANGED <<disk, dropped>> /\ pc' \notin BookSteps
    BY <1>4, <1>5, <1>9 DEF SuspendRollback, Delivered, Refused, SusSteps
  <2>2. \/ /\ Delivered(op.id[1], "run")
           /\ ledger' = Transition(ClearStopped(ledger, op.id), op.id, "resumed", FALSE)
        \/ Refused(op.id[1]) /\ UNCHANGED ledger
    BY <1>9, <2>1 DEF SuspendRollback
  <2>3. Later
    BY <2>1, <2>2, SignalOne, SamePidsLater
  <2>4. Booked(ledger', os, dropped)
    BY <1>1, <1>8, <2>1, <2>2
  <2> QED BY <2>1, <2>3, <2>4, BooksKept, NoHand DEF BookInv
<1>10. CASE SuspendNotified \/ SuspendUnseenPersist
  <2>1. UNCHANGED os /\ pc' \notin BookSteps
    BY <1>5, <1>10 DEF SuspendNotified, SuspendUnseenPersist
  <2>2. \/ UNCHANGED <<ledger, disk, dropped>>
        \/ Saved(ledger) \/ NotSaved(ledger)
    BY <1>10 DEF SuspendNotified, SuspendUnseenPersist
  <2>3. Later
    BY <2>1, SamePidsLater DEF SamePids
  <2>4. Booked(ledger', os', dropped') /\ Booked(disk', os', dropped')
    BY <1>1, <2>2, <2>3, BooksQuiet, BooksWritten
  <2> QED BY <2>1, <2>4, NoHand DEF BookInv
<1>11. CASE SuspendUnseen
  <2>1. /\ pc = "sus_notify" /\ op.id[1] \in Pids /\ PidOf(op.id) = op.id[1]
        /\ UNCHANGED <<disk, dropped>> /\ pc' = "sus_unseen"
        /\ ledger' = Transition(ClearStopped(ledger, op.id), op.id, "resumed", FALSE)
        /\ Delivered(op.id[1], "run") \/ Refused(op.id[1])
    BY <1>4, <1>11 DEF SuspendUnseen, Delivered, Refused, SusSteps
  <2>2. Later
    BY <2>1, SignalOne, SamePidsLater
  <2>3. Booked(ledger', os, dropped) /\ pc' \notin BookSteps
    BY <1>8, <2>1 DEF BookSteps
  <2> QED BY <2>1, <2>2, <2>3, BooksKept, NoHand DEF BookInv
<1> QED BY <1>2, <1>3, <1>6, <1>7, <1>9, <1>10, <1>11 DEF Suspend

LEMMA PressureBooks ==
    ASSUME TypeInv, TypeInv', BookInv, Pressure
    PROVE  BookInv'
<1>1. ledger \in Ledgers /\ os \in Systems /\ Booked(ledger, os, dropped)
  BY DEF TypeInv, TypeOK, Systems, BookInv
<1>2. CASE Recover
  <2>1. PICK k \in PressureIncidents :
          LET id == ledger.incidents[k].id
          IN  /\ Delivered(PidOf(id), "run")
              /\ op' = [id |-> id, what |-> "recover"]
    BY <1>2 DEF Recover
  <2> DEFINE id == ledger.incidents[k].id
  <2>2. id \in Ids /\ id[1] \in Pids /\ PidOf(id) = id[1]
    BY <1>1, IncidentIds DEF PressureIncidents, Ids, PidOf
  <2>3. ledger.stopped[id[1]] = id[2]
    BY <1>1 DEF PressureIncidents, Booked, Accounted
  <2> HIDE DEF id
  <2>4. /\ pc' = "rec_commit" /\ op'.id = id /\ UNCHANGED <<ledger, disk, dropped>>
        /\ Delivered(id[1], "run")
    BY <1>2, <2>1, <2>2 DEF Recover, Delivered, id
  <2>5. Later
    BY <2>2, <2>4, SignalOne, SamePidsLater
  <2>6. HandInv'
    BY <2>3, <2>4 DEF HandInv
  <2> QED BY <2>4, <2>5, <2>6, BooksQuiet DEF BookInv
<1>3. CASE RecoverCommit
  <2> DEFINE l == Transition(ClearStopped(ledger, op.id), op.id, "resumed", FALSE)
  <2>1. op.id \in Ids /\ pc = "rec_commit" /\ pc' = "idle" /\ UNCHANGED os
    BY <1>3, RecoverMarks
  <2>2. Booked(l, os, dropped)
    <3>1. ledger.stopped[op.id[1]] \in {0, op.id[2]}
      BY <2>1 DEF BookInv, HandInv
    <3> QED BY <1>1, <2>1, <3>1, ReleasedBooks DEF ClosedStatus
  <2>3. Saved(l) \/ NotSaved(l)
    BY <1>3 DEF RecoverCommit
  <2> HIDE DEF l
  <2>4. Later /\ pc' \notin BookSteps
    BY <2>1, SamePidsLater DEF SamePids, BookSteps
  <2> QED BY <2>2, <2>3, <2>4, BooksWritten, NoHand DEF BookInv
<1>4. CASE PressureIdle
  <2>1. UNCHANGED <<os, ledger, disk, dropped>> /\ pc' \notin BookSteps
    BY <1>4 DEF PressureIdle, BookSteps
  <2>2. Later
    BY <2>1, SamePidsLater DEF SamePids
  <2> QED BY <2>1, <2>2, BooksQuiet, NoHand DEF BookInv
<1> QED BY <1>2, <1>3, <1>4 DEF Pressure

LEMMA OutsideBooks ==
    ASSUME TypeInv, TypeInv', BookInv,
           Environment \/ OtherSave \/ Crash \/ Restart
    PROVE  BookInv'
<1>1. ledger \in Ledgers /\ disk \in Ledgers /\ os \in Systems
      /\ Booked(ledger, os, dropped) /\ Booked(disk, os, dropped)
  BY DEF TypeInv, TypeOK, Systems, BookInv
<1>2. CASE Environment /\ ~Day
  <2>1. UNCHANGED <<ledger, disk, pc, op, dropped>>
    BY <1>2 DEF Environment, Exit, Reuse, ExternalResume, Submit, daemonVars
  <2>2. Later
    <3>1. ASSUME NEW p \in Pids, Exit(p) \/ ExternalResume(p) PROVE Later
      BY <3>1, <1>1 DEF Exit, ExternalResume, Alive, Later, Systems, Gens
    <3>2. ASSUME NEW p \in Pids, Reuse(p) PROVE Later
      <4>1. /\ os'[p].gen = os[p].gen + 1
            /\ \A q \in Pids \ {p} : os'[q] = os[q]
        BY <1>1, <3>2 DEF Reuse, Systems
      <4> QED BY <1>1, <4>1 DEF Later, Systems, Gens
    <3>3. ASSUME NEW r \in Requests, Submit(r) PROVE Later
      BY <3>3, SamePidsLater DEF Submit, SamePids
    <3> QED BY <1>2, <3>1, <3>2, <3>3 DEF Environment
  <2>3. HandInv'
    <3>1. OnProbation' = OnProbation
      BY <2>1 DEF OnProbation
    <3>2. pc = "sus_record" => op.id[1] \in Pids /\ op.id[2] \in Nat
      BY DEF TypeInv, StepOK, SusSteps, Ids, Gens
    <3>3. pc = "sus_record" => op.id[2] <= os'[op.id[1]].gen
      <4>1. \A p \in Pids : os[p].gen \in Nat /\ os'[p].gen \in Nat
                            /\ os[p].gen <= os'[p].gen
        BY <2>2 DEF TypeInv, TypeOK, Gens, Later
      <4>2. pc = "sus_record" => op.id[2] <= os[op.id[1]].gen
        BY DEF BookInv, HandInv
      <4> QED BY <3>2, <4>1, <4>2
    <3> QED BY <2>1, <3>1, <3>3 DEF BookInv, HandInv
  <2> QED BY <2>1, <2>2, <2>3, BooksQuiet DEF BookInv
<1>3. Booked(EmptyLedger, os, dropped) /\ EmptyLedger \in Ledgers
  <2>1. EmptyLedger \in Ledgers
    BY DEF EmptyLedger, Ledgers
  <2>2. \A p \in Pids : EmptyLedger.stopped[p] = 0 /\ 0 <= os[p].gen
    BY <1>1 DEF EmptyLedger, Systems, Gens
  <2>3. DOMAIN EmptyLedger.incidents = {} /\ EmptyLedger.probation = None
    BY DEF EmptyLedger
  <2> QED BY <2>1, <2>2, <2>3 DEF Booked, NoTwin, Accounted, Backed, Dated
<1>4. CASE Crash
  <2>1. ledger' = EmptyLedger /\ UNCHANGED <<os, disk, dropped>> /\ pc' = "down"
    BY <1>4 DEF Crash
  <2> QED BY <1>1, <1>3, <2>1, NoHand DEF BookInv, BookSteps
<1>5. CASE Restart
  <2>1. /\ UNCHANGED <<os, disk, dropped>> /\ pc' = "idle"
        /\ \/ ledger' = EmptyLedger
           \/ \E keep \in SUBSET disk.cooldown : ledger' = [disk EXCEPT !.cooldown = keep]
    BY <1>5 DEF Restart
  <2>2. ledger' \in Ledgers
    BY DEF TypeInv, TypeOK
  <2>3. CASE ledger' = EmptyLedger
    BY <1>1, <1>3, <2>1, <2>3, NoHand DEF BookInv, BookSteps
  <2>4. CASE \E keep \in SUBSET disk.cooldown : ledger' = [disk EXCEPT !.cooldown = keep]
    <3>1. /\ ledger'.stopped = disk.stopped /\ ledger'.incidents = disk.incidents
          /\ ledger'.probation = disk.probation
      BY <1>1, <2>4 DEF Ledgers
    <3>2. Booked(ledger', os, dropped)
      BY <1>1, <2>2, <3>1, BookedSame
    <3> QED BY <1>1, <2>1, <3>2, NoHand DEF BookInv, BookSteps
  <2> QED BY <2>1, <2>3, <2>4
<1>6. CASE Day
  <2>1. /\ UNCHANGED <<os, dropped>> /\ pc' = "idle"
        /\ ledger' = Aged(ledger) /\ disk' = Aged(disk)
    BY <1>6 DEF Day
  <2>2. Booked(Aged(ledger), os, dropped) /\ Booked(Aged(disk), os, dropped)
    BY <1>1, BookedAged
  <2> QED BY <2>1, <2>2, NoHand DEF BookInv, BookSteps
<1>7. CASE OtherSave
  <2>1. UNCHANGED os /\ pc' = "idle" /\ (Saved(ledger) \/ NotSaved(ledger))
    BY <1>7 DEF OtherSave
  <2>2. Later
    BY <2>1, SamePidsLater DEF SamePids
  <2> QED BY <1>1, <2>1, <2>2, BooksWritten, NoHand DEF BookInv, BookSteps
<1> QED BY <1>2, <1>4, <1>5, <1>6, <1>7

-----------------------------------------------------------------------------
(* manage_lead_probation. *)

(* Attempting: the probation is x from now on, and its incident is reopened. *)
LEMMA AttemptBooks ==
    ASSUME NEW l \in Ledgers, NEW c \in Ledgers, NEW o \in Systems, NEW d,
           Booked(l, o, d),
           NEW id \in Ids, NEW status \in {"probation", "probation_failed"},
           NEW x \in Probations, x.id = id,
           c.incidents = l.incidents,
           \A p \in Pids \ {id[1]} : c.stopped[p] = l.stopped[p],
           l.stopped[id[1]] \in {0, id[2]}, c.stopped[id[1]] \in {0, id[2]},
           id[2] <= o[id[1]].gen,
           l.probation = None \/ l.probation.id = id,
           (x.sent /\ x.status = "monitoring") => c.stopped[id[1]] = 0
    PROVE  Booked([Transition(c, id, status, TRUE) EXCEPT !.probation = x], o, d)
<1> DEFINE t == Transition(c, id, status, TRUE)
           m == [t EXCEPT !.probation = x]
<1>1. status \in Statuses /\ NoTwin(c)
  BY DEF Statuses, OpenStatus, Booked, NoTwin
<1>2. /\ t \in Ledgers /\ t.stopped = c.stopped
      /\ Moves(l.incidents, t.incidents, id, status)
  <2>1. \A b \in BOOLEAN :
          /\ Transition(c, id, status, b) \in Ledgers
          /\ Transition(c, id, status, b).stopped = c.stopped
          /\ Moves(c.incidents, Transition(c, id, status, b).incidents, id, status)
    BY <1>1, TransitionKeeps
  <2>2. TRUE \in BOOLEAN
    OBVIOUS
  <2> QED BY <2>1, <2>2, Zenon
<1> HIDE DEF t
<1>3. /\ m \in Ledgers /\ m.stopped = c.stopped /\ m.incidents = t.incidents
      /\ m.probation = x
  BY <1>2 DEF Ledgers
<1> HIDE DEF m
<1>4. x # None
  BY NoneAssumption
<1>5. Booked(m, o, d)
  BY <1>2, <1>3, <1>4, BookedProbation
<1> QED BY <1>5 DEF m, t

(* The probation is over, and its process is not marked or no more. *)
LEMMA EndedBooks ==
    ASSUME NEW l \in Ledgers, NEW o \in Systems, NEW d,
           Booked(l, o, d),
           NEW id \in Ids, NEW status \in ClosedStatus, HasProbation(l, id),
           l.stopped[id[1]] # id[2] \/ ~Lively(o, id)
    PROVE  \A b \in BOOLEAN :
             Booked([Transition(l, id, status, b) EXCEPT !.probation = None], o, d)
<1> TAKE b \in BOOLEAN
<1> DEFINE t == Transition(l, id, status, b)
           m == [t EXCEPT !.probation = None]
<1>1. status \in Statuses /\ NoTwin(l)
  BY DEF Statuses, Booked
<1>2. /\ t \in Ledgers /\ t.stopped = l.stopped
      /\ Moves(l.incidents, t.incidents, id, status)
  <2>1. \A y \in BOOLEAN :
          /\ Transition(l, id, status, y) \in Ledgers
          /\ Transition(l, id, status, y).stopped = l.stopped
          /\ Moves(l.incidents, Transition(l, id, status, y).incidents, id, status)
    BY <1>1, TransitionKeeps
  <2> QED BY <2>1, Zenon
<1> HIDE DEF t
<1>3. /\ m \in Ledgers /\ m.stopped = l.stopped /\ m.incidents = t.incidents
      /\ m.probation = None
  BY <1>2 DEF Ledgers
<1> HIDE DEF m
<1>4. MarkDropped(l, m, o, id) /\ ProbationDropped(l, m, id)
  BY <1>3 DEF MarkDropped, ProbationDropped
<1>5. Booked(m, o, d)
  BY <1>2, <1>3, <1>4, BookedClosed
<1> QED BY <1>5 DEF m, t

(* A failed probation marks its process. *)
LEMMA FailedBooks ==
    ASSUME TypeInv, BookInv, ledger.probation \in Probations,
           ledger.stopped[OnProbation[1]] \in {0, OnProbation[2]}
    PROVE  Booked(ProbationFailed(ledger), os, dropped)
<1> DEFINE id == OnProbation
           c == MarkStopped(ledger, id)
           t == Transition(c, id, "probation_failed", TRUE)
           x == [ledger.probation EXCEPT !.status = "failed"]
<1>1. ledger \in Ledgers /\ os \in Systems /\ Booked(ledger, os, dropped)
  BY DEF TypeInv, TypeOK, Systems, BookInv
<1>2. /\ id \in Ids /\ id[1] \in Pids /\ ledger.probation # None
      /\ ledger.probation.id = id
  BY NoneAssumption DEF OnProbation, Probations, Ids
<1>3. x \in Probations /\ x.id = id /\ x.status = "failed"
  BY <1>2 DEF Probations
<1>4. /\ c \in Ledgers /\ c.stopped = [ledger.stopped EXCEPT ![id[1]] = id[2]]
      /\ c.incidents = ledger.incidents /\ c.probation = ledger.probation
  <2> HIDE DEF id
  <2> QED BY <1>1, <1>2, MarkType
<1>5. t \in Ledgers /\ t.probation = c.probation
  <2>1. "probation_failed" \in Statuses
    BY DEF Statuses, OpenStatus
  <2>2. c \in Ledgers /\ id \in Ids
    BY <1>2, <1>4
  <2> HIDE DEF id, c
  <2>3. /\ Transition(c, id, "probation_failed", TRUE) \in Ledgers
        /\ Transition(c, id, "probation_failed", TRUE).probation = c.probation
    BY <2>1, <2>2, AttemptType
  <2> QED BY <2>3
<1>6. ProbationFailed(ledger) = [t EXCEPT !.probation.status = "failed"]
  BY DEF ProbationFailed, Attempt
<1>7. [t EXCEPT !.probation.status = "failed"] = [t EXCEPT !.probation = x]
  <2> HIDE DEF t
  <2> QED BY <1>4, <1>5
<1>8. id[2] <= os[id[1]].gen
  BY <1>1, <1>2 DEF Booked, Dated
<1>9. /\ \A p \in Pids \ {id[1]} : c.stopped[p] = ledger.stopped[p]
      /\ c.stopped[id[1]] = id[2]
  BY <1>1, <1>2, <1>4 DEF Ledgers
<1>10. Booked([t EXCEPT !.probation = x], os, dropped)
  <2>1. ledger.stopped[id[1]] \in {0, id[2]}
    OBVIOUS
  <2> HIDE DEF id, c, x
  <2> QED BY <1>1, <1>2, <1>3, <1>4, <1>8, <1>9, <2>1, AttemptBooks
<1> QED BY <1>6, <1>7, <1>10

(* The other process of a lead's PID is older than its mark. *)
LEMMA LiveProbation ==
    ASSUME TypeInv, BookInv, ledger.probation \in Probations, Live(OnProbation)
    PROVE  ledger.stopped[OnProbation[1]] \in {0, OnProbation[2]}
<1>1. /\ OnProbation[1] \in Pids /\ OnProbation[2] \in Nat
      /\ ledger.probation # None
  BY NoneAssumption DEF OnProbation, Probations, Ids, Gens
<1>2. /\ os[OnProbation[1]].gen = OnProbation[2]
      /\ ledger.stopped[OnProbation[1]] \in Nat
  BY <1>1 DEF Live, PidOf, TypeInv, TypeOK, Ledgers
<1>3. /\ ledger.stopped[OnProbation[1]] <= os[OnProbation[1]].gen
      /\ \/ ledger.stopped[OnProbation[1]] = 0
         \/ OnProbation[2] <= ledger.stopped[OnProbation[1]]
  BY <1>1 DEF BookInv, Booked, Dated, OnProbation
<1> QED BY <1>1, <1>2, <1>3

LEMMA ProbationBooks ==
    ASSUME TypeInv, TypeInv', BookInv, Probation
    PROVE  BookInv'
<1>1. ledger \in Ledgers /\ os \in Systems /\ Booked(ledger, os, dropped)
  BY DEF TypeInv, TypeOK, Systems, BookInv
<1>2. AfterProbation => pc' \notin BookSteps
  BY DEF AfterProbation, BookSteps
<1> DEFINE id == OnProbation
<1>3. ASSUME pc \in ProbSteps \/ Monitoring
      PROVE  /\ ledger.probation \in Probations /\ id \in Ids
             /\ id[1] \in Pids /\ PidOf(id) = id[1]
             /\ ledger.probation # None /\ ledger.probation.id = id
             /\ HasProbation(ledger, id)
             /\ id[2] <= os[id[1]].gen
  <2>1. ledger.probation \in Probations /\ id \in Ids
    BY <1>3, OnProbationId
  <2>2. ledger.probation # None /\ ledger.probation.id = id
    BY <2>1, NoneAssumption DEF OnProbation
  <2> QED BY <1>1, <2>1, <2>2 DEF Ids, PidOf, HasProbation, Booked, Dated
<1>4. CASE ProbationIdle \/ ProbationRolledBack \/ RelapseUndone
  <2>1. UNCHANGED os /\ pc' \notin BookSteps
    BY <1>2, <1>4 DEF ProbationIdle, ProbationRolledBack, RelapseUndone
  <2>2. \/ UNCHANGED <<ledger, disk, dropped>>
        \/ Saved(ledger) \/ NotSaved(ledger)
    BY <1>4 DEF ProbationIdle, ProbationRolledBack, RelapseUndone
  <2>3. Later
    BY <2>1, SamePidsLater DEF SamePids
  <2>4. Booked(ledger', os', dropped') /\ Booked(disk', os', dropped')
    BY <1>1, <2>2, <2>3, BooksQuiet, BooksWritten
  <2> QED BY <2>1, <2>4, NoHand DEF BookInv
<1>5. ASSUME NEW l, Saved(l) \/ NotSaved(l) \/ Restored,
             Booked(l, os, dropped), UNCHANGED os
      PROVE  Booked(ledger', os', dropped') /\ Booked(disk', os', dropped')
  <2>1. Later
    BY <1>5, SamePidsLater DEF SamePids
  <2>2. CASE Restored
    BY <2>1, <2>2, BooksQuiet DEF Restored
  <2> QED BY <1>5, <2>1, <2>2, BooksWritten
<1>6. CASE ProbationGone
  <2> DEFINE l == [Transition(ledger, id, "gone", FALSE) EXCEPT !.probation = None]
  <2>1. /\ Monitoring /\ ~Lively(os, id) /\ UNCHANGED os /\ AfterProbation
        /\ Saved(l) \/ NotSaved(l)
    BY <1>3, <1>6 DEF ProbationGone, Alive, Lively
  <2>2. Booked(l, os, dropped)
    <3>1. id \in Ids /\ HasProbation(ledger, id) /\ "gone" \in ClosedStatus
      BY <1>3, <2>1 DEF ClosedStatus
    <3> HIDE DEF id
    <3> QED BY <1>1, <2>1, <3>1, EndedBooks
  <2> HIDE DEF l
  <2> QED BY <1>2, <1>5, <2>1, <2>2, NoHand DEF BookInv
<1>7. CASE ProbationPrepare
  <2> DEFINE k == Max(ProbationCandidates(ledger))
             i == ledger.incidents[k].id
             x == [id |-> i, sent |-> FALSE, status |-> "monitoring"]
             l == [Transition(ledger, i, "probation", TRUE) EXCEPT !.probation = x]
  <2>1. /\ pc = "probation" /\ ledger.probation = None /\ Live(i) /\ UNCHANGED os
        /\ ProbationCandidates(ledger) # {}
        /\ \/ Saved(l) /\ UNCHANGED pc
           \/ Restored /\ AfterProbation
    BY <1>7 DEF ProbationPrepare
  <2>2. k \in ProbationCandidates(ledger)
    <3> DEFINE n == Len(ledger.incidents)
               S == ProbationCandidates(ledger)
    <3>1. ledger.incidents \in Seq(Incidents)
      BY <1>1 DEF Ledgers
    <3>2. n \in Nat /\ DOMAIN ledger.incidents = 1..n
      BY <3>1
    <3>3. S \in SUBSET (1..n) /\ S # {}
      BY <2>1, <3>2 DEF ProbationCandidates
    <3> HIDE DEF n, S
    <3>4. Max(S) \in S
      BY <3>2, <3>3, LatestIndex
    <3> QED BY <3>4 DEF S
  <2>3. /\ k \in DOMAIN ledger.incidents
        /\ ledger.incidents[k].status = "suspended"
    BY <2>2 DEF ProbationCandidates
  <2> HIDE DEF k
  <2>4. i \in Ids /\ ledger.stopped[i[1]] = i[2]
    BY <1>1, <2>3, IncidentIds DEF Booked, Accounted
  <2>5. i[2] <= os[i[1]].gen
    BY <1>1, <2>1, <2>4 DEF Live, PidOf, Systems, Ids, Gens
  <2>6. x \in Probations /\ x.id = i /\ ~x.sent
    BY <2>4 DEF Probations
  <2> HIDE DEF i, x
  <2>7. Booked(l, os, dropped)
    BY <1>1, <2>1, <2>4, <2>5, <2>6, AttemptBooks
  <2>8. pc' \notin BookSteps
    BY <1>2, <2>1 DEF BookSteps
  <2> HIDE DEF l
  <2> QED BY <1>5, <2>1, <2>7, <2>8, NoHand DEF BookInv
<1>8. CASE ProbationResume \/ Relapse
  <2>1. /\ Monitoring /\ Live(id) /\ UNCHANGED <<ledger, disk, dropped>>
        /\ pc' \in {"prob_commit", "rel_record"} \/ AfterProbation
    BY <1>8 DEF ProbationResume, Relapse, Watching, Delivered, Refused
  <2>2. \E state \in {"run", "stop"} : Delivered(id[1], state) \/ Refused(id[1])
    BY <1>3, <1>8, <2>1 DEF ProbationResume, Relapse
  <2>3. Later
    BY <1>3, <2>1, <2>2, SignalOne, SamePidsLater
  <2>4. ledger.stopped[id[1]] \in {0, id[2]}
    BY <1>3, <2>1, LiveProbation
  <2>5. HandInv'
    <3>1. OnProbation' = OnProbation
      BY <2>1 DEF OnProbation
    <3>2. CASE AfterProbation
      BY <1>2, <3>2, NoHand
    <3>3. CASE pc' \in {"prob_commit", "rel_record"}
      BY <2>1, <2>4, <3>1, <3>3 DEF HandInv
    <3> QED BY <2>1, <3>2, <3>3
  <2> QED BY <2>1, <2>3, <2>5, BooksQuiet DEF BookInv
<1>9. ASSUME pc \in {"prob_commit", "prob_rollback", "rel_record", "rel_rollback"}
      PROVE  pc \in ProbSteps /\ ledger.stopped[id[1]] \in {0, id[2]}
  BY <1>9 DEF ProbSteps, BookInv, HandInv
<1>10. CASE ProbationCommit
  <2> DEFINE c == ClearStopped(ledger, id)
             t == Transition(c, id, "probation", TRUE)
             x == [ledger.probation EXCEPT !.sent = TRUE]
             l == [t EXCEPT !.probation = x]
  <2>1. pc = "prob_commit" /\ UNCHANGED os
    BY <1>10 DEF ProbationCommit
  <2>2. /\ c \in Ledgers /\ c.stopped = [ledger.stopped EXCEPT ![id[1]] = 0]
        /\ c.incidents = ledger.incidents /\ c.probation = ledger.probation
    <3> HIDE DEF id
    <3> QED BY <1>1, <1>3, <1>9, <2>1, ClearType
  <2>3. x \in Probations /\ x.id = id
    BY <1>3, <1>9, <2>1 DEF Probations
  <2>4. t \in Ledgers /\ t.probation = c.probation
    <3> HIDE DEF id, c
    <3> QED BY <1>3, <1>9, <2>1, <2>2, AttemptType DEF Statuses, OpenStatus
  <2>5. [t EXCEPT !.probation.sent = TRUE] = l
    <3> HIDE DEF t
    <3> QED BY <2>2, <2>4
  <2>6. Saved(l) \/ NotSaved(l)
    <3>1. LET n == [t EXCEPT !.probation.sent = TRUE] IN Saved(n) \/ NotSaved(n)
      BY <1>10 DEF ProbationCommit, Attempt
    <3> HIDE DEF t, l
    <3> QED BY <2>5, <3>1
  <2>7. /\ \A p \in Pids \ {id[1]} : c.stopped[p] = ledger.stopped[p]
        /\ c.stopped[id[1]] = 0
    BY <1>1, <1>3, <1>9, <2>1, <2>2 DEF Ledgers
  <2>8. Booked(l, os, dropped)
    <3> HIDE DEF id, c, x
    <3> QED BY <1>1, <1>3, <1>9, <2>1, <2>2, <2>3, <2>7, AttemptBooks
  <2> HIDE DEF l, t, c, x
  <2>9. Booked(ledger', os', dropped') /\ Booked(disk', os', dropped')
    BY <1>5, <2>1, <2>6, <2>8
  <2>10. HandInv'
    <3>1. /\ ledger'.stopped = [ledger.stopped EXCEPT ![id[1]] = 0]
          /\ OnProbation' = id
          /\ pc' \in {"idle", "pressure", "prob_rollback"}
      BY <1>10, ProbationCommitMarks
    <3>2. ledger'.stopped[id[1]] = 0
      BY <1>1, <1>3, <1>9, <2>1, <3>1 DEF Ledgers
    <3> QED BY <3>1, <3>2 DEF HandInv
  <2> QED BY <2>9, <2>10 DEF BookInv
<1>11. CASE ProbationRollback
  <2>1. /\ pc = "prob_rollback" /\ UNCHANGED <<disk, dropped>> /\ pc' \notin BookSteps
        /\ \/ Delivered(PidOf(id), "stop") /\ ledger' = ProbationFailed(ledger)
           \/ Refused(PidOf(id)) /\ UNCHANGED ledger
    BY <1>2, <1>11 DEF ProbationRollback, Delivered, Refused, BookSteps
  <2>2. Later
    BY <1>3, <1>9, <2>1, SignalOne, SamePidsLater
  <2>3. Booked(ledger', os, dropped)
    BY <1>1, <1>3, <1>9, <2>1, FailedBooks
  <2> QED BY <2>1, <2>2, <2>3, BooksKept, NoHand DEF BookInv
<1>12. CASE RelapseRecord
  <2>1. /\ pc = "rel_record" /\ UNCHANGED os
        /\ pc' = "rel_rollback" \/ AfterProbation
        /\ Saved(ProbationFailed(ledger)) \/ NotSaved(ProbationFailed(ledger))
    BY <1>12 DEF RelapseRecord
  <2>2. Booked(ProbationFailed(ledger), os, dropped)
    BY <1>3, <1>9, <2>1, FailedBooks
  <2>3. Booked(ledger', os', dropped') /\ Booked(disk', os', dropped')
    BY <1>5, <2>1, <2>2
  <2>4. HandInv'
    <3>1. CASE AfterProbation
      BY <1>2, <3>1, NoHand
    <3>2. CASE pc' = "rel_rollback"
      <4>1. /\ ledger'.stopped = [ledger.stopped EXCEPT ![id[1]] = id[2]]
            /\ ledger'.probation = [ledger.probation EXCEPT !.status = "failed"]
        BY <1>3, <1>9, <2>1, Written, ProbationFailedMarks
      <4>2. OnProbation' = id
        BY <1>3, <1>9, <2>1, <4>1 DEF OnProbation, Probations
      <4>3. ledger'.stopped[id[1]] = id[2]
        BY <1>1, <1>3, <1>9, <2>1, <4>1 DEF Ledgers
      <4> QED BY <3>2, <4>2, <4>3 DEF HandInv
    <3> QED BY <2>1, <3>1, <3>2
  <2> QED BY <2>3, <2>4 DEF BookInv
<1>13. CASE RelapseRollback
  <2> DEFINE l == Transition(ClearStopped(ledger, id), id, "resumed", TRUE)
  <2>1. /\ pc = "rel_rollback" /\ UNCHANGED <<disk, dropped>> /\ pc' \notin BookSteps
        /\ \/ Delivered(PidOf(id), "run") /\ ledger' = l
           \/ Refused(PidOf(id)) /\ UNCHANGED ledger
    BY <1>2, <1>13 DEF RelapseRollback, Delivered, Refused, BookSteps, Attempt
  <2>2. Later
    BY <1>3, <1>9, <2>1, SignalOne, SamePidsLater
  <2>3. Booked(l, os, dropped)
    <3> HIDE DEF id
    <3> QED BY <1>1, <1>3, <1>9, <2>1, ReleasedBooks DEF ClosedStatus
  <2> HIDE DEF l
  <2>4. Booked(ledger', os, dropped)
    BY <1>1, <2>1, <2>3
  <2> QED BY <2>1, <2>2, <2>4, BooksKept, NoHand DEF BookInv
<1>14. CASE ProbationComplete
  <2> DEFINE l == [Transition(ledger, id, "resumed", TRUE) EXCEPT !.probation = None]
  <2>1. /\ Monitoring /\ ledger.probation.sent /\ UNCHANGED os /\ AfterProbation
        /\ Saved(l) \/ Restored
    BY <1>14 DEF ProbationComplete, Watching, Attempt
  <2>2. ledger.stopped[id[1]] # id[2]
    BY <1>1, <1>3, <2>1 DEF Monitoring, Booked, Dated
  <2>3. Booked(l, os, dropped)
    <3>1. id \in Ids /\ HasProbation(ledger, id) /\ "resumed" \in ClosedStatus
      BY <1>3, <2>1 DEF ClosedStatus
    <3> HIDE DEF id
    <3> QED BY <1>1, <2>2, <3>1, EndedBooks
  <2> HIDE DEF l
  <2> QED BY <1>2, <1>5, <2>1, <2>3, NoHand DEF BookInv
<1> QED BY <1>4, <1>6, <1>7, <1>8, <1>10, <1>11, <1>12, <1>13, <1>14 DEF Probation

-----------------------------------------------------------------------------
LEMMA BooksAlways ==
    /\ Init => TypeInv /\ BookInv
    /\ TypeInv /\ BookInv /\ [Next]_vars => TypeInv' /\ BookInv'
<1>1. ASSUME Init PROVE BookInv
  <2>1. /\ ledger = EmptyLedger /\ disk = EmptyLedger /\ pc = "idle"
        /\ \A p \in Pids : os[p].gen = 1
    BY <1>1 DEF Init
  <2>2. \A p \in Pids : EmptyLedger.stopped[p] = 0
    BY DEF EmptyLedger
  <2>3. DOMAIN EmptyLedger.incidents = {} /\ EmptyLedger.probation = None
    BY DEF EmptyLedger
  <2>4. Booked(EmptyLedger, os, dropped)
    <3>1. EmptyLedger \in Ledgers
      BY DEF EmptyLedger, Ledgers
    <3> QED BY <2>1, <2>2, <2>3, <3>1 DEF Booked, NoTwin, Accounted, Backed, Dated
  <2> QED BY <2>1, <2>4 DEF BookInv, HandInv
<1>2. ASSUME TypeInv, BookInv, UNCHANGED vars PROVE BookInv'
  BY <1>2 DEF BookInv, HandInv, OnProbation, vars
<1>3. ASSUME TypeInv, TypeInv', BookInv, Next PROVE BookInv'
  BY <1>3, ReconcileBooks, ControlBooks, SuspendBooks, ProbationBooks,
     PressureBooks, OutsideBooks DEF Next, Daemon
<1> QED BY <1>1, <1>2, <1>3, InitType, StepType

(* transition_incident is never ambiguous: it looks for the latest open       *)
(* incident of an identity, and there is at most one, whatever crashed or was *)
(* refused before.                                                           *)
THEOREM OneOpen == Spec => []OneOpenIncident
<1>1. BookInv => OneOpenIncident
  BY DEF BookInv, Booked, NoTwin, Open, OneOpenIncident
<1> QED BY <1>1, BooksAlways, PTL DEF Spec

(* Between ticks the history the user reads agrees with the table of stopped  *)
(* processes: a managed process that lives has an open incident, unless a     *)
(* save dropped it as one too many or as a day old and on probation, and an   *)
(* incident that says suspended is of a managed process.                     *)
THEOREM HistoryIsTrue == Spec => []IncidentsAgree
<1>1. TypeInv /\ BookInv => IncidentsAgree
  <2> SUFFICES ASSUME TypeInv, BookInv, pc = "idle" PROVE IncidentsAgree
    BY DEF IncidentsAgree
  <2>1. ASSUME NEW p \in DOMAIN ledger.stopped, Live(<<p, ledger.stopped[p]>>)
        PROVE  \/ OpenAt(ledger.incidents, <<p, ledger.stopped[p]>>) # {}
               \/ Forgotten(<<p, ledger.stopped[p]>>)
    <3>1. p \in Pids /\ ledger.stopped[p] # 0 /\ Lively(os, <<p, ledger.stopped[p]>>)
      BY <2>1 DEF Live, Alive, PidOf, Lively, TypeInv, TypeOK, Ledgers, Gens
    <3>2. CASE HasOpen(ledger, <<p, ledger.stopped[p]>>)
      BY <3>2 DEF HasOpen, OpenAt, Open
    <3>3. CASE Excused(ledger, dropped, <<p, ledger.stopped[p]>>)
      BY <3>3 DEF Excused, Forgotten
    <3> QED BY <3>1, <3>2, <3>3 DEF BookInv, Booked, Backed
  <2>2. ASSUME NEW k \in DOMAIN ledger.incidents,
               ledger.incidents[k].status = "suspended"
        PROVE  ledger.stopped[PidOf(ledger.incidents[k].id)]
                 = ledger.incidents[k].id[2]
    BY <2>2 DEF BookInv, Booked, Accounted, PidOf
  <2> QED BY <2>1, <2>2 DEF IncidentsAgree
<1> QED BY <1>1, BooksAlways, PTL DEF Spec

-----------------------------------------------------------------------------
(* What a restarted daemon will find for an identity its owner resumed: its   *)
(* cooldown, or its mark, which reconcile_stopped turns into one.            *)
Known(l, o, id) ==
    id \in l.cooldown \/ (l.stopped[id[1]] = id[2] /\ o[id[1]].state = "run")

(* The released processes that still live, and so could be paused again.      *)
Freed == {id \in released : Lively(os, id)}

FileKnows == \A id \in Freed : Known(disk, os, id)

(* Until reconcile_stopped is done: what is marked it has yet to visit, and   *)
(* what it has not changed is on disk.                                       *)
Gathering ==
    (pc \in {"idle", "reconcile"} /\ ~runtimeError) =>
        \A id \in Freed :
            /\ Known(ledger, os, id)
            /\ id \in ledger.cooldown \/ pc = "idle" \/ id[1] \in todo
            /\ (id \in ledger.cooldown /\ (pc = "idle" \/ ~dirty)) =>
                 id \in disk.cooldown

(* An entry that reconcile_stopped will close as gone is of a dead process.   *)
GoneIsGone ==
    pc = "reconcile" =>
        \A p \in todo : seen[p] \notin {Unverified, ledger.stopped[p]} =>
            ~Lively(os, <<p, ledger.stopped[p]>>)

Acting == Steps \ {"down", "idle", "reconcile"}

(* From then on each is cooling down, in memory and on disk, but for the one  *)
(* that has just been continued.                                             *)
Cooling ==
    (pc \in Acting /\ ~runtimeError) =>
        \A id \in Freed :
            \/ id \in ledger.cooldown \intersect disk.cooldown
            \/ /\ pc = "ctl_commit" /\ op.id = id /\ op.what = "resume"
               /\ disk.stopped[id[1]] = id[2]
               /\ os[id[1]].state = "run"

Healthy == pc \in {"ctl_signal", "ctl_commit", "prob_commit", "prob_rollback"} =>
              ~runtimeError

CoolInv ==
    /\ \A id \in released : id[2] <= os[id[1]].gen
    /\ FileKnows /\ Gathering /\ GoneIsGone /\ Cooling /\ Healthy

-----------------------------------------------------------------------------
(* A process that exits stays released and is no longer free to be paused.   *)
LEMMA FreedLater ==
    ASSUME TypeInv, TypeInv', CoolInv, Later, released' \subseteq released
    PROVE  /\ \A id \in Freed' : /\ id \in Freed /\ id \in Ids /\ id[1] \in Pids
                                 /\ os'[id[1]].state # "gone"
           /\ \A id \in released' : id[2] <= os'[id[1]].gen
<1>1. \A id \in released :
        /\ id \in Ids /\ id[1] \in Pids /\ id[2] \in Nat
        /\ id[2] <= os[id[1]].gen
  BY DEF TypeInv, TypeOK, Ids, Gens, CoolInv
<1>2. \A p \in Pids : os[p].gen \in Nat /\ os'[p].gen \in Nat /\ os[p].gen <= os'[p].gen
  BY DEF TypeInv, TypeOK, Gens, Later
<1>3. \A id \in released' : id[2] <= os'[id[1]].gen
  <2> SUFFICES ASSUME NEW id \in released'
               PROVE  id[2] <= os'[id[1]].gen
    OBVIOUS
  <2>1. /\ id[1] \in Pids /\ id[2] \in Nat /\ id[2] <= os[id[1]].gen
    BY <1>1
  <2> QED BY <1>2, <2>1
<1>4. ASSUME NEW id \in released', Lively(os', id)
      PROVE  Lively(os, id) /\ os'[id[1]].state # "gone"
  <2>1. /\ id[1] \in Pids /\ id[2] \in Nat /\ id[2] <= os[id[1]].gen
        /\ os'[id[1]].gen = id[2] /\ os'[id[1]].state # "gone"
    BY <1>1, <1>4 DEF Lively
  <2>2. os[id[1]].gen = os'[id[1]].gen
    BY <1>2, <2>1
  <2> QED BY <2>1, <2>2 DEF Lively, Later
<1> QED BY <1>1, <1>3, <1>4 DEF Freed

(* A step of a handler that leaves the cooldowns alone. *)
LEMMA CoolActs ==
    ASSUME TypeInv, TypeInv', CoolInv, Later, UNCHANGED released,
           pc \in Acting \ {"ctl_commit"},
           pc' \in (Acting \ {"ctl_commit"}) \union {"idle"},
           ledger'.cooldown = ledger.cooldown,
           disk' = disk \/ (disk' = ledger' /\ ~runtimeError),
           runtimeError => runtimeError' /\ \A p \in Pids :
             os[p].state = "run" => os'[p].state # "stop",
           pc' \in {"ctl_signal", "prob_commit", "prob_rollback"} => ~runtimeError'
    PROVE  CoolInv'
<1>1. /\ \A id \in Freed' : /\ id \in Freed /\ id[1] \in Pids
                            /\ os'[id[1]].state # "gone"
      /\ \A id \in released' : id[2] <= os'[id[1]].gen
  BY FreedLater
<1>2. ~runtimeError => \A id \in Freed : id \in ledger.cooldown \intersect disk.cooldown
  BY DEF CoolInv, Cooling
<1>3. FileKnows'
  <2> SUFFICES ASSUME NEW id \in Freed' PROVE Known(disk', os', id)
    BY DEF FileKnows
  <2>1. CASE ~runtimeError
    BY <1>1, <1>2, <2>1 DEF Known
  <2>2. CASE runtimeError
    <3>1. disk' = disk /\ id \in Freed /\ id[1] \in Pids /\ os'[id[1]].state # "gone"
      BY <1>1, <2>2
    <3>2. os[id[1]].state = "run" => os'[id[1]].state = "run"
      BY <2>2, <3>1 DEF TypeInv, TypeOK
    <3> QED BY <3>1, <3>2 DEF CoolInv, FileKnows, Known
  <2> QED BY <2>1, <2>2
<1>4. Gathering'
  BY <1>1, <1>2 DEF Gathering, Known, Acting
<1>5. GoneIsGone' /\ Healthy'
  BY DEF GoneIsGone, Acting, Healthy
<1>6. Cooling'
  BY <1>1, <1>2 DEF Cooling
<1> QED BY <1>1, <1>3, <1>4, <1>5, <1>6 DEF CoolInv

(* The environment only takes processes away, or continues them. *)
LEMMA EnvironmentCool ==
    ASSUME TypeInv, TypeInv', BookInv, CoolInv, Environment, ~Day
    PROVE  CoolInv'
<1>1. /\ UNCHANGED <<ledger, disk, pc, op, seen, todo, dirty, runtimeError, released>>
      /\ Later
      /\ \A p \in Pids : os[p].state = "run" => os'[p].state # "stop"
  <2>1. UNCHANGED <<ledger, disk, pc, op, seen, todo, dirty, runtimeError, released>>
    BY DEF Environment, Exit, Reuse, ExternalResume, Submit, daemonVars
  <2>2. os \in Systems
    BY DEF TypeInv, TypeOK, Systems
  <2> DEFINE Good == Later /\ \A p \in Pids : os[p].state = "run" => os'[p].state # "stop"
  <2>3. ASSUME NEW p \in Pids, Exit(p) \/ ExternalResume(p) PROVE Good
    BY <2>2, <2>3 DEF Exit, ExternalResume, Alive, Later, Systems, Gens
  <2>4. ASSUME NEW p \in Pids, Reuse(p) PROVE Good
    <3>1. /\ os'[p].gen = os[p].gen + 1 /\ os'[p].state = "run"
          /\ \A q \in Pids \ {p} : os'[q] = os[q]
      BY <2>2, <2>4 DEF Reuse, Systems
    <3> QED BY <2>2, <3>1 DEF Later, Systems, Gens
  <2>5. ASSUME NEW r \in Requests, Submit(r) PROVE Good
    <3>1. os' = os
      BY <2>5 DEF Submit
    <3> QED BY <2>2, <3>1 DEF Later, Systems, Gens
  <2> QED BY <2>1, <2>3, <2>4, <2>5 DEF Environment
<1>2. /\ \A id \in Freed' : /\ id \in Freed /\ id[1] \in Pids
                            /\ os'[id[1]].state # "gone"
      /\ \A id \in released' : id[2] <= os'[id[1]].gen
  BY <1>1, FreedLater
<1>3. \A id \in Freed' : os[id[1]].state = "run" => os'[id[1]].state = "run"
  BY <1>1, <1>2 DEF TypeInv, TypeOK
<1>4. \A id \in Freed' : /\ Known(disk, os, id) => Known(disk', os', id)
                         /\ Known(ledger, os, id) => Known(ledger', os', id)
  BY <1>1, <1>3 DEF Known
<1>5. FileKnows'
  BY <1>2, <1>4 DEF CoolInv, FileKnows
<1>6. Gathering'
  BY <1>1, <1>2, <1>4 DEF CoolInv, Gathering
<1>7. Cooling'
  BY <1>1, <1>2, <1>3 DEF CoolInv, Cooling
<1>8. Healthy'
  BY <1>1 DEF CoolInv, Healthy
<1>9. GoneIsGone'
  <2> SUFFICES ASSUME pc = "reconcile", NEW p \in todo,
                      seen[p] \notin {Unverified, ledger.stopped[p]},
                      Lively(os', <<p, ledger.stopped[p]>>)
               PROVE  FALSE
    BY <1>1 DEF GoneIsGone
  <2>1. ~Lively(os, <<p, ledger.stopped[p]>>)
    BY DEF CoolInv, GoneIsGone
  <2>2. /\ p \in Pids /\ ledger.stopped[p] \in Nat
        /\ os[p].gen \in Nat /\ os'[p].gen \in Nat
    BY DEF TypeInv, TypeOK, Gens, Ledgers
  <2>3. /\ os'[p].gen = ledger.stopped[p] /\ os'[p].state # "gone"
        /\ ledger.stopped[p] <= os[p].gen /\ os[p].gen <= os'[p].gen
    BY <1>1, <2>2 DEF Lively, BookInv, Booked, Dated, Later
  <2>4. os[p].gen = os'[p].gen
    BY <2>2, <2>3
  <2> QED BY <1>1, <2>1, <2>2, <2>3, <2>4 DEF Lively, Later
<1> QED BY <1>2, <1>5, <1>6, <1>7, <1>8, <1>9 DEF CoolInv

(* Saves of other parts of the ledger, and the age of its incidents. *)
LEMMA BetweenCool ==
    ASSUME TypeInv, TypeInv', CoolInv, Day \/ OtherSave
    PROVE  CoolInv'
<1>1. /\ pc = "idle" /\ UNCHANGED <<os, pc, runtimeError, dirty, released>>
  BY DEF Day, OtherSave
<1>2. /\ ledger'.stopped = ledger.stopped /\ ledger'.cooldown = ledger.cooldown
      /\ \/ disk' = ledger' /\ ~runtimeError
         \/ disk'.stopped = disk.stopped /\ disk'.cooldown = disk.cooldown
  <2>1. ledger \in Ledgers /\ disk \in Ledgers
    BY DEF TypeInv, TypeOK
  <2>2. CASE Day
    BY <2>1, <2>2, AgedFacts DEF Day
  <2>3. CASE OtherSave
    BY <2>1, <2>3, Written DEF OtherSave
  <2> QED BY <2>2, <2>3
<1>3. Freed' = Freed
  BY <1>1 DEF Freed
<1>4. ~runtimeError => \A id \in Freed : Known(ledger, os, id)
                         /\ (id \in ledger.cooldown => id \in disk.cooldown)
  BY <1>1 DEF CoolInv, Gathering
<1>5. FileKnows' /\ Gathering'
  BY <1>1, <1>2, <1>3, <1>4 DEF CoolInv, FileKnows, Gathering, Known
<1> QED BY <1>1, <1>5 DEF CoolInv, GoneIsGone, Cooling, Healthy, Acting

LEMMA CrashCool ==
    ASSUME TypeInv, TypeInv', CoolInv, Crash \/ Restart
    PROVE  CoolInv'
<1>1. UNCHANGED <<os, disk>> /\ released' \subseteq released
  BY DEF Crash, Restart
<1>2. /\ \A id \in Freed' : id \in Freed
      /\ \A id \in released' : id[2] <= os'[id[1]].gen
  <2>1. Later
    BY <1>1, SamePidsLater DEF SamePids
  <2> QED BY <1>1, <2>1, FreedLater
<1>3. FileKnows'
  BY <1>1, <1>2 DEF CoolInv, FileKnows
<1>4. CASE Crash
  <2>1. pc' = "down"
    BY <1>4 DEF Crash
  <2> QED BY <1>2, <1>3, <2>1
          DEF CoolInv, Gathering, GoneIsGone, Cooling, Healthy, Acting
<1>5. CASE Restart
  <2>1. pc' = "idle"
    BY <1>5 DEF Restart
  <2>2. Gathering'
    <3>1. CASE ~Loadable(disk)
      BY <1>5, <3>1 DEF Restart, Gathering
    <3>2. CASE Loadable(disk)
      <4>1. PICK keep \in SUBSET disk.cooldown :
              /\ ledger' = [disk EXCEPT !.cooldown = keep]
              /\ released' = released \ (disk.cooldown \ keep)
        BY <1>5, <3>2 DEF Restart
      <4>2. ledger'.cooldown = keep /\ ledger'.stopped = disk.stopped
        BY <4>1 DEF TypeInv, TypeOK, Ledgers
      <4>3. \A id \in Freed' : Known(ledger', os', id)
        BY <1>1, <1>2, <4>1, <4>2 DEF CoolInv, FileKnows, Known, Freed
      <4>4. \A id \in Freed' : id \in ledger'.cooldown => id \in disk'.cooldown
        BY <1>1, <4>2
      <4> QED BY <2>1, <4>3, <4>4 DEF Gathering
    <3> QED BY <3>1, <3>2
  <2> QED BY <1>2, <1>3, <2>1, <2>2 DEF CoolInv, GoneIsGone, Cooling, Healthy, Acting
<1> QED BY <1>4, <1>5

-----------------------------------------------------------------------------
(* The start of a tick, and reconcile_stopped. *)

(* A save writes the cooldowns of the ledger it is given, or nothing. *)
LEMMA WrittenOnce ==
    ASSUME NEW l \in Ledgers, Saved(l) \/ NotSaved(l)
    PROVE  /\ ledger'.cooldown = l.cooldown
           /\ disk' = disk \/ (disk' = ledger' /\ ~runtimeError)
           /\ Saved(l) => disk' = ledger'
BY Written

LEMMA ReconcileCool ==
    ASSUME TypeInv, TypeInv', CoolInv, TickStart \/ Reconcile
    PROVE  CoolInv'
<1>1. UNCHANGED os /\ released' \subseteq released
  BY DEF TickStart, Reconcile, ReconcileUnverified, ReconcileGone,
         ReconcileResumed, ReconcileKept, ReconcileFinish, Visit
<1>2. /\ \A id \in Freed' : id \in Freed
      /\ \A id \in released' : id[2] <= os'[id[1]].gen
  <2>1. Later
    BY <1>1, SamePidsLater DEF SamePids
  <2> QED BY <1>1, <2>1, FreedLater
<1>3. \A id \in Freed : /\ id = <<id[1], id[2]>> /\ id[1] \in Pids /\ id[2] # 0
                        /\ Lively(os, id)
  BY DEF Freed, TypeInv, TypeOK, Ids, Gens
<1>4. CASE TickStart
  <2>1. /\ pc = "idle" /\ pc' = "reconcile" /\ todo' = Managed(ledger)
        /\ dirty' = FALSE /\ UNCHANGED <<ledger, disk, runtimeError>>
    BY <1>4 DEF TickStart
  <2>2. FileKnows'
    BY <1>1, <1>2, <2>1 DEF CoolInv, FileKnows
  <2>3. Gathering'
    BY <1>1, <1>2, <1>3, <2>1 DEF CoolInv, Gathering, Known, Managed
  <2>4. GoneIsGone'
    <3>1. PICK blind \in SUBSET Unreadable :
            seen' = [p \in Pids |-> CASE ~Alive(p) -> 0
                                      [] Alive(p) /\ p \in blind -> Unverified
                                      [] OTHER -> os[p].gen]
      BY <1>4 DEF TickStart
    <3>2. ASSUME NEW p \in Pids, seen'[p] \notin {Unverified, ledger.stopped[p]}
          PROVE  ~Lively(os, <<p, ledger.stopped[p]>>)
      BY <3>1, <3>2 DEF Lively, Alive
    <3> QED BY <1>1, <2>1, <3>2 DEF GoneIsGone, Managed
  <2> QED BY <1>2, <2>1, <2>2, <2>3, <2>4 DEF CoolInv, Cooling, Healthy, Acting
<1>5. ASSUME NEW p \in Pids, Visit(p),
             \A q \in Pids \ {p} : ledger'.stopped[q] = ledger.stopped[q],
             ledger.cooldown \subseteq ledger'.cooldown,
             runtimeError => runtimeError',
             dirty' \/ (ledger' = ledger /\ dirty' = dirty),
             ~runtimeError' => \A id \in Freed :
               (id[1] = p /\ ledger.stopped[p] = id[2] /\ os[p].state = "run")
                 => id \in ledger'.cooldown
      PROVE  CoolInv'
  <2>1. /\ pc = "reconcile" /\ pc' = "reconcile" /\ UNCHANGED <<disk, seen, released>>
        /\ todo' = todo \ {p} /\ todo \subseteq Pids
    BY <1>5 DEF Visit, TypeInv, TypeOK
  <2>2. FileKnows'
    BY <1>1, <1>2, <2>1 DEF CoolInv, FileKnows
  <2>3. Gathering'
    <3> SUFFICES ASSUME ~runtimeError', NEW id \in Freed'
                 PROVE  /\ Known(ledger', os', id)
                        /\ id \in ledger'.cooldown \/ id[1] \in todo'
                        /\ (id \in ledger'.cooldown /\ ~dirty') => id \in disk'.cooldown
      BY <2>1 DEF Gathering
    <3>1. /\ id \in Freed /\ ~runtimeError
          /\ Known(ledger, os, id)
          /\ id \in ledger.cooldown \/ id[1] \in todo
          /\ (id \in ledger.cooldown /\ ~dirty) => id \in disk.cooldown
      BY <1>2, <1>5, <2>1 DEF CoolInv, Gathering
    <3>2. id[1] \in Pids
      BY <1>3, <3>1
    <3>3. CASE id \in ledger.cooldown
      BY <1>1, <1>5, <2>1, <3>1, <3>3 DEF Known
    <3>4. CASE id \notin ledger.cooldown
      <4>1. ledger.stopped[id[1]] = id[2] /\ os[id[1]].state = "run" /\ id[1] \in todo
        BY <3>1, <3>4 DEF Known
      <4>2. CASE id[1] = p
        <5>1. id \in ledger'.cooldown
          BY <1>5, <3>1, <4>1, <4>2
        <5>2. dirty'
          BY <1>5, <3>4, <5>1
        <5> QED BY <5>1, <5>2 DEF Known
      <4>3. CASE id[1] # p
        <5>1. Known(ledger', os', id) /\ id[1] \in todo'
          BY <1>1, <1>5, <2>1, <3>2, <4>1, <4>3 DEF Known
        <5>2. id \in ledger'.cooldown => dirty'
          BY <1>5, <3>4
        <5> QED BY <5>1, <5>2
      <4> QED BY <4>2, <4>3
    <3> QED BY <3>3, <3>4
  <2>4. GoneIsGone'
    BY <1>1, <1>5, <2>1 DEF CoolInv, GoneIsGone
  <2> QED BY <1>2, <2>1, <2>2, <2>3, <2>4 DEF CoolInv, Cooling, Healthy, Acting
<1>6. ASSUME NEW p \in Pids, ReconcileUnverified(p) \/ ReconcileKept(p)
      PROVE  CoolInv'
  <2>1. /\ Visit(p) /\ UNCHANGED <<ledger, dirty>>
        /\ runtimeError => runtimeError'
        /\ runtimeError' \/ os[p].state # "run"
    BY <1>6 DEF ReconcileUnverified, ReconcileKept
  <2>2. /\ \A q \in Pids \ {p} : ledger'.stopped[q] = ledger.stopped[q]
        /\ ledger.cooldown \subseteq ledger'.cooldown
        /\ ledger' = ledger /\ dirty' = dirty
    BY <2>1
  <2>3. ~runtimeError' => \A id \in Freed :
          (id[1] = p /\ ledger.stopped[p] = id[2] /\ os[p].state = "run")
            => id \in ledger'.cooldown
    BY <2>1
  <2> QED BY <1>5, <2>1, <2>2, <2>3, Zenon
<1>7. ASSUME NEW p \in Pids, ReconcileGone(p) \/ ReconcileResumed(p)
      PROVE  CoolInv'
  <2>1. /\ p \in Managed(ledger) /\ Visit(p) /\ dirty'
        /\ ledger'.stopped = [ledger.stopped EXCEPT ![p] = 0]
        /\ UNCHANGED runtimeError
    BY <1>7, ReconcileMarks DEF ReconcileGone, ReconcileResumed
  <2>2. \A q \in Pids \ {p} : ledger'.stopped[q] = ledger.stopped[q]
    BY <2>1 DEF TypeInv, TypeOK, Ledgers
  <2>3. CASE ReconcileGone(p)
    <3>1. ledger'.cooldown = ledger.cooldown
      <4>1. GoneStatus(p) \in Statuses
        BY DEF GoneStatus, Statuses, ClosedStatus
      <4>2. ledger' = Closed(ledger, p, GoneStatus(p))
        BY <2>3 DEF ReconcileGone
      <4>3. ledger \in Ledgers
        BY DEF TypeInv, TypeOK
      <4> QED BY <2>1, <4>1, <4>2, <4>3, ClosedType
    <3>2. ~Lively(os, <<p, ledger.stopped[p]>>)
      BY <2>3 DEF ReconcileGone, Visit, CoolInv, GoneIsGone
    <3>3. \A id \in Freed : ~(id[1] = p /\ ledger.stopped[p] = id[2])
      BY <1>3, <3>2
    <3> QED BY <1>5, <2>1, <2>2, <3>1, <3>3
  <2>4. CASE ReconcileResumed(p)
    <3> DEFINE closed == Closed(ledger, p, "resumed")
    <3>1. closed \in Ledgers /\ closed.cooldown = ledger.cooldown
      BY <2>1, ClosedType DEF Statuses, ClosedStatus, TypeInv, TypeOK
    <3>2. ledger' = [closed EXCEPT !.cooldown =
                       closed.cooldown \union {<<p, ledger.stopped[p]>>}]
      BY <2>4 DEF ReconcileResumed
    <3> HIDE DEF closed
    <3>3. ledger'.cooldown = ledger.cooldown \union {<<p, ledger.stopped[p]>>}
      BY <3>1, <3>2 DEF Ledgers
    <3>4. \A id \in Freed : (id[1] = p /\ ledger.stopped[p] = id[2]) =>
            id \in ledger'.cooldown
      BY <1>3, <3>3
    <3> QED BY <1>5, <2>1, <2>2, <3>3, <3>4
  <2> QED BY <1>7, <2>3, <2>4
<1>8. CASE ReconcileFinish
  <2>1. PICK keep \in SUBSET ledger.cooldown :
          /\ released' = released \ (ledger.cooldown \ keep)
          /\ LET l == [ledger EXCEPT !.cooldown = keep]
                 changed == dirty \/ keep # ledger.cooldown
             IN  \/ ~changed /\ UNCHANGED <<ledger, disk, faults, dropped, runtimeError>>
                 \/ changed /\ Saved(l) /\ UNCHANGED runtimeError
                 \/ changed /\ NotSaved(l) /\ runtimeError' = TRUE
    BY <1>8 DEF ReconcileFinish
  <2> DEFINE l == [ledger EXCEPT !.cooldown = keep]
  <2>2. l \in Ledgers /\ l.cooldown = keep
    BY DEF TypeInv, TypeOK, Ledgers
  <2> HIDE DEF l
  <2>3. /\ pc = "reconcile" /\ todo = {} /\ pc' = "list"
    BY <1>8 DEF ReconcileFinish
  <2>4. ~runtimeError => \A id \in Freed' :
          /\ id \in keep
          /\ ~dirty => id \in disk.cooldown
    BY <1>2, <2>1, <2>3 DEF CoolInv, Gathering, Freed
  <2>5. /\ \/ ~dirty /\ keep = ledger.cooldown /\ UNCHANGED <<ledger, disk, runtimeError>>
           \/ Saved(l) /\ UNCHANGED runtimeError
           \/ NotSaved(l) /\ runtimeError' = TRUE
    BY <2>1 DEF l
  <2>6. FileKnows'
    <3>1. disk' = disk \/ (disk'.cooldown = keep /\ ~runtimeError)
      BY <2>2, <2>5, WrittenOnce
    <3>2. CASE disk' = disk
      BY <1>1, <1>2, <3>2 DEF CoolInv, FileKnows
    <3>3. CASE disk'.cooldown = keep /\ ~runtimeError
      BY <2>4, <3>3 DEF FileKnows, Known
    <3> QED BY <3>1, <3>2, <3>3
  <2>7. Cooling'
    <3> SUFFICES ASSUME ~runtimeError', NEW id \in Freed'
                 PROVE  id \in ledger'.cooldown /\ id \in disk'.cooldown
      BY DEF Cooling
    <3>1. CASE ~dirty /\ keep = ledger.cooldown /\ UNCHANGED <<ledger, disk, runtimeError>>
      BY <2>4, <3>1
    <3>2. CASE Saved(l) /\ UNCHANGED runtimeError
      <4>1. ledger'.cooldown = keep /\ disk' = ledger'
        BY <2>2, <3>2, WrittenOnce
      <4> QED BY <2>4, <3>2, <4>1
    <3> QED BY <2>5, <3>1, <3>2
  <2> QED BY <1>2, <2>3, <2>6, <2>7 DEF CoolInv, Gathering, GoneIsGone, Healthy
<1> QED BY <1>4, <1>6, <1>7, <1>8 DEF Reconcile

-----------------------------------------------------------------------------
(* The handlers. *)

(* Clearing marks and settling incidents leave the cooldowns alone. *)
LEMMA ReleasedCooldown ==
    ASSUME NEW l \in Ledgers, NEW id \in Ids
    PROVE  /\ Transition(ClearStopped(l, id), id, "resumed", FALSE).cooldown = l.cooldown
           /\ Transition(ClearStopped(l, id), id, "resumed", TRUE).cooldown = l.cooldown
<1> DEFINE c == ClearStopped(l, id)
<1>1. c \in Ledgers /\ c.cooldown = l.cooldown
  BY ClearType
<1>2. "resumed" \in Statuses
  BY DEF Statuses, ClosedStatus
<1> HIDE DEF c
<1>3. /\ Transition(c, id, "resumed", FALSE).cooldown = c.cooldown
      /\ Transition(c, id, "resumed", TRUE).cooldown = c.cooldown
  BY <1>1, <1>2, SettleType, AttemptType
<1> QED BY <1>1, <1>3 DEF c

(* So does everything manage_lead_probation does to the ledger. *)
LEMMA ProbationCooldown ==
    ASSUME TypeInv, ledger.probation \in Probations
    PROVE  /\ Attempt(ClearStopped(ledger, OnProbation), "probation") \in Ledgers
           /\ Attempt(ClearStopped(ledger, OnProbation), "probation").cooldown
                = ledger.cooldown
           /\ ProbationFailed(ledger).cooldown = ledger.cooldown
<1> DEFINE c == ClearStopped(ledger, OnProbation)
           m == MarkStopped(ledger, OnProbation)
           t == Attempt(m, "probation_failed")
<1>1. OnProbation \in Ids /\ ledger \in Ledgers
  BY DEF OnProbation, Probations, TypeInv, TypeOK
<1>2. /\ c \in Ledgers /\ c.cooldown = ledger.cooldown
      /\ m \in Ledgers /\ m.cooldown = ledger.cooldown
  BY <1>1, ClearType, MarkType
<1>3. "probation" \in Statuses /\ "probation_failed" \in Statuses
  BY DEF Statuses, OpenStatus
<1> HIDE DEF c, m
<1>4. /\ Attempt(c, "probation") \in Ledgers
      /\ Attempt(c, "probation").cooldown = c.cooldown
      /\ t \in Ledgers /\ t.cooldown = m.cooldown
  BY <1>1, <1>2, <1>3, AttemptType DEF Attempt
<1>5. ProbationFailed(ledger).cooldown = t.cooldown
  <2>1. ProbationFailed(ledger) = [t EXCEPT !.probation.status = "failed"]
    BY DEF ProbationFailed, m
  <2> HIDE DEF t
  <2> QED BY <1>4, <2>1 DEF Ledgers
<1> QED BY <1>2, <1>4, <1>5 DEF c

LEMMA ControlCool ==
    ASSUME TypeInv, TypeInv', BookInv, DurableInv, CoolInv, Control
    PROVE  CoolInv'
<1>1. ledger \in Ledgers
  BY DEF TypeInv, TypeOK
<1>2. CASE \/ \E r \in Requests : ControlRefuse(r)
           \/ ControlList \/ ControlAnswer \/ ControlRemove \/ ControlDone
  <2>1. /\ pc \in {"list", "control", "ctl_answer", "ctl_remove"}
        /\ pc' \in {"control", "ctl_answer", "ctl_remove", "detect"}
        /\ UNCHANGED <<os, ledger, disk, runtimeError, released>>
    BY <1>2 DEF ControlRefuse, Takes, ControlList, ControlAnswer, ControlRemove,
                ControlDone
  <2>2. Later
    BY <2>1, SamePidsLater DEF SamePids
  <2>3. \A p \in Pids : os[p].state = "run" => os'[p].state # "stop"
    BY <2>1
  <2> QED BY <2>1, <2>2, <2>3, CoolActs DEF Acting, Steps
<1>3. ASSUME NEW r \in Requests, ControlIntent(r) PROVE CoolInv'
  <2> DEFINE target == Target(r)
             l == [ledger EXCEPT !.pending = target]
  <2>1. l \in Ledgers /\ l.cooldown = ledger.cooldown
    <3>1. target \in PendingControls
      BY <1>1, <1>3 DEF ControlIntent, Admissible, Target, PendingControls,
                        Requests, Ids, Gens, Ledgers
    <3> HIDE DEF target
    <3> QED BY <1>1, <3>1 DEF Ledgers
  <2> HIDE DEF l, target
  <2>2. UNCHANGED <<ledger, disk>> \/ Saved(l) \/ NotSaved(ledger)
    BY <1>3, Zenon DEF ControlIntent, l, target
  <2>3. /\ pc = "control" /\ pc' \in {"ctl_answer", "ctl_signal"}
        /\ ~runtimeError /\ UNCHANGED <<os, runtimeError, released>>
    BY <1>3, IntentMarks DEF ControlIntent, Takes, Admissible
  <2>4. /\ ledger'.cooldown = ledger.cooldown
        /\ disk' = disk \/ (disk' = ledger' /\ ~runtimeError)
    BY <1>1, <2>1, <2>2, WrittenOnce
  <2>5. Later
    BY <2>3, SamePidsLater DEF SamePids
  <2> QED BY <2>3, <2>4, <2>5, CoolActs DEF Acting, Steps
<1>4. CASE ControlSignal
  <2>1. /\ pc = "ctl_signal" /\ pc' = "ctl_commit"
        /\ UNCHANGED <<ledger, disk, runtimeError, op>> /\ ~runtimeError
        /\ op.id \in Ids /\ op.id[1] \in Pids /\ PidOf(op.id) = op.id[1]
        /\ op.id[2] # 0 /\ op.id[2] \in Nat
    BY <1>4 DEF ControlSignal, CoolInv, Healthy, TypeInv, StepOK, CtlSteps,
                Ids, Gens, PidOf
  <2>2. ledger.stopped[op.id[1]] = op.id[2] /\ disk.stopped[op.id[1]] = op.id[2]
    <3>1. ledger.stopped[op.id[1]] = op.id[2] /\ UnwindingPids = {}
      BY <2>1 DEF BookInv, HandInv, UnwindingPids
    <3> QED BY <2>1, <3>1 DEF DurableInv
  <2>3. \E state \in {"gone", "run"} :
          Delivered(op.id[1], state) \/ Refused(op.id[1])
    BY <1>4, <2>1 DEF ControlSignal, TerminateSignal
  <2>4. Later
    BY <2>1, <2>3, SignalOne, SamePidsLater
  <2>5. \/ UNCHANGED released
        \/ /\ op.what = "resume" /\ os'[op.id[1]].state = "run"
           /\ released' = released \union {op.id}
    BY <1>4, <2>1, SignalOne DEF ControlSignal, TerminateSignal
  <2>6. \A id \in released' : id[2] <= os'[id[1]].gen
    <3>1. \A id \in released : id \in Ids /\ id[1] \in Pids /\ id[2] \in Nat
      BY DEF TypeInv, TypeOK, Ids, Gens
    <3>2. \A p \in Pids : os[p].gen \in Nat /\ os'[p].gen \in Nat
                          /\ os[p].gen <= os'[p].gen
      BY <2>4 DEF TypeInv, TypeOK, Gens, Later
    <3>3. \A id \in released : id[2] <= os'[id[1]].gen
      <4> SUFFICES ASSUME NEW id \in released PROVE id[2] <= os'[id[1]].gen
        OBVIOUS
      <4>1. id[1] \in Pids /\ id[2] \in Nat /\ id[2] <= os[id[1]].gen
        BY <3>1 DEF CoolInv
      <4> QED BY <3>2, <4>1
    <3>4. op.id[2] <= os'[op.id[1]].gen
      <4>1. op.id[2] <= os[op.id[1]].gen
        BY <2>1, <2>2 DEF BookInv, Booked, Dated
      <4> QED BY <2>1, <3>2, <4>1
    <3> QED BY <2>5, <3>3, <3>4
  <2>7. ASSUME NEW id \in Freed'
        PROVE  \/ id \in ledger.cooldown \intersect disk.cooldown
               \/ /\ op.id = id /\ op.what = "resume"
                  /\ disk.stopped[id[1]] = id[2] /\ os'[id[1]].state = "run"
    <3>1. CASE id \in released
      <4>1. id \in Freed
        <5>1. /\ id[1] \in Pids /\ id[2] \in Nat /\ id[2] <= os[id[1]].gen
              /\ os'[id[1]].gen = id[2] /\ os'[id[1]].state # "gone"
          <6>1. id[1] \in Pids /\ id[2] \in Nat
            BY <3>1 DEF TypeInv, TypeOK, Ids, Gens
          <6>2. id[2] <= os[id[1]].gen
            BY <3>1 DEF CoolInv
          <6>3. Lively(os', id)
            BY <2>7 DEF Freed
          <6>4. os'[id[1]].gen = id[2] /\ os'[id[1]].state # "gone"
            BY <6>3 DEF Lively
          <6> QED BY <6>1, <6>2, <6>4
        <5>2. os[id[1]].gen = id[2]
          <6>1. /\ os[id[1]].gen \in Nat
                /\ os[id[1]].gen <= os'[id[1]].gen
            BY <2>4, <5>1 DEF TypeInv, TypeOK, Gens, Later
          <6> QED BY <5>1, <6>1
        <5> QED BY <2>4, <3>1, <5>1, <5>2 DEF Later, Freed, Lively
      <4> QED BY <2>1, <4>1 DEF CoolInv, Cooling, Acting, Steps
    <3>2. CASE id \notin released
      BY <2>2, <2>5, <2>7, <3>2 DEF Freed
    <3> QED BY <3>1, <3>2
  <2>8. FileKnows'
    BY <2>1, <2>7 DEF FileKnows, Known
  <2>9. Cooling'
    BY <2>1, <2>7 DEF Cooling
  <2> QED BY <2>1, <2>6, <2>8, <2>9 DEF CoolInv, Gathering, GoneIsGone, Healthy
<1>5. CASE ControlSignalRefused
  <2>1. /\ pc = "ctl_signal" /\ pc' = "ctl_answer" /\ Refused(PidOf(op.id))
        /\ UNCHANGED <<ledger, disk, runtimeError, released>>
    BY <1>5 DEF ControlSignalRefused
  <2>2. UNCHANGED os
    BY <2>1 DEF Refused
  <2>3. Later /\ \A p \in Pids : os[p].state = "run" => os'[p].state # "stop"
    BY <2>2, SamePidsLater DEF SamePids
  <2> QED BY <2>1, <2>3, CoolActs DEF Acting, Steps
<1>6. CASE ControlCommit
  <2> DEFINE status == CASE op.what = "resume" -> "resumed"
                         [] op.what = "terminate" -> "terminated"
                         [] OTHER -> "killed"
             marked == ClearStopped(ledger, op.id)
             warm == IF op.what = "resume" THEN marked.cooldown \union {op.id}
                                           ELSE marked.cooldown
             cleared == [marked EXCEPT !.pending = None, !.cooldown = warm]
             l == Transition(cleared, op.id, status, FALSE)
  <2>1. /\ op.id \in Ids /\ pc = "ctl_commit" /\ pc' = "ctl_answer"
        /\ UNCHANGED <<os, released>> /\ ~runtimeError
        /\ status \in Statuses
    BY <1>6, CommitMarks DEF ControlCommit, CoolInv, Healthy, Statuses, ClosedStatus
  <2>2. marked \in Ledgers /\ marked.cooldown = ledger.cooldown
    BY <1>1, <2>1, ClearType
  <2>3. cleared \in Ledgers /\ cleared.cooldown = warm
    <3> HIDE DEF marked
    <3> QED BY <2>1, <2>2 DEF Ledgers
  <2>4. l \in Ledgers /\ l.cooldown = warm
    <3> HIDE DEF marked, cleared, status, warm
    <3> QED BY <2>1, <2>3, SettleType
  <2>5. (Saved(l) /\ UNCHANGED runtimeError) \/ (NotSaved(l) /\ runtimeError' = TRUE)
    BY <1>6 DEF ControlCommit
  <2> HIDE DEF l
  <2>6. Freed' = Freed
    BY <2>1 DEF Freed
  <2>7. \A id \in Freed : id \in warm
    <3> HIDE DEF marked
    <3> QED BY <2>1, <2>2 DEF CoolInv, Cooling, Acting, Steps
  <2>8. FileKnows'
    <3> HIDE DEF warm
    <3>1. disk'.cooldown = warm \/ disk' = disk
      BY <2>4, <2>5, WrittenOnce
    <3>2. CASE disk'.cooldown = warm
      BY <2>6, <2>7, <3>2 DEF FileKnows, Known
    <3>3. CASE disk' = disk
      BY <2>1, <2>6, <3>3 DEF CoolInv, FileKnows, Known
    <3> QED BY <3>1, <3>2, <3>3
  <2>9. Cooling'
    <3> SUFFICES ASSUME ~runtimeError', NEW id \in Freed'
                 PROVE  id \in ledger'.cooldown /\ id \in disk'.cooldown
      BY DEF Cooling
    <3> HIDE DEF warm
    <3>1. ledger'.cooldown = warm /\ disk' = ledger'
      BY <2>4, <2>5, WrittenOnce
    <3> QED BY <2>6, <2>7, <3>1
  <2>10. \A id \in released' : id[2] <= os'[id[1]].gen
    BY <2>1 DEF CoolInv
  <2> QED BY <2>1, <2>8, <2>9, <2>10 DEF CoolInv, Gathering, GoneIsGone, Healthy
<1> QED BY <1>2, <1>3, <1>4, <1>5, <1>6 DEF Control

LEMMA SuspendCool ==
    ASSUME TypeInv, TypeInv', CoolInv, Suspend
    PROVE  CoolInv'
<1>1. ledger \in Ledgers
  BY DEF TypeInv, TypeOK
<1>2. ASSUME NEW p \in Pids, DetectRunaway(p) \/ PressurePause(p) \/ LastResort(p)
      PROVE  CoolInv'
  <2>1. /\ pc \in {"detect", "pressure", "last_resort"} /\ pc' = "sus_record"
        /\ UNCHANGED <<ledger, disk, runtimeError, released>> /\ ~runtimeError
        /\ Delivered(p, "stop")
    BY <1>2 DEF DetectRunaway, PressurePause, LastResort, Eligible, Stop
  <2>2. Later
    BY <2>1, SignalOne, SamePidsLater
  <2> QED BY <2>1, <2>2, CoolActs DEF Acting, Steps
<1>3. ASSUME pc \in SusSteps PROVE op.id \in Ids /\ PidOf(op.id) \in Pids
  BY <1>3 DEF TypeInv, StepOK, Ids, PidOf
<1> DEFINE After == {"probation", "last_resort", "idle"}
<1>4. ASSUME NEW paused, SuspendReturns(paused) PROVE pc' \in After
  BY <1>4 DEF SuspendReturns
<1>5. ASSUME pc \in SusSteps \union {"detect"}, pc' \in SusSteps \union After,
             ledger'.cooldown = ledger.cooldown, UNCHANGED released,
             disk' = disk \/ (disk' = ledger' /\ ~runtimeError),
             runtimeError => runtimeError',
             UNCHANGED os \/ Delivered(PidOf(op.id), "run") \/ Refused(PidOf(op.id)),
             UNCHANGED os \/ pc \in SusSteps
      PROVE  CoolInv'
  <2>1. Later /\ \A p \in Pids : os[p].state = "run" => os'[p].state # "stop"
    <3>1. CASE UNCHANGED os
      BY <3>1, SamePidsLater DEF SamePids
    <3>2. CASE pc \in SusSteps /\ (Delivered(PidOf(op.id), "run") \/ Refused(PidOf(op.id)))
      <4>1. /\ SamePids /\ \A p \in Pids \ {PidOf(op.id)} : os'[p] = os[p]
            /\ os' = os \/ os'[PidOf(op.id)].state = "run"
        BY <1>3, <3>2, SignalOne
      <4> QED BY <4>1, SamePidsLater
    <3> QED BY <1>5, <3>1, <3>2
  <2> QED BY <1>5, <2>1, CoolActs DEF Acting, Steps, SusSteps
<1>6. CASE DetectNone
  <2>1. /\ pc = "detect" /\ pc' = "probation"
        /\ UNCHANGED <<os, ledger, disk, runtimeError, released>>
    BY <1>6 DEF DetectNone
  <2> QED BY <1>5, <2>1
<1>7. CASE SuspendRecord
  <2> DEFINE l == Recorded(ledger, op.id, op.what)
  <2>1. /\ pc = "sus_record" /\ pc' \in SusSteps
        /\ UNCHANGED <<os, runtimeError, released>> /\ op.id \in Ids
        /\ Saved(l) \/ NotSaved(l)
    BY <1>3, <1>7 DEF SuspendRecord, SusSteps, Recorded
  <2>2. op.what \in PauseReasons
    BY <2>1 DEF TypeInv, StepOK, SusSteps
  <2>3. l \in Ledgers /\ l.cooldown = ledger.cooldown
    BY <1>1, <2>1, <2>2, RecordedType
  <2> HIDE DEF l
  <2>4. /\ ledger'.cooldown = ledger.cooldown
        /\ disk' = disk \/ (disk' = ledger' /\ ~runtimeError)
    BY <2>1, <2>3, WrittenOnce
  <2> QED BY <1>5, <2>1, <2>4 DEF SusSteps
<1>8. CASE SuspendRollback
  <2>1. /\ pc = "sus_rollback" /\ pc \in SusSteps /\ pc' \in After
        /\ UNCHANGED <<disk, released>>
        /\ Delivered(PidOf(op.id), "run") \/ Refused(PidOf(op.id))
        /\ \/ ledger' = Transition(ClearStopped(ledger, op.id), op.id, "resumed", FALSE)
           \/ ledger' = ledger
    BY <1>4, <1>8 DEF SuspendRollback, SusSteps
  <2>2. ledger'.cooldown = ledger.cooldown
    BY <1>1, <1>3, <2>1, ReleasedCooldown
  <2>3. runtimeError => runtimeError'
    <3>1. runtimeError' = runtimeError \/ runtimeError' = TRUE
      BY <1>8 DEF SuspendRollback
    <3> QED BY <3>1, Zenon
  <2> QED BY <1>5, <2>1, <2>2, <2>3
<1>9. CASE SuspendNotified \/ SuspendUnseenPersist
  <2>1. /\ pc \in SusSteps /\ pc' \in After
        /\ UNCHANGED <<os, released, runtimeError>>
        /\ UNCHANGED <<ledger, disk>> \/ Saved(ledger) \/ NotSaved(ledger)
    BY <1>4, <1>9 DEF SuspendNotified, SuspendUnseenPersist, SusSteps
  <2>2. /\ ledger'.cooldown = ledger.cooldown
        /\ disk' = disk \/ (disk' = ledger' /\ ~runtimeError)
    BY <1>1, <2>1, WrittenOnce
  <2> QED BY <1>5, <2>1, <2>2
<1>10. CASE SuspendUnseen
  <2>1. /\ pc = "sus_notify" /\ pc \in SusSteps /\ pc' \in SusSteps
        /\ UNCHANGED <<disk, released, runtimeError>>
        /\ Delivered(PidOf(op.id), "run") \/ Refused(PidOf(op.id))
        /\ ledger' = Transition(ClearStopped(ledger, op.id), op.id, "resumed", FALSE)
    BY <1>10 DEF SuspendUnseen, SusSteps
  <2>2. ledger'.cooldown = ledger.cooldown
    BY <1>1, <1>3, <2>1, ReleasedCooldown
  <2> QED BY <1>5, <2>1, <2>2
<1> QED BY <1>2, <1>6, <1>7, <1>8, <1>9, <1>10 DEF Suspend

LEMMA ProbationCool ==
    ASSUME TypeInv, TypeInv', CoolInv, Probation
    PROVE  CoolInv'
<1>1. ledger \in Ledgers
  BY DEF TypeInv, TypeOK
<1> DEFINE id == OnProbation
           After == {"idle", "pressure"}
<1>2. AfterProbation => pc' \in After
  BY DEF AfterProbation
<1>3. ASSUME pc \in ProbSteps \/ Monitoring
      PROVE  /\ ledger.probation \in Probations /\ id \in Ids /\ PidOf(id) \in Pids
  BY <1>3, OnProbationId DEF Ids, PidOf
<1>4. ASSUME pc \in ProbSteps \union {"probation"},
             pc' \in ProbSteps \union {"probation"} \union After,
             ledger'.cooldown = ledger.cooldown, UNCHANGED released,
             disk' = disk \/ (disk' = ledger' /\ ~runtimeError),
             runtimeError => runtimeError',
             pc' \in {"prob_commit", "prob_rollback"} => ~runtimeError',
             \/ UNCHANGED os
             \/ /\ pc \in ProbSteps \/ Monitoring
                /\ \/ Delivered(PidOf(id), "run") \/ Refused(PidOf(id))
                   \/ Delivered(PidOf(id), "stop") /\ ~runtimeError
      PROVE  CoolInv'
  <2>1. Later /\ (runtimeError => \A p \in Pids :
                    os[p].state = "run" => os'[p].state # "stop")
    <3>1. CASE UNCHANGED os
      BY <3>1, SamePidsLater DEF SamePids
    <3>2. CASE /\ pc \in ProbSteps \/ Monitoring
               /\ Delivered(PidOf(id), "run") \/ Refused(PidOf(id))
      <4>1. /\ SamePids /\ \A p \in Pids \ {PidOf(id)} : os'[p] = os[p]
            /\ os' = os \/ os'[PidOf(id)].state = "run"
        BY <1>3, <3>2, SignalOne
      <4> QED BY <4>1, SamePidsLater
    <3>3. CASE /\ pc \in ProbSteps \/ Monitoring
               /\ Delivered(PidOf(id), "stop") /\ ~runtimeError
      BY <1>3, <3>3, SignalOne, SamePidsLater
    <3> QED BY <1>4, <3>1, <3>2, <3>3
  <2> QED BY <1>4, <2>1, CoolActs DEF Acting, Steps, ProbSteps
<1>5. ASSUME NEW l \in Ledgers, Saved(l) \/ NotSaved(l) \/ Restored,
             l.cooldown = ledger.cooldown
      PROVE  /\ ledger'.cooldown = ledger.cooldown
             /\ disk' = disk \/ (disk' = ledger' /\ ~runtimeError)
  BY <1>5, WrittenOnce DEF Restored
<1>6. CASE ProbationIdle \/ ProbationRolledBack \/ RelapseUndone
  <2>1. /\ pc \in ProbSteps \union {"probation"} /\ pc' \in After
        /\ UNCHANGED <<os, released>>
        /\ runtimeError' = runtimeError \/ runtimeError' = TRUE
        /\ UNCHANGED <<ledger, disk>> \/ Saved(ledger) \/ NotSaved(ledger)
    BY <1>2, <1>6 DEF ProbationIdle, ProbationRolledBack, RelapseUndone, ProbSteps
  <2>2. /\ ledger'.cooldown = ledger.cooldown
        /\ disk' = disk \/ (disk' = ledger' /\ ~runtimeError)
    BY <1>1, <2>1, WrittenOnce
  <2>3. runtimeError => runtimeError'
    BY <2>1, Zenon
  <2> QED BY <1>4, <2>1, <2>2, <2>3
<1>7. ASSUME NEW l \in Ledgers, Saved(l) \/ NotSaved(l) \/ Restored,
             l.cooldown = ledger.cooldown,
             pc \in ProbSteps \union {"probation"},
             pc' \in ProbSteps \union {"probation"} \union After,
             UNCHANGED <<os, runtimeError, released>>,
             pc' \in {"prob_commit", "prob_rollback"} => ~runtimeError
      PROVE  CoolInv'
  <2>1. /\ ledger'.cooldown = ledger.cooldown
        /\ disk' = disk \/ (disk' = ledger' /\ ~runtimeError)
    BY <1>5, <1>7
  <2> QED BY <1>4, <1>7, <2>1
<1>8. ASSUME NEW i \in Ids, NEW status \in Statuses,
             NEW x \in Probations \union {None}
      PROVE  /\ [Transition(ledger, i, status, TRUE) EXCEPT !.probation = x]
                  \in Ledgers
             /\ [Transition(ledger, i, status, FALSE) EXCEPT !.probation = x]
                  \in Ledgers
             /\ [Transition(ledger, i, status, TRUE) EXCEPT !.probation = x].cooldown
                  = ledger.cooldown
             /\ [Transition(ledger, i, status, FALSE) EXCEPT !.probation = x].cooldown
                  = ledger.cooldown
  <2> DEFINE t == Transition(ledger, i, status, TRUE)
             f == Transition(ledger, i, status, FALSE)
  <2>1. t \in Ledgers /\ t.cooldown = ledger.cooldown
        /\ f \in Ledgers /\ f.cooldown = ledger.cooldown
    BY <1>1, SettleType, AttemptType
  <2> HIDE DEF t, f
  <2>2. /\ [t EXCEPT !.probation = x] \in Ledgers
        /\ [f EXCEPT !.probation = x] \in Ledgers
        /\ [t EXCEPT !.probation = x].cooldown = ledger.cooldown
        /\ [f EXCEPT !.probation = x].cooldown = ledger.cooldown
    BY <2>1 DEF Ledgers
  <2> QED BY <2>2 DEF t, f
<1>9. CASE ProbationGone \/ ProbationComplete
  <2> DEFINE g == [Transition(ledger, id, "gone", FALSE) EXCEPT !.probation = None]
             r == [Transition(ledger, id, "resumed", TRUE) EXCEPT !.probation = None]
  <2>1. /\ pc = "probation" /\ Monitoring /\ pc' \in After
        /\ UNCHANGED <<os, runtimeError, released>>
        /\ Saved(g) \/ NotSaved(g) \/ Saved(r) \/ Restored
    BY <1>2, <1>9 DEF ProbationGone, ProbationComplete, Monitoring, Watching, Attempt
  <2>2. /\ g \in Ledgers /\ r \in Ledgers
        /\ g.cooldown = ledger.cooldown /\ r.cooldown = ledger.cooldown
    <3>1. id \in Ids /\ "gone" \in Statuses /\ "resumed" \in Statuses
      BY <1>3, <2>1 DEF Statuses, ClosedStatus
    <3> HIDE DEF id
    <3> QED BY <1>8, <3>1
  <2> HIDE DEF g, r
  <2>3. pc' \notin {"prob_commit", "prob_rollback"}
    BY <2>1
  <2> QED BY <1>7, <2>1, <2>2, <2>3
<1>10. CASE ProbationPrepare
  <2> DEFINE k == Max(ProbationCandidates(ledger))
             i == ledger.incidents[k].id
             x == [id |-> i, sent |-> FALSE, status |-> "monitoring"]
             l == [Transition(ledger, i, "probation", TRUE) EXCEPT !.probation = x]
  <2>1. /\ pc = "probation" /\ pc' \in {"probation"} \union After
        /\ UNCHANGED <<os, runtimeError, released>>
        /\ Saved(l) \/ Restored
        /\ ProbationCandidates(ledger) # {}
    BY <1>2, <1>10 DEF ProbationPrepare
  <2>2. k \in ProbationCandidates(ledger)
    <3> DEFINE n == Len(ledger.incidents)
               S == ProbationCandidates(ledger)
    <3>1. ledger.incidents \in Seq(Incidents)
      BY <1>1 DEF Ledgers
    <3>2. n \in Nat /\ DOMAIN ledger.incidents = 1..n
      BY <3>1
    <3>3. S \in SUBSET (1..n) /\ S # {}
      BY <2>1, <3>2 DEF ProbationCandidates
    <3> HIDE DEF n, S
    <3>4. Max(S) \in S
      BY <3>2, <3>3, LatestIndex
    <3> QED BY <3>4 DEF S
  <2>3. i \in Ids /\ "probation" \in Statuses
    BY <1>1, <2>2, IncidentIds DEF ProbationCandidates, Statuses, OpenStatus
  <2> HIDE DEF i
  <2>4. l \in Ledgers /\ l.cooldown = ledger.cooldown
    <3>1. x \in Probations \union {None}
      BY <2>3 DEF Probations
    <3> HIDE DEF x
    <3> QED BY <1>8, <2>3, <3>1
  <2> HIDE DEF l
  <2>5. pc' \notin {"prob_commit", "prob_rollback"}
    BY <2>1
  <2> QED BY <1>7, <2>1, <2>4, <2>5
<1>11. CASE ProbationResume \/ Relapse
  <2>1. /\ pc = "probation" /\ Monitoring /\ ~runtimeError
        /\ pc' \in {"prob_commit", "rel_record"} \union After
        /\ UNCHANGED <<ledger, disk, runtimeError, released>>
        /\ \/ Delivered(PidOf(id), "run") \/ Refused(PidOf(id))
           \/ Delivered(PidOf(id), "stop")
    BY <1>2, <1>11 DEF ProbationResume, Relapse, Watching, Monitoring
  <2> QED BY <1>4, <2>1 DEF ProbSteps
<1>12. CASE ProbationCommit
  <2> DEFINE t == Attempt(ClearStopped(ledger, id), "probation")
             l == [t EXCEPT !.probation.sent = TRUE]
  <2>1. /\ pc = "prob_commit" /\ pc \in ProbSteps /\ ~runtimeError
        /\ pc' \in {"prob_rollback"} \union After
        /\ UNCHANGED <<os, runtimeError, released>>
        /\ Saved(l) \/ NotSaved(l)
    BY <1>2, <1>12 DEF ProbationCommit, ProbSteps, CoolInv, Healthy
  <2>2. t \in Ledgers /\ t.cooldown = ledger.cooldown
    BY <1>3, <2>1, ProbationCooldown
  <2>3. l \in Ledgers /\ l.cooldown = ledger.cooldown
    <3>1. t.probation = ledger.probation
      <4>1. ClearStopped(ledger, id) \in Ledgers
            /\ ClearStopped(ledger, id).probation = ledger.probation
        BY <1>1, <1>3, <2>1, ClearType
      <4>2. "probation" \in Statuses
        BY DEF Statuses, OpenStatus
      <4> QED BY <1>3, <2>1, <4>1, <4>2, AttemptType DEF Attempt
    <3>2. ledger.probation \in Probations
      BY <1>3, <2>1
    <3> HIDE DEF t
    <3>3. [t.probation EXCEPT !.sent = TRUE] \in Probations
      BY <3>1, <3>2 DEF Probations
    <3> QED BY <2>2, <3>3 DEF Ledgers
  <2> HIDE DEF t
  <2> HIDE DEF l
  <2> QED BY <1>7, <2>1, <2>3 DEF ProbSteps
<1>13. CASE ProbationRollback
  <2>1. /\ pc = "prob_rollback" /\ pc \in ProbSteps /\ ~runtimeError
        /\ pc' \in {"prob_rolled_back"} \union After
        /\ UNCHANGED <<disk, released>>
        /\ Delivered(PidOf(id), "stop") \/ Refused(PidOf(id))
        /\ ledger' \in {ledger, ProbationFailed(ledger)}
    BY <1>2, <1>13 DEF ProbationRollback, ProbSteps, CoolInv, Healthy
  <2>2. ledger'.cooldown = ledger.cooldown
    BY <1>3, <2>1, ProbationCooldown
  <2>3. pc' \in ProbSteps \union After /\ pc' \notin {"prob_commit", "prob_rollback"}
    BY <2>1 DEF ProbSteps
  <2> QED BY <1>4, <2>1, <2>2, <2>3
<1>14. CASE RelapseRecord
  <2>1. /\ pc = "rel_record" /\ pc \in ProbSteps
        /\ pc' \in {"rel_rollback"} \union After
        /\ UNCHANGED <<os, runtimeError, released>>
        /\ Saved(ProbationFailed(ledger)) \/ NotSaved(ProbationFailed(ledger))
    BY <1>2, <1>14 DEF RelapseRecord, ProbSteps
  <2>2. /\ ProbationFailed(ledger) \in Ledgers
        /\ ProbationFailed(ledger).cooldown = ledger.cooldown
    BY <1>3, <2>1, ProbationCooldown, ProbationFailedMarks
  <2>3. pc' \in ProbSteps \union After /\ pc' \notin {"prob_commit", "prob_rollback"}
    BY <2>1 DEF ProbSteps
  <2> QED BY <1>7, <2>1, <2>2, <2>3
<1>15. CASE RelapseRollback
  <2>1. /\ pc = "rel_rollback" /\ pc \in ProbSteps
        /\ pc' \in {"rel_undone"} \union After
        /\ UNCHANGED <<disk, released>>
        /\ runtimeError' = runtimeError \/ runtimeError' = TRUE
        /\ Delivered(PidOf(id), "run") \/ Refused(PidOf(id))
        /\ \/ ledger' = ledger
           \/ ledger' = Transition(ClearStopped(ledger, id), id, "resumed", TRUE)
    BY <1>2, <1>15 DEF RelapseRollback, ProbSteps, Attempt
  <2>2. ledger'.cooldown = ledger.cooldown
    BY <1>1, <1>3, <2>1, ReleasedCooldown
  <2>3. pc' \in ProbSteps \union After /\ pc' \notin {"prob_commit", "prob_rollback"}
    BY <2>1 DEF ProbSteps
  <2>4. runtimeError => runtimeError'
    BY <2>1, Zenon
  <2> QED BY <1>4, <2>1, <2>2, <2>3, <2>4
<1> QED BY <1>6, <1>9, <1>10, <1>11, <1>12, <1>13, <1>14, <1>15 DEF Probation

LEMMA PressureCool ==
    ASSUME TypeInv, TypeInv', CoolInv, Pressure
    PROVE  CoolInv'
<1>1. ledger \in Ledgers
  BY DEF TypeInv, TypeOK
<1>2. CASE Recover
  <2>1. PICK k \in PressureIncidents : Delivered(PidOf(ledger.incidents[k].id), "run")
    BY <1>2 DEF Recover
  <2> DEFINE q == PidOf(ledger.incidents[k].id)
  <2>2. q \in Pids
    BY <1>1, IncidentIds DEF PressureIncidents, Ids, PidOf
  <2>3. /\ SamePids /\ \A p \in Pids \ {q} : os'[p] = os[p]
        /\ os'[q].state = "run"
    BY <2>1, <2>2, SignalOne
  <2>4. Later /\ \A p \in Pids : os[p].state = "run" => os'[p].state # "stop"
    BY <2>3, SamePidsLater
  <2>5. /\ pc = "pressure" /\ pc' = "rec_commit"
        /\ UNCHANGED <<ledger, disk, runtimeError, released>>
    BY <1>2 DEF Recover
  <2> QED BY <2>4, <2>5, CoolActs DEF Acting, Steps
<1>3. CASE RecoverCommit
  <2> DEFINE l == Transition(ClearStopped(ledger, op.id), op.id, "resumed", FALSE)
  <2>1. /\ op.id \in Ids /\ pc = "rec_commit" /\ pc' = "idle"
        /\ UNCHANGED <<os, released>>
    BY <1>3, RecoverMarks DEF RecoverCommit
  <2>2. l \in Ledgers /\ l.cooldown = ledger.cooldown
    BY <1>1, <2>1, ReleasedCooldown, SettledMarks DEF Statuses, ClosedStatus
  <2>3. /\ Saved(l) \/ NotSaved(l)
        /\ runtimeError' = runtimeError \/ runtimeError' = TRUE
    BY <1>3 DEF RecoverCommit
  <2> HIDE DEF l
  <2>4. /\ ledger'.cooldown = ledger.cooldown
        /\ disk' = disk \/ (disk' = ledger' /\ ~runtimeError)
    BY <2>2, <2>3, WrittenOnce
  <2>5. Later /\ \A p \in Pids : os[p].state = "run" => os'[p].state # "stop"
    BY <2>1, SamePidsLater DEF SamePids
  <2>6. runtimeError => runtimeError'
    BY <2>3, Zenon
  <2> QED BY <2>1, <2>4, <2>5, <2>6, CoolActs DEF Acting, Steps
<1>4. CASE PressureIdle
  <2>1. /\ pc \in {"pressure", "last_resort"} /\ pc' = "idle"
        /\ UNCHANGED <<os, ledger, disk, runtimeError, released>>
    BY <1>4 DEF PressureIdle
  <2>2. Later /\ \A p \in Pids : os[p].state = "run" => os'[p].state # "stop"
    BY <2>1, SamePidsLater DEF SamePids
  <2> QED BY <2>1, <2>2, CoolActs DEF Acting, Steps
<1> QED BY <1>2, <1>3, <1>4 DEF Pressure

-----------------------------------------------------------------------------
LEMMA DurableStep ==
    TypeInv /\ DurableInv /\ [Next]_vars => DurableInv'
<1>1. ASSUME DurableInv, UNCHANGED vars PROVE DurableInv'
  BY <1>1 DEF DurableInv, UnwindingPids, OnProbation, vars
<1> QED BY <1>1, ReconcileDurable, ControlDurable, SuspendDurable,
           ProbationDurable, PressureDurable, OutsideDurable DEF Next, Daemon

LEMMA CoolStep ==
    TypeInv /\ BookInv /\ DurableInv /\ CoolInv /\ [Next]_vars => CoolInv'
<1> SUFFICES ASSUME TypeInv, BookInv, DurableInv, CoolInv, [Next]_vars
             PROVE  CoolInv'
  OBVIOUS
<1>1. TypeInv'
  BY StepType
<1>2. CASE UNCHANGED vars
  <2>1. Freed' = Freed
    BY <1>2 DEF Freed, vars
  <2> QED BY <1>2, <2>1 DEF CoolInv, FileKnows, Gathering, GoneIsGone, Cooling,
                            Healthy, vars
<1> QED BY <1>1, <1>2, ReconcileCool, ControlCool, SuspendCool, ProbationCool,
           PressureCool, EnvironmentCool, BetweenCool, CrashCool DEF Next, Daemon

(* A pause starts with a process that is not cooling down, and by then every  *)
(* released process that lives is.                                           *)
LEMMA PauseIsOfOthers ==
    ASSUME TypeInv, CoolInv, Next, pc' = "sus_record", pc # "sus_record"
    PROVE  op'.id \notin released
<1>1. \E p \in Pids : DetectRunaway(p) \/ PressurePause(p) \/ LastResort(p)
  <2>1. AfterProbation => pc' # "sus_record"
    BY DEF AfterProbation
  <2>2. ~(TickStart \/ Reconcile \/ Control)
    BY DEF TickStart, Reconcile, ReconcileUnverified, ReconcileGone,
           ReconcileResumed, ReconcileKept, ReconcileFinish, Visit,
           Control, ControlList, ControlRefuse, ControlIntent, ControlSignal,
           ControlSignalRefused, ControlCommit, ControlAnswer, ControlRemove,
           ControlDone
  <2>3. ~(Probation \/ Pressure)
    BY <2>1 DEF Probation, ProbationIdle, ProbationGone, ProbationPrepare,
           ProbationResume, ProbationCommit, ProbationRollback,
           ProbationRolledBack, Relapse, RelapseRecord, RelapseRollback,
           RelapseUndone, ProbationComplete, Pressure, Recover, RecoverCommit,
           PressureIdle
  <2>4. ~(Crash \/ Restart \/ Environment \/ OtherSave)
    BY DEF Crash, Restart, Environment, Exit, Reuse, ExternalResume, Submit,
           Day, OtherSave, daemonVars
  <2>5. ~(DetectNone \/ SuspendRecord \/ SuspendRollback \/ SuspendNotified
            \/ SuspendUnseen \/ SuspendUnseenPersist)
    BY DEF DetectNone, SuspendRecord, SuspendRollback, SuspendNotified,
           SuspendUnseen, SuspendUnseenPersist, SuspendReturns
  <2> QED BY <2>2, <2>3, <2>4, <2>5 DEF Next, Daemon, Suspend
<1>2. PICK p \in Pids : /\ op'.id = <<p, seen[p]>> /\ Live(<<p, seen[p]>>)
                        /\ <<p, seen[p]>> \notin ledger.cooldown /\ ~runtimeError
                        /\ pc \in {"detect", "pressure", "last_resort"}
  BY <1>1 DEF DetectRunaway, PressurePause, LastResort, Eligible, Stop
<1>3. Lively(os, <<p, seen[p]>>)
  BY <1>2 DEF Live, Alive, PidOf, Lively
<1> QED BY <1>2, <1>3 DEF CoolInv, Cooling, Freed, Acting, Steps

(* A process its owner has resumed is not picked for a new pause before its   *)
(* cooldown ends, whatever crashes, cannot be written or is refused between   *)
(* the owner's signal and the record of it.                                  *)
THEOREM OwnerIsRespected == Spec => OwnerResumeRespected
<1>1. Init => TypeInv /\ BookInv /\ DurableInv /\ CoolInv
  <2>1. Init => DurableInv
    BY DEF Init, DurableInv, EmptyLedger
  <2>2. Init => CoolInv
    BY DEF Init, CoolInv, FileKnows, Gathering, GoneIsGone, Cooling, Healthy,
           Freed, Acting
  <2> QED BY <2>1, <2>2, InitType, BooksAlways
<1>2. TypeInv /\ BookInv /\ DurableInv /\ CoolInv /\ [Next]_vars =>
        TypeInv' /\ BookInv' /\ DurableInv' /\ CoolInv'
  BY StepType, BooksAlways, DurableStep, CoolStep
<1>3. TypeInv /\ CoolInv /\ [Next]_vars =>
        [pc' = "sus_record" /\ pc # "sus_record" => op'.id \notin released]_vars
  BY PauseIsOfOthers
<1> QED BY <1>1, <1>2, <1>3, PTL DEF Spec, OwnerResumeRespected

=============================================================================
