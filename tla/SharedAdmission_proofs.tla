----------------------- MODULE SharedAdmission_proofs -----------------------
(***************************************************************************)
(* Theorems about SharedAdmission, for any set of kernels, any readings    *)
(* and any number of faults and uses of the power switch.                  *)
(***************************************************************************)
EXTENDS SharedAdmission, TLAPS

(* A daemon that writes, renews its lease or publishes has the snapshot of   *)
(* its tick in hand.                                                         *)
InHand == \A k \in Kernels : pc[k] \in {"write", "lease", "publish"} => snap[k] # None

TypeInv == AdmissionTypeOK /\ InHand

(* What a tick found calm and has not written yet is no older than its time  *)
(* to live says: had a danger been published before, it would not be calm.   *)
SnapLags ==
    \A k \in Kernels :
      snap[k] # None /\ snap[k].merged = Green /\ snap[k].expires > 0
        => warned + snap[k].expires <= LeaseFor

LagInv == TypeInv /\ LeaseLags /\ SnapLags

(* A daemon that is being turned off stays down while the owner looks again, *)
(* and a process is stopped without a record only by a daemon about to write *)
(* one, or by one that ended before it could.                                *)
Stopping ==
    \A k \in Kernels :
      /\ op[k] \in {"unlease", "recheck"} => pc[k] = "down" /\ ~service[k]
      /\ op[k] \in {"stop", "unlease", "recheck"} => marker[k]
      /\ op[k] = "recheck" => lease[k] = 0
      /\ off[k] # None => op[k] \in {"clear", "peer", "idle"} /\ ~service[k]
      /\ held[k] = "signalled" => pc[k] = "pausing" \/ lost[k]

OffInv == TypeInv /\ OffHolds /\ Stopping

-----------------------------------------------------------------------------
(* Levels. *)

LEMMA LevelMax ==
    ASSUME NEW S \in SUBSET Level, S # {}
    PROVE  /\ Max(S) \in S
           /\ \A x \in S : Max(S) >= x
<1>1. \E x \in S : \A y \in S : x >= y
  <2>1. CASE 3 \in S
    BY <2>1 DEF Level
  <2>2. CASE 3 \notin S /\ 2 \in S
    BY <2>2 DEF Level
  <2>3. CASE 3 \notin S /\ 2 \notin S /\ 1 \in S
    BY <2>3 DEF Level
  <2>4. CASE 3 \notin S /\ 2 \notin S /\ 1 \notin S
    <3>1. \A x \in S : x = 0
      BY <2>4 DEF Level
    <3> QED BY <3>1
  <2> QED BY <2>1, <2>2, <2>3, <2>4
<1> QED BY <1>1 DEF Max

LEMMA PeerLevel == AdmissionTypeOK => PeerLevels \in SUBSET Level
BY DEF AdmissionTypeOK, PeerLevels, Fresh

(* What a tick merges is a level, and GREEN only when every peer is.         *)
LEMMA MergedLevel ==
    ASSUME AdmissionTypeOK, NEW l \in Level
    PROVE  /\ Merged(l) \in Level
           /\ Merged(l) = Green => PeerLevels \subseteq {Green}
<1> DEFINE S == PeerLevels \union {l}
<1>1. S \in SUBSET Level /\ S # {}
  BY PeerLevel
<1>2. Max(S) \in S /\ \A x \in S : Max(S) >= x
  BY <1>1, LevelMax
<1>3. Merged(l) = Max(S)
  BY DEF Merged
<1> HIDE DEF S
<1>4. Merged(l) = Green => \A x \in S : x = Green
  BY <1>1, <1>2, <1>3 DEF Level, Green
<1> QED BY <1>1, <1>2, <1>3, <1>4 DEF S

-----------------------------------------------------------------------------
(* One lemma per group of actions; `warned` is common to all steps. *)
LEMMA TypeStep ==
    ASSUME TypeInv, NEW k \in Kernels, Step(k) \/ Owner(k), Warned(FALSE)
    PROVE  TypeInv'
<1> USE AdmissionAssumption DEF TypeInv, InHand, AdmissionTypeOK
<1>w. warned' \in Nat
  BY DEF Warned
<1>1. CASE Top(k)
  BY <1>1, <1>w DEF Top, At, files, power
<1>2. CASE Exit(k)
  BY <1>2, <1>w DEF Exit, Removed, At, Set, Fault, files, power
<1>22. CASE ExitPeer(k)
  BY <1>22, <1>w DEF ExitPeer, Removed, At, Set, Fault, files, power
<1>3. CASE PauseRecord(k)
  BY <1>3, <1>w DEF PauseRecord, At, Set, Fault, files, power
<1>4. CASE WriteState(k)
  <2>1. CASE UNCHANGED left /\ named' = Set(named, k, TRUE)
    BY <1>4, <1>w, <2>1 DEF WriteState, At, Set, Valid, files, power, Snap
  <2>2. CASE Fault /\ UNCHANGED <<state, named>>
    BY <1>4, <1>w, <2>2 DEF WriteState, At, Fault, power
  <2> QED BY <1>4, <2>1, <2>2 DEF WriteState
<1>5. CASE UpdateLease(k)
  BY <1>5, <1>w DEF UpdateLease, At, Set, Fault, Calm, files, power, Snap
<1>6. CASE Publish(k)
  BY <1>6, <1>w DEF Publish, At, Set, Fault, Valid, files, power, Snap
<1>7. ASSUME NEW r \in Readings, Tick(k, r) PROVE TypeInv'
  <2>1. r.level \in Level /\ r.peer \in Level /\ Merged(r.level) \in Level
    BY MergedLevel
  <2> DEFINE s == [level |-> r.level, peer |-> r.peer, ok |-> TRUE, age |-> 0,
                   merged |-> Merged(r.level), expires |-> LeaseFor]
  <2>2. s \in Snap
    BY <2>1 DEF Snap
  <2>3. snap' = [snap EXCEPT ![k] = s]
    BY <1>7 DEF Tick, Set
  <2>4. /\ pc' = [pc EXCEPT ![k] = "write"] /\ UNCHANGED <<files, held, power, left, lost>>
    BY <1>7 DEF Tick, At
  <2> HIDE DEF s
  <2> QED BY <1>w, <2>2, <2>3, <2>4 DEF files, power
<1>8. CASE Panic(k)
  <2>1. Merged(2) \in Level /\ 2 \in Level
    BY MergedLevel DEF Level
  <2> DEFINE s == [level |-> 2, peer |-> 2, ok |-> FALSE, age |-> 0,
                   merged |-> Merged(2), expires |-> LeaseFor]
  <2>2. s \in Snap
    BY <2>1 DEF Snap
  <2>3. snap' = [snap EXCEPT ![k] = s]
    BY <1>8 DEF Panic, Set
  <2>4. /\ pc' = [pc EXCEPT ![k] = "write"] /\ UNCHANGED <<files, held, power, lost>>
        /\ left' \in [switches : Nat, faults : Nat]
    BY <1>8 DEF Panic, At, Fault
  <2> HIDE DEF s
  <2> QED BY <1>w, <2>2, <2>3, <2>4 DEF files, power
<1>9. CASE Crash(k)
  BY <1>9, <1>w DEF Crash, Fault, Ended, Set, files, power
<1>10. CASE Start(k)
  BY <1>10, <1>w DEF Start, At, files, power
<1>11. CASE PauseSignal(k)
  BY <1>11, <1>w DEF PauseSignal, At, Set, files, power
<1>12. CASE Resume(k)
  BY <1>12, <1>w DEF Resume, Set, files, power
<1>13. CASE OffAsked(k)
  BY <1>13, <1>w DEF OffAsked, Switch, Set, files, power
<1>14. CASE OnAsked(k)
  BY <1>14, <1>w DEF OnAsked, Switch, Set, files, power
<1>15. CASE OffMarked(k)
  <2>1. CASE marker' = Set(marker, k, TRUE) /\ op' = Set(op, k, "stop") /\ UNCHANGED left
    BY <1>15, <1>w, <2>1 DEF OffMarked, Set, files
  <2>2. CASE Fault /\ UNCHANGED marker
    BY <1>15, <1>w, <2>2 DEF OffMarked, Set, Fault, files
  <2> QED BY <1>15, <2>1, <2>2 DEF OffMarked
<1>16. CASE OffStopped(k)
  BY <1>16, <1>w DEF OffStopped, Ended, Set, files, power
<1>17. CASE OffNotStopped(k)
  <2>1. CASE Restart(k)
    BY <1>17, <1>w, <2>1 DEF OffNotStopped, Fault, Restart, Set
  <2>2. CASE op' = Set(op, k, "clear") /\ UNCHANGED <<pc, snap, lost, service, marker, fed, held, off, kept>>
    BY <1>17, <1>w, <2>2 DEF OffNotStopped, Set, Fault
  <2> QED BY <1>17, <2>1, <2>2 DEF OffNotStopped
<1>23. CASE OffUnleased(k)
  BY <1>23, <1>w DEF OffUnleased, Set, Fault
<1>18. CASE OffConfirmed(k)
  BY <1>18, <1>w DEF OffConfirmed, Set, files
<1>19. CASE OffRolledBack(k)
  BY <1>19, <1>w DEF OffRolledBack, Set, Fault, files
<1>24. CASE ClearLease(k)
  BY <1>24, <1>w DEF ClearLease, Removed, Set, Fault
<1>25. CASE ClearPeer(k)
  <2>1. CASE fed' = Set(fed, k, None) /\ UNCHANGED <<kept, left>>
    BY <1>25, <1>w, <2>1 DEF ClearPeer, Set
  <2>2. CASE kept' = Set(kept, k, TRUE) /\ UNCHANGED <<fed, left>>
    BY <1>25, <1>w, <2>2 DEF ClearPeer, Set
  <2>3. CASE Fault /\ kept' = Set(kept, k, TRUE) /\ UNCHANGED fed
    BY <1>25, <1>w, <2>3 DEF ClearPeer, Set, Fault
  <2> QED BY <1>25, <2>1, <2>2, <2>3 DEF ClearPeer
<1>26. CASE TurnOn(k)
  <2>1. ASSUME Restart(k), UNCHANGED left, state' = Set(state, k, None),
               named' = Set(named, k, FALSE), lease' = Set(lease, k, 0)
        PROVE  TypeInv'
    BY <1>w, <2>1 DEF Restart, Set
  <2>2. ASSUME NEW remain \in SUBSET {"marker", "state", "lease"}, Fault,
               marker' = Unless("marker" \in remain, k, marker, FALSE),
               state' = Unless("state" \in remain, k, state, None),
               named' = Unless("state" \in remain, k, named, FALSE),
               lease' = Unless("lease" \in remain, k, lease, 0),
               op' = Set(op, k, IF marker'[k] THEN "clear" ELSE "idle"),
               UNCHANGED <<pc, snap, fed, held, service, off, kept, lost>>
        PROVE  TypeInv'
    BY <1>w, <2>2 DEF Unless, Fault, Set
  <2> QED BY <1>26, <2>1, <2>2 DEF TurnOn
<1>20. CASE OnConfirmed(k)
  BY <1>20, <1>w DEF OnConfirmed, Set, files
<1>21. CASE OnGivenUp(k)
  <2>0. UNCHANGED <<files, held, off, kept>>
    BY <1>21 DEF OnGivenUp
  <2>1. ASSUME marker' = Set(marker, k, TRUE), op' = Set(op, k, "clear"), Ended(k),
               service' = Set(service, k, FALSE), UNCHANGED left
        PROVE  TypeInv'
    BY <1>w, <2>0, <2>1 DEF Ended, files, Set
  <2>2. ASSUME Fault, UNCHANGED <<pc, snap, service, lost>>,
               marker' = Set(marker, k, TRUE), op' = Set(op, k, "clear")
        PROVE  TypeInv'
    BY <1>w, <2>0, <2>2 DEF Fault, files, Set
  <2>3. ASSUME Fault, UNCHANGED <<pc, snap, service, lost, marker>>,
               op' = Set(op, k, "idle")
        PROVE  TypeInv'
    BY <1>w, <2>0, <2>3 DEF Fault, files, Set
  <2> QED BY <1>21, <2>1, <2>2, <2>3 DEF OnGivenUp
<1> HIDE AdmissionAssumption DEF TypeInv, InHand, AdmissionTypeOK
<1> QED BY <1>1, <1>2, <1>3, <1>4, <1>5, <1>6, <1>7, <1>8, <1>9, <1>10, <1>11, <1>12, <1>13, <1>14, <1>15, <1>16, <1>17, <1>18, <1>19, <1>20, <1>21, <1>22, <1>23, <1>24, <1>25, <1>26 DEF Step, Owner, Daemon, Power


LEMMA TypeTime ==
    ASSUME TypeInv, Time, Warned(TRUE)
    PROVE  TypeInv'
<1>1. warned' \in Nat
  BY DEF Warned, TypeInv, AdmissionTypeOK
<1>2. /\ state' \in [Kernels -> [merged : Level, age : Nat] \union {None}]
      /\ fed' \in [Kernels -> [peer : Level, age : Nat] \union {None}]
  <2>1. \A f \in [merged : Level, age : Nat] \union {None} :
          Older(f) \in [merged : Level, age : Nat] \union {None}
    BY DEF Older
  <2>2. \A f \in [peer : Level, age : Nat] \union {None} :
          Older(f) \in [peer : Level, age : Nat] \union {None}
    BY DEF Older
  <2>3. /\ state \in [Kernels -> [merged : Level, age : Nat] \union {None}]
        /\ fed \in [Kernels -> [peer : Level, age : Nat] \union {None}]
    BY DEF TypeInv, AdmissionTypeOK
  <2>4. /\ state' = [k \in Kernels |-> Older(state[k])]
        /\ fed' = [k \in Kernels |-> Older(fed[k])]
    BY DEF Time
  <2> QED BY <2>1, <2>2, <2>3, <2>4
<1>3. lease' \in [Kernels -> Nat]
  <2>1. lease \in [Kernels -> Nat] /\ lease' = [k \in Kernels |-> Sooner(lease[k])]
    BY DEF Time, TypeInv, AdmissionTypeOK
  <2>2. \A n \in Nat : Sooner(n) \in Nat
    BY DEF Sooner
  <2> QED BY <2>1, <2>2
<1>4. ASSUME NEW k \in Kernels, snap[k] # None
      PROVE  /\ snap'[k] \in Snap
             /\ snap'[k].merged = snap[k].merged
             /\ snap'[k].expires = Sooner(snap[k].expires)
  <2>1. snap[k] \in Snap
    BY <1>4 DEF TypeInv, AdmissionTypeOK
  <2>2. Sooner(snap[k].expires) \in Nat
    BY <2>1 DEF Sooner, Snap
  <2> DEFINE age == IF snap[k].age > FreshFor THEN snap[k].age ELSE snap[k].age + 1
  <2>3. age \in Nat
    BY <2>1 DEF Snap
  <2>4. snap'[k] = [snap[k] EXCEPT !.expires = Sooner(snap[k].expires), !.age = age]
    BY <1>4 DEF Time
  <2> HIDE DEF age
  <2> QED BY <2>1, <2>2, <2>3, <2>4 DEF Snap
<1>5. \A k \in Kernels : snap[k] = None => snap'[k] = None
  BY DEF Time
<1>6. snap' \in [Kernels -> Snap \union {None}]
  <2>1. DOMAIN snap' = Kernels /\ snap' = [k \in Kernels |-> snap'[k]]
    BY DEF Time
  <2> QED BY <1>4, <1>5, <2>1
<1>7. pc' = pc
  BY DEF Time
<1>8. InHand'
  BY <1>4, <1>7, AdmissionAssumption DEF TypeInv, InHand
<1>9. UNCHANGED <<named, held, marker, service, op, kept, left, lost>>
  BY DEF Time
<1>10. off' \in [Kernels -> Nat \union {None}]
  <2>1. off \in [Kernels -> Nat \union {None}] /\ FreshFor \in Nat
    BY AdmissionAssumption DEF TypeInv, AdmissionTypeOK
  <2>2. \A n \in Nat \union {None} :
          (IF n = None \/ n > FreshFor THEN n ELSE n + 1) \in Nat \union {None}
    BY <2>1
  <2> QED BY <2>1, <2>2 DEF Time
<1> QED BY <1>1, <1>2, <1>3, <1>6, <1>7, <1>8, <1>9, <1>10 DEF TypeInv, AdmissionTypeOK

LEMMA TypeInit == Init => TypeInv
BY AdmissionAssumption DEF Init, InitWith, TypeInv, AdmissionTypeOK, InHand

LEMMA TypeNext == TypeInv /\ [Next]_vars => TypeInv'
<1> SUFFICES ASSUME TypeInv, [Next]_vars PROVE TypeInv'
  OBVIOUS
<1>1. CASE TimePasses
  BY <1>1, TypeTime DEF TimePasses
<1>2. ASSUME NEW k \in Kernels, Step(k), Warned(FALSE) PROVE TypeInv'
  BY <1>2, TypeStep
<1>3. ASSUME NEW k \in Operated, Owner(k), Warned(FALSE) PROVE TypeInv'
  BY <1>3, TypeStep, AdmissionAssumption
<1>4. CASE UNCHANGED vars
  BY <1>4 DEF vars, files, power, TypeInv, AdmissionTypeOK, InHand
<1> QED BY <1>1, <1>2, <1>3, <1>4 DEF Next

(* In every reachable state every variable has its type, and a daemon that   *)
(* writes has a snapshot to write.                                           *)
THEOREM TypeCorrect == Spec => []AdmissionTypeOK
<1>1. TypeInv => AdmissionTypeOK
  BY DEF TypeInv
<1> QED BY <1>1, TypeInit, TypeNext, PTL DEF Spec

-----------------------------------------------------------------------------
(* Leases. *)

LEMMA WarnedLess ==
    ASSUME AdmissionTypeOK, Warned(FALSE)
    PROVE  warned' \in Nat /\ warned' <= warned
BY DEF Warned, AdmissionTypeOK

(* What a step other than the passing of time does to leases and snapshots.  *)
Shrinks ==
    /\ \A j \in Kernels :
         \/ lease'[j] \in {0, lease[j]}
         \/ snap[j] # None /\ Calm(j) /\ lease'[j] = snap[j].expires
    /\ \A j \in Kernels :
         \/ snap'[j] \in {None, snap[j]}
         \/ /\ UNCHANGED fed /\ snap'[j].expires = LeaseFor
            /\ \E l \in Level : snap'[j].merged = Merged(l)

LEMMA StepShrinks ==
    ASSUME TypeInv, NEW k \in Kernels, Step(k) \/ Owner(k)
    PROVE  Shrinks
<1>t. /\ DOMAIN lease = Kernels /\ DOMAIN snap = Kernels
      /\ pc[k] \in {"write", "lease", "publish"} => snap[k] # None
  BY DEF TypeInv, AdmissionTypeOK, InHand
<1>1. CASE Top(k)
  BY <1>t, <1>1 DEF Top, files, Shrinks
<1>2. CASE Exit(k)
  BY <1>t, <1>2 DEF Exit, Removed, Set, files, Shrinks
<1>22. CASE ExitPeer(k)
  BY <1>t, <1>22 DEF ExitPeer, Set, files, Shrinks
<1>3. CASE PauseRecord(k)
  BY <1>t, <1>3 DEF PauseRecord, Set, files, Shrinks
<1>4. CASE WriteState(k)
  BY <1>t, <1>4 DEF WriteState, Set, files, Shrinks
<1>5. CASE UpdateLease(k)
  BY <1>t, <1>5 DEF UpdateLease, At, Set, files, Shrinks
<1>6. CASE Publish(k)
  BY <1>t, <1>6 DEF Publish, Set, files, Shrinks
<1>7. ASSUME NEW r \in Readings, Tick(k, r) PROVE Shrinks
  BY <1>t, <1>7, AdmissionAssumption DEF Tick, Set, files, Shrinks
<1>8. CASE Panic(k)
  <2>1. 2 \in Level
    BY DEF Level
  <2> QED BY <1>t, <1>8, <2>1 DEF Panic, Set, files, Shrinks
<1>9. CASE Crash(k)
  BY <1>t, <1>9 DEF Crash, Ended, Set, files, Shrinks
<1>10. CASE Start(k)
  BY <1>t, <1>10 DEF Start, files, Shrinks
<1>11. CASE PauseSignal(k)
  BY <1>t, <1>11 DEF PauseSignal, Set, files, Shrinks
<1>12. CASE Resume(k)
  BY <1>t, <1>12 DEF Resume, Set, files, Shrinks
<1>13. CASE OffAsked(k)
  BY <1>t, <1>13 DEF OffAsked, Set, files, Shrinks
<1>14. CASE OnAsked(k)
  BY <1>t, <1>14 DEF OnAsked, files, Shrinks
<1>15. CASE OffMarked(k)
  BY <1>t, <1>15 DEF OffMarked, files, Shrinks
<1>16. CASE OffStopped(k)
  BY <1>t, <1>16 DEF OffStopped, Ended, Set, files, Shrinks
<1>17. CASE OffNotStopped(k)
  BY <1>t, <1>17 DEF OffNotStopped, Restart, Set, Shrinks
<1>23. CASE OffUnleased(k)
  BY <1>t, <1>23 DEF OffUnleased, Set, Shrinks
<1>18. CASE OffConfirmed(k)
  BY <1>t, <1>18 DEF OffConfirmed, files, Shrinks
<1>19. CASE OffRolledBack(k)
  BY <1>t, <1>19 DEF OffRolledBack, files, Shrinks
<1>24. CASE ClearLease(k)
  BY <1>t, <1>24 DEF ClearLease, Removed, Set, Shrinks
<1>25. CASE ClearPeer(k)
  BY <1>t, <1>25 DEF ClearPeer, Shrinks
<1>26. CASE TurnOn(k)
  BY <1>t, <1>26 DEF TurnOn, Restart, Unless, Set, Shrinks
<1>20. CASE OnConfirmed(k)
  BY <1>t, <1>20 DEF OnConfirmed, files, Shrinks
<1>21. CASE OnGivenUp(k)
  BY <1>t, <1>21 DEF OnGivenUp, Ended, Set, files, Shrinks
<1> QED BY <1>1, <1>2, <1>3, <1>4, <1>5, <1>6, <1>7, <1>8, <1>9, <1>10, <1>11, <1>12, <1>13, <1>14, <1>15, <1>16, <1>17, <1>18, <1>19, <1>20, <1>21, <1>22, <1>23, <1>24, <1>25, <1>26 DEF Step, Owner, Daemon, Power

LEMMA LagStep ==
    ASSUME LagInv, NEW k \in Kernels, Step(k) \/ Owner(k), Warned(FALSE)
    PROVE  LagInv'
<1>1. TypeInv'
  BY TypeStep DEF LagInv
<1>2. warned \in Nat /\ warned' \in Nat /\ warned' <= warned
  BY WarnedLess DEF LagInv, TypeInv, AdmissionTypeOK
<1>3. Shrinks
  BY StepShrinks DEF LagInv
<1>4. ASSUME NEW j \in Kernels, lease'[j] > 0 PROVE warned' + lease'[j] <= LeaseFor
  <2>1. CASE lease'[j] = lease[j]
    BY <1>2, <1>4, <2>1, AdmissionAssumption DEF LagInv, LeaseLags, TypeInv, AdmissionTypeOK
  <2>2. CASE snap[j] # None /\ Calm(j) /\ lease'[j] = snap[j].expires
    <3>1. snap[j] \in Snap
      BY <2>2 DEF LagInv, TypeInv, AdmissionTypeOK
    <3>2. warned + snap[j].expires <= LeaseFor
      BY <1>4, <2>2, <3>1 DEF LagInv, SnapLags, Calm
    <3> QED BY <1>2, <2>2, <3>1, <3>2, AdmissionAssumption DEF Snap
  <2> QED BY <1>3, <1>4, <2>1, <2>2 DEF Shrinks
<1>5. ASSUME NEW j \in Kernels, snap'[j] # None, snap'[j].merged = Green,
             snap'[j].expires > 0
      PROVE  warned' + snap'[j].expires <= LeaseFor
  <2>1. CASE snap'[j] = snap[j]
    <3>1. snap[j] \in Snap
      BY <1>5, <2>1 DEF LagInv, TypeInv, AdmissionTypeOK
    <3>2. warned + snap[j].expires <= LeaseFor
      BY <1>5, <2>1 DEF LagInv, SnapLags
    <3> QED BY <1>2, <2>1, <3>1, <3>2, AdmissionAssumption DEF Snap
  <2>2. CASE /\ UNCHANGED fed /\ snap'[j].expires = LeaseFor
             /\ \E l \in Level : snap'[j].merged = Merged(l)
    <3>1. PeerLevels \subseteq {Green}
      BY <1>5, <2>2, MergedLevel DEF LagInv, TypeInv
    <3>2. PeerLevels' = PeerLevels
      BY <2>2 DEF PeerLevels, Fresh
    <3>3. warned' = 0
      BY <3>1, <3>2 DEF Warned
    <3> QED BY <2>2, <3>3, AdmissionAssumption
  <2> QED BY <1>3, <1>5, <2>1, <2>2 DEF Shrinks
<1> QED BY <1>1, <1>4, <1>5 DEF LagInv, LeaseLags, SnapLags

(* Time that passes takes from a lease what it adds to the danger.           *)
LEMMA LagTime ==
    ASSUME LagInv, Time, Warned(TRUE)
    PROVE  LagInv'
<1>1. TypeInv'
  BY TypeTime DEF LagInv
<1>2. warned \in Nat /\ (warned' = 0 \/ warned' = warned \/ warned' = warned + 1)
  BY DEF Warned, LagInv, TypeInv, AdmissionTypeOK
<1>3. \A n \in Nat : Sooner(n) > 0 => Sooner(n) = n - 1 /\ n > 0
  BY DEF Sooner
<1>4. ASSUME NEW j \in Kernels, lease'[j] > 0 PROVE warned' + lease'[j] <= LeaseFor
  <2>1. lease[j] \in Nat /\ lease'[j] = Sooner(lease[j])
    BY DEF Time, LagInv, TypeInv, AdmissionTypeOK
  <2>2. lease[j] > 0 /\ lease'[j] = lease[j] - 1
    BY <1>3, <1>4, <2>1
  <2>3. warned + lease[j] <= LeaseFor
    BY <2>2 DEF LagInv, LeaseLags
  <2> QED BY <1>2, <2>1, <2>2, <2>3, AdmissionAssumption
<1>5. ASSUME NEW j \in Kernels, snap'[j] # None, snap'[j].merged = Green,
             snap'[j].expires > 0
      PROVE  warned' + snap'[j].expires <= LeaseFor
  <2>1. snap[j] # None
    BY <1>5 DEF Time
  <2>2. snap[j] \in Snap
    BY <2>1 DEF LagInv, TypeInv, AdmissionTypeOK
  <2>3. snap'[j].merged = snap[j].merged /\ snap'[j].expires = Sooner(snap[j].expires)
    BY <2>1, <2>2 DEF Time, Snap
  <2>4. snap[j].expires \in Nat
    BY <2>2 DEF Snap
  <2>5. snap[j].expires > 0 /\ snap'[j].expires = snap[j].expires - 1
    BY <1>3, <1>5, <2>3, <2>4
  <2>6. warned + snap[j].expires <= LeaseFor
    BY <1>5, <2>1, <2>3, <2>5 DEF LagInv, SnapLags
  <2> QED BY <1>2, <2>4, <2>5, <2>6, AdmissionAssumption
<1> QED BY <1>1, <1>4, <1>5 DEF LagInv, LeaseLags, SnapLags

LEMMA LagInit == Init => LagInv
BY TypeInit DEF Init, InitWith, LagInv, LeaseLags, SnapLags

LEMMA LagNext == LagInv /\ [Next]_vars => LagInv'
<1> SUFFICES ASSUME LagInv, [Next]_vars PROVE LagInv'
  OBVIOUS
<1>1. CASE TimePasses
  BY <1>1, LagTime DEF TimePasses
<1>2. ASSUME NEW k \in Kernels, Step(k), Warned(FALSE) PROVE LagInv'
  BY <1>2, LagStep
<1>3. ASSUME NEW k \in Operated, Owner(k), Warned(FALSE) PROVE LagInv'
  BY <1>3, LagStep, AdmissionAssumption
<1>4. CASE UNCHANGED vars
  <2>1. TypeInv'
    BY <1>4, TypeNext DEF LagInv
  <2> QED BY <1>4, <2>1 DEF vars, files, LagInv, LeaseLags, SnapLags
<1> QED BY <1>1, <1>2, <1>3, <1>4 DEF Next

(* However a daemon dawdles between its look at the peers and its write, and *)
(* whatever write or removal fails, a lease ends LeaseFor after the first    *)
(* sign of danger at the latest.                                             *)
THEOREM LeasesLag == Spec => []LeaseLags
<1>1. LagInv => LeaseLags
  BY DEF LagInv
<1> QED BY <1>1, LagInit, LagNext, PTL DEF Spec

-----------------------------------------------------------------------------
(* The power switch. *)

LEMMA OffStep ==
    ASSUME OffInv, NEW k \in Kernels, Step(k) \/ Owner(k), Warned(FALSE)
    PROVE  OffInv'
<1>0. TypeInv'
  BY TypeStep DEF OffInv
<1>t. /\ DOMAIN pc = Kernels /\ DOMAIN lease = Kernels /\ DOMAIN fed = Kernels
      /\ DOMAIN held = Kernels /\ DOMAIN marker = Kernels /\ DOMAIN service = Kernels
      /\ DOMAIN op = Kernels /\ DOMAIN off = Kernels /\ DOMAIN lost = Kernels
      /\ DOMAIN kept = Kernels
      /\ held[k] \in {"no", "signalled", "recorded"}
  BY DEF OffInv, TypeInv, AdmissionTypeOK
<1>o. OffHolds /\ Stopping
  BY DEF OffInv
<1> DEFINE Good == OffHolds' /\ Stopping'
<1> SUFFICES Good
  BY <1>0 DEF OffInv
<1>1. CASE Top(k)
  BY <1>t, <1>o, <1>1 DEF Top, At, files, power, OffHolds, Stopping
<1>2. CASE Exit(k)
  BY <1>t, <1>o, <1>2 DEF Exit, Removed, At, Set, files, power, OffHolds, Stopping
<1>22. CASE ExitPeer(k)
  BY <1>t, <1>o, <1>22 DEF ExitPeer, Removed, At, Set, files, power, OffHolds, Stopping
<1>3. CASE PauseRecord(k)
  BY <1>t, <1>o, <1>3 DEF PauseRecord, At, Set, files, power, OffHolds, Stopping
<1>4. CASE WriteState(k)
  BY <1>t, <1>o, <1>4 DEF WriteState, At, Set, files, power, OffHolds, Stopping
<1>5. CASE UpdateLease(k)
  BY <1>t, <1>o, <1>5 DEF UpdateLease, At, Set, files, power, OffHolds, Stopping
<1>6. CASE Publish(k)
  BY <1>t, <1>o, <1>6 DEF Publish, At, Set, files, power, OffHolds, Stopping
<1>7. ASSUME NEW r \in Readings, Tick(k, r) PROVE Good
  BY <1>t, <1>o, <1>7 DEF Tick, At, files, power, OffHolds, Stopping
<1>8. CASE Panic(k)
  BY <1>t, <1>o, <1>8 DEF Panic, At, files, power, OffHolds, Stopping
<1>9. CASE Crash(k)
  BY <1>t, <1>o, <1>9 DEF Crash, Ended, Set, files, power, OffHolds, Stopping
<1>10. CASE Start(k)
  BY <1>t, <1>o, <1>10 DEF Start, At, files, power, OffHolds, Stopping
<1>11. CASE PauseSignal(k)
  BY <1>t, <1>o, <1>11 DEF PauseSignal, At, Set, files, power, OffHolds, Stopping
<1>12. CASE Resume(k)
  BY <1>t, <1>o, <1>12 DEF Resume, Set, files, power, OffHolds, Stopping
<1>13. CASE OffAsked(k)
  BY <1>t, <1>o, <1>13 DEF OffAsked, Set, files, OffHolds, Stopping
<1>14. CASE OnAsked(k)
  BY <1>t, <1>o, <1>14 DEF OnAsked, Set, files, OffHolds, Stopping
<1>15. CASE OffMarked(k)
  BY <1>t, <1>o, <1>15 DEF OffMarked, Set, files, OffHolds, Stopping
<1>16. CASE OffStopped(k)
  BY <1>t, <1>o, <1>16 DEF OffStopped, Ended, Set, files, OffHolds, Stopping
<1>17. CASE OffNotStopped(k)
  <2>1. CASE Restart(k)
    BY <1>t, <1>o, <1>17, <2>1 DEF OffNotStopped, Restart, Set, OffHolds, Stopping
  <2>2. CASE op' = Set(op, k, "clear") /\ UNCHANGED <<pc, snap, lost, service, marker, fed, held, off, kept>>
    BY <1>t, <1>o, <1>17, <2>2 DEF OffNotStopped, Set, OffHolds, Stopping
  <2> QED BY <1>17, <2>1, <2>2 DEF OffNotStopped
<1>23. CASE OffUnleased(k)
  BY <1>t, <1>o, <1>23 DEF OffUnleased, Set, OffHolds, Stopping
<1>18. CASE OffConfirmed(k)
  <2>1. fed[k] # None => fed[k].age \in Nat
    BY DEF OffInv, TypeInv, AdmissionTypeOK
  <2> QED BY <1>t, <1>o, <1>18, <2>1 DEF OffConfirmed, Recorded, Set, files, OffHolds, Stopping
<1>19. CASE OffRolledBack(k)
  BY <1>t, <1>o, <1>19 DEF OffRolledBack, Set, files, OffHolds, Stopping
<1>24. CASE ClearLease(k)
  BY <1>t, <1>o, <1>24 DEF ClearLease, Removed, Set, OffHolds, Stopping
<1>25. CASE ClearPeer(k)
  <2>1. CASE fed' = Set(fed, k, None) /\ UNCHANGED <<kept, left>>
    BY <1>t, <1>o, <1>25, <2>1 DEF ClearPeer, Set, OffHolds, Stopping
  <2>2. CASE kept' = Set(kept, k, TRUE) /\ UNCHANGED fed
    BY <1>t, <1>o, <1>25, <2>2 DEF ClearPeer, Set, OffHolds, Stopping
  <2> QED BY <1>25, <2>1, <2>2 DEF ClearPeer
<1>26. CASE TurnOn(k)
  <2>0. off[k] = None
    BY <1>o, <1>26 DEF TurnOn, Stopping
  <2>1. ASSUME Restart(k), UNCHANGED left, state' = Set(state, k, None),
               named' = Set(named, k, FALSE), lease' = Set(lease, k, 0)
        PROVE  Good
    BY <1>t, <1>o, <2>0, <2>1 DEF Restart, Set, OffHolds, Stopping
  <2>2. ASSUME NEW remain \in SUBSET {"marker", "state", "lease"}, Fault,
               marker' = Unless("marker" \in remain, k, marker, FALSE),
               state' = Unless("state" \in remain, k, state, None),
               named' = Unless("state" \in remain, k, named, FALSE),
               lease' = Unless("lease" \in remain, k, lease, 0),
               op' = Set(op, k, IF marker'[k] THEN "clear" ELSE "idle"),
               UNCHANGED <<pc, snap, fed, held, service, off, kept, lost>>
        PROVE  Good
    BY <1>t, <1>o, <2>0, <2>2 DEF Unless, Set, OffHolds, Stopping
  <2> QED BY <1>26, <2>1, <2>2 DEF TurnOn
<1>20. CASE OnConfirmed(k)
  BY <1>t, <1>o, <1>20 DEF OnConfirmed, Set, files, OffHolds, Stopping
<1>21. CASE OnGivenUp(k)
  <2>0. off[k] = None /\ UNCHANGED <<files, held, off, kept>>
    BY <1>o, <1>21 DEF OnGivenUp, Stopping
  <2>1. ASSUME marker' = Set(marker, k, TRUE), op' = Set(op, k, "clear"), Ended(k),
               service' = Set(service, k, FALSE), UNCHANGED left
        PROVE  Good
    BY <1>t, <1>o, <2>0, <2>1 DEF Ended, files, Set, OffHolds, Stopping
  <2>2. ASSUME Fault, UNCHANGED <<pc, snap, service, lost>>,
               \/ marker' = Set(marker, k, TRUE) /\ op' = Set(op, k, "clear")
               \/ op' = Set(op, k, "idle") /\ UNCHANGED marker
        PROVE  Good
    BY <1>t, <1>o, <2>0, <2>2 DEF files, Set, OffHolds, Stopping
  <2> QED BY <1>21, <2>1, <2>2 DEF OnGivenUp
<1> HIDE DEF Good
<1> QED BY <1>1, <1>2, <1>3, <1>4, <1>5, <1>6, <1>7, <1>8, <1>9, <1>10, <1>11, <1>12, <1>13, <1>14, <1>15, <1>16, <1>17, <1>18, <1>19, <1>20, <1>21, <1>22, <1>23, <1>24, <1>25, <1>26 DEF Step, Owner, Daemon, Power

LEMMA OffTime ==
    ASSUME OffInv, Time, Warned(TRUE)
    PROVE  OffInv'
<1>1. TypeInv'
  BY TypeTime DEF OffInv
<1>2. \A k \in Kernels : lease[k] = 0 => lease'[k] = 0
  BY DEF Time, Sooner
<1>3. UNCHANGED <<pc, held, marker, service, op, kept, lost>>
  BY DEF Time
<1>4. ASSUME NEW k \in Kernels
      PROVE  /\ off'[k] = None <=> off[k] = None
             /\ fed'[k] # None => fed[k] # None
             /\ off[k] # None /\ fed'[k] # None => fed'[k].age >= off'[k]
  <2>1. /\ off[k] \in Nat \union {None} /\ fed[k] \in [peer : Level, age : Nat] \union {None}
        /\ FreshFor \in Nat /\ None \notin Nat
    BY AdmissionAssumption DEF OffInv, TypeInv, AdmissionTypeOK
  <2>2. /\ off'[k] = IF off[k] = None \/ off[k] > FreshFor THEN off[k] ELSE off[k] + 1
        /\ fed'[k] = Older(fed[k])
    BY DEF Time
  <2>3. off[k] # None /\ fed[k] # None => fed[k].age >= off[k]
    BY DEF OffInv, OffHolds
  <2>4. fed'[k] # None => fed[k] # None /\ fed'[k].age = fed[k].age + 1
    BY <2>1, <2>2 DEF Older
  <2> QED BY <2>1, <2>2, <2>3, <2>4
<1> QED BY <1>1, <1>2, <1>3, <1>4 DEF OffInv, OffHolds, Stopping

LEMMA OffInit == Init => OffInv
BY TypeInit DEF Init, InitWith, OffInv, OffHolds, Stopping

LEMMA OffNext == OffInv /\ [Next]_vars => OffInv'
<1> SUFFICES ASSUME OffInv, [Next]_vars PROVE OffInv'
  OBVIOUS
<1>1. CASE TimePasses
  BY <1>1, OffTime DEF TimePasses
<1>2. ASSUME NEW k \in Kernels, Step(k), Warned(FALSE) PROVE OffInv'
  BY <1>2, OffStep
<1>3. ASSUME NEW k \in Operated, Owner(k), Warned(FALSE) PROVE OffInv'
  BY <1>3, OffStep, AdmissionAssumption
<1>4. CASE UNCHANGED vars
  <2>1. TypeInv'
    BY <1>4, TypeNext DEF OffInv
  <2> QED BY <1>4, <2>1 DEF vars, files, power, OffInv, OffHolds, Stopping
<1> QED BY <1>1, <1>2, <1>3, <1>4 DEF Next

(* "Off" is true for as long as the owner does not turn the daemon on again: *)
(* nothing runs, no lease is left, a peer file that could not be removed or  *)
(* found is not renewed and ages out, and only a process whose pause was     *)
(* being recorded when its daemon ended can be left paused.                  *)
THEOREM OffIsOff == Spec => []OffHolds
<1>1. OffInv => OffHolds
  BY DEF OffInv
<1> QED BY <1>1, OffInit, OffNext, PTL DEF Spec

=============================================================================
