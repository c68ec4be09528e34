----------------------- MODULE PressureWindows_proofs -----------------------
(***************************************************************************)
(* Theorems about PressureWindows, for every length of the windows and of  *)
(* the time between two ticks, and any number of faults.                   *)
(***************************************************************************)
EXTENDS PressureWindows, TLAPS

(* While a window is open, what was worse than its target was last seen      *)
(* before the window began.                                                  *)
TargetCovers ==
    betterFor # NoAge =>
        \A a \in Actions : a > target => a \in forgotten \/ lastSeen[a] >= betterFor

HeldInv == TypeOK /\ HeldCovers /\ TargetCovers

-----------------------------------------------------------------------------
LEMMA WindowNat == Window \in Nat /\ Window > 0 /\ Window >= 2 * Reaction
  BY WindowAssumption DEF Window

LEMMA OlderType ==
    ASSUME NEW limit \in Nat, NEW age \in NoAge..limit, NEW dt \in Nat \ {0}
    PROVE  /\ Older(age, dt, limit) \in NoAge..limit
           /\ age # NoAge => Older(age, dt, limit) \in 0..limit
           /\ age # NoAge => Older(age, dt, limit) >= age
           /\ age # NoAge /\ age + dt <= limit => Older(age, dt, limit) = age + dt
           /\ age # NoAge /\ age + dt > limit => Older(age, dt, limit) = limit
  BY DEF Older, NoAge

LEMMA InitHeld == Init => HeldInv
<1> SUFFICES ASSUME Init PROVE HeldInv
  OBVIOUS
<1>1. /\ lastSeen \in [Actions -> 0..Window]
      /\ \A a \in Actions : lastSeen[a] = Window
  BY WindowNat DEF Init
<1>2. HeldCovers /\ TargetCovers
  BY <1>1, WindowNat DEF Init, HeldCovers, TargetCovers
<1>3. faults \in [write : 0..MaxWriteFails, file : 0..MaxFileFails, crash : 0..MaxCrashes]
  BY WindowAssumption DEF Init
<1>4. /\ recoveryFor \in NoAge..(2 * Reaction) /\ criticalFor \in NoAge..(2 * Reaction)
      /\ sinceAction \in 0..Reaction
      /\ betterFor \in NoAge..(Window - 1) /\ betterFor = NoAge
  BY WindowNat, WindowAssumption DEF Init, NoAge
<1>5. held = NoAction /\ onDisk = NoAction /\ target \in Actions /\ proposal \in Actions
  BY DEF Init, Actions, Allow, Drain
<1> QED BY <1>1, <1>2, <1>3, <1>4, <1>5 DEF Init, HeldInv, TypeOK

(* The history of a tick. *)
LEMMA RememberType ==
    ASSUME TypeOK, NEW e \in Evidence, NEW dt \in 1..MaxStep, Remember(e, dt)
    PROVE  /\ e.proposed \in Actions
           /\ proposal' \in Actions /\ due' \in BOOLEAN
           /\ lastSeen' \in [Actions -> 0..Window]
           /\ forgotten' \subseteq Actions
           /\ \A a \in Actions :
                a > e.proposed =>
                    /\ lastSeen'[a] = Older(lastSeen[a], dt, Window)
                    /\ a \in forgotten => a \in forgotten'
<1>1. e.proposed \in Actions
  BY DEF Evidence
<1>2. dt \in Nat \ {0}
  BY WindowAssumption
<1>3. \A a \in Actions : Older(lastSeen[a], dt, Window) \in 0..Window
  <2> TAKE a \in Actions
  <2>1. lastSeen[a] \in 0..Window
    BY DEF TypeOK
  <2>2. lastSeen[a] \in NoAge..Window /\ lastSeen[a] # NoAge
    BY <2>1, WindowNat DEF NoAge
  <2> QED BY <1>2, <2>2, WindowNat, OlderType
<1>4. lastSeen' \in [Actions -> 0..Window]
  BY <1>3, WindowNat DEF Remember
<1>5. \A a \in Actions : a > e.proposed =>
          /\ lastSeen'[a] = Older(lastSeen[a], dt, Window)
          /\ a \in forgotten => a \in forgotten'
  <2> TAKE a \in Actions
  <2> HAVE a > e.proposed
  <2>1. ~(a <= e.proposed)
    BY <1>1 DEF Actions, Allow, Drain
  <2>2. lastSeen'[a] = Older(lastSeen[a], dt, Window)
    BY <2>1 DEF Remember
  <2>3. a \in forgotten => a \in forgotten'
    BY DEF Remember
  <2> QED BY <2>2, <2>3
<1>6. due' \in BOOLEAN /\ forgotten' \subseteq Actions
  BY DEF Remember, TypeOK
<1>7. proposal' \in Actions
  BY <1>1 DEF Remember
<1> QED BY <1>1, <1>4, <1>5, <1>6, <1>7

(* stabilize_assessment keeps its windows, and what it holds covers.         *)
LEMMA StabilizeHeld ==
    ASSUME HeldInv, NEW e \in Evidence, NEW dt \in 1..MaxStep,
           Stabilize(e.proposed, dt), Remember(e, dt)
    PROVE  /\ held' \in Actions
           /\ betterFor' \in NoAge..(Window - 1) /\ target' \in Actions
           /\ betterFor' # NoAge => target' < held'
           /\ HeldCovers' /\ TargetCovers'
<1> DEFINE p == e.proposed
<1>1. /\ p \in Actions
      /\ dt \in Nat \ {0}
      /\ held \in Actions \union {NoAction} /\ target \in Actions
      /\ betterFor \in NoAge..(Window - 1)
      /\ betterFor # NoAge => target < held
  BY RememberType, WindowAssumption DEF HeldInv, TypeOK
<1>2. \A a \in Actions : a > p =>
          /\ lastSeen[a] \in 0..Window
          /\ lastSeen'[a] \in 0..Window
          /\ lastSeen'[a] = Older(lastSeen[a], dt, Window)
          /\ a \in forgotten => a \in forgotten'
  <2>1. lastSeen \in [Actions -> 0..Window] /\ lastSeen' \in [Actions -> 0..Window]
    BY RememberType DEF HeldInv, TypeOK
  <2>2. \A a \in Actions : a > p =>
          /\ lastSeen'[a] = Older(lastSeen[a], dt, Window)
          /\ a \in forgotten => a \in forgotten'
    BY RememberType DEF HeldInv
  <2> QED BY <2>1, <2>2
<1> HIDE DEF p
<1>3. \A a \in Actions : a > p =>
          /\ lastSeen'[a] >= lastSeen[a]
          /\ lastSeen'[a] >= lastSeen[a] + dt \/ lastSeen'[a] >= Window
  <2> TAKE a \in Actions
  <2> HAVE a > p
  <2>1. lastSeen[a] \in NoAge..Window /\ lastSeen[a] # NoAge
    BY <1>2, WindowNat DEF NoAge
  <2>2. lastSeen[a] \in 0..Window /\ lastSeen'[a] = Older(lastSeen[a], dt, Window)
    BY <1>2
  <2>3. \/ lastSeen'[a] = lastSeen[a] + dt
        \/ lastSeen'[a] = Window
    BY <1>1, <2>1, <2>2 DEF Older
  <2> QED BY <1>1, <2>2, <2>3, WindowNat
(* Whatever is worse than held and than the proposal stays covered. *)
<1>4. \A a \in Actions : a > p /\ a > held => a \in forgotten' \/ lastSeen'[a] >= Window
  <2> TAKE a \in Actions
  <2> HAVE a > p /\ a > held
  <2>1. a \in forgotten \/ lastSeen[a] >= Window
    BY DEF HeldInv, HeldCovers
  <2> QED BY <1>2, <1>3, <2>1, WindowNat
(* An open window's target, with the new proposal, covers the older window.  *)
<1>5. /\ BetterAge(dt) \in Nat
      /\ BetterTarget(p) \in Actions
      /\ BetterTarget(p) >= p
      /\ p < held => BetterTarget(p) < held
      /\ \A a \in Actions : a > BetterTarget(p) =>
            a \in forgotten' \/ lastSeen'[a] >= BetterAge(dt) \/ lastSeen'[a] >= Window
  <2>1. CASE betterFor = NoAge
    <3>1. BetterAge(dt) = 0 /\ BetterTarget(p) = p
      BY <2>1 DEF BetterAge, BetterTarget
    <3> QED BY <1>1, <1>2, <3>1 DEF Actions, Allow, Drain
  <2>2. CASE betterFor # NoAge
    <3>1. BetterAge(dt) = betterFor + dt /\ betterFor \in Nat
      BY <1>1, <2>2, WindowNat DEF BetterAge, NoAge
    <3>2. BetterTarget(p) = Worse(target, p)
      BY <2>2 DEF BetterTarget
    <3>3. /\ BetterTarget(p) \in Actions
          /\ BetterTarget(p) >= p /\ BetterTarget(p) >= target
          /\ p < held => BetterTarget(p) < held
      BY <1>1, <2>2, <3>2 DEF Worse, Actions, Allow, Drain, NoAction
    <3>4. ASSUME NEW a \in Actions, a > BetterTarget(p)
          PROVE  a \in forgotten' \/ lastSeen'[a] >= BetterAge(dt) \/ lastSeen'[a] >= Window
      <4>1. a > p /\ a > target
        BY <1>1, <3>3, <3>4 DEF Actions, Allow, Drain
      <4>2. a \in forgotten \/ lastSeen[a] >= betterFor
        BY <2>2, <4>1 DEF HeldInv, TargetCovers
      <4> QED BY <1>1, <1>2, <1>3, <3>1, <4>1, <4>2, WindowNat
    <3> QED BY <1>1, <3>1, <3>3, <3>4
  <2> QED BY <2>1, <2>2
<1>6. CASE Raise(p)
  <2>1. held' = p /\ betterFor' = NoAge /\ target' = Allow /\ p > held
    BY <1>6 DEF Raise
  <2>2. HeldCovers'
    BY <1>1, <1>4, <2>1 DEF HeldCovers, Actions, Allow, Drain, NoAction
  <2> QED BY <1>1, <2>1, <2>2, WindowNat DEF TargetCovers, NoAge, Actions, Allow, Drain
<1>7. CASE Wait(p, dt)
  <2>1. /\ p < held /\ held' = held
        /\ betterFor' = BetterAge(dt) /\ betterFor' < Window
        /\ target' = BetterTarget(p)
    BY <1>7 DEF Wait
  <2>2. held \in Actions
    BY <1>1, <2>1 DEF Actions, Allow, Drain, NoAction
  <2>3. HeldCovers'
    BY <1>1, <1>4, <2>1, <2>2 DEF HeldCovers, Actions, Allow, Drain
  <2>4. TargetCovers'
    <3> SUFFICES ASSUME NEW a \in Actions, a > BetterTarget(p)
                 PROVE  a \in forgotten' \/ lastSeen'[a] >= BetterAge(dt)
      BY <2>1 DEF TargetCovers
    <3>1. lastSeen'[a] \in Nat
      BY <1>1, <1>2, <1>5, WindowNat DEF Actions, Allow, Drain
    <3> QED BY <1>5, <2>1, <3>1, WindowNat
  <2> QED BY <1>5, <2>1, <2>2, <2>3, <2>4, WindowNat DEF NoAge
<1>8. CASE Lower(p, dt)
  <2>1. /\ p < held /\ BetterAge(dt) >= Window
        /\ held' = Worse(BetterTarget(p), p)
        /\ betterFor' = NoAge /\ target' = Allow
    BY <1>8 DEF Lower
  <2>2. held' = BetterTarget(p)
    BY <1>5, <2>1 DEF Worse
  <2>3. HeldCovers'
    <3> SUFFICES ASSUME NEW a \in Actions, a > BetterTarget(p)
                 PROVE  a \in forgotten' \/ lastSeen'[a] >= Window
      BY <2>2 DEF HeldCovers
    <3>1. lastSeen'[a] \in Nat
      BY <1>1, <1>2, <1>5, WindowNat DEF Actions, Allow, Drain
    <3> QED BY <1>5, <2>1, <3>1, WindowNat
  <2> QED BY <1>5, <2>1, <2>2, <2>3, WindowNat DEF TargetCovers, NoAge, Actions, Allow, Drain
<1>9. CASE Keep(p)
  <2>1. p = held /\ held' = held /\ betterFor' = NoAge /\ target' = Allow
    BY <1>9 DEF Keep
  <2>2. HeldCovers'
    BY <1>1, <1>4, <2>1 DEF HeldCovers
  <2> QED BY <1>1, <2>1, <2>2, WindowNat DEF TargetCovers, NoAge, Actions, Allow, Drain
<1> QED BY <1>6, <1>7, <1>8, <1>9 DEF Stabilize, p

(* The rest of a tick keeps its types.                                       *)
LEMMA ProbationType ==
    ASSUME TypeOK, NEW e \in Evidence, Probation(e)
    PROVE  probation' \in BOOLEAN
BY DEF Probation, TypeOK

LEMMA ApplyType ==
    ASSUME TypeOK, NEW e \in Evidence, NEW dt \in 1..MaxStep, Apply(e, dt)
    PROVE  /\ recoveryFor' \in NoAge..(2 * Reaction)
           /\ criticalFor' \in NoAge..(2 * Reaction)
           /\ sinceAction' \in 0..Reaction
           /\ did' \in {"none", "app", "cli", "worker", "lead"}
<1>1. /\ dt \in Nat \ {0}
      /\ Reaction \in Nat /\ 2 * Reaction \in Nat
  BY WindowAssumption
<1>2. /\ recoveryFor \in NoAge..(2 * Reaction)
      /\ criticalFor \in NoAge..(2 * Reaction)
      /\ sinceAction \in 0..Reaction
  BY DEF TypeOK
<1>3. /\ Older(recoveryFor, dt, 2 * Reaction) \in NoAge..(2 * Reaction)
      /\ Older(criticalFor, dt, 2 * Reaction) \in NoAge..(2 * Reaction)
  BY <1>1, <1>2, OlderType
<1>4. Older(sinceAction, dt, Reaction) \in 0..Reaction
  <2>1. sinceAction \in NoAge..Reaction /\ sinceAction # NoAge
    BY <1>1, <1>2 DEF NoAge
  <2> QED BY <1>1, <2>1, OlderType
<1>5. 0 \in NoAge..(2 * Reaction) /\ NoAge \in NoAge..(2 * Reaction) /\ 0 \in 0..Reaction
  BY <1>1 DEF NoAge
<1>6. CASE Skip(e, dt)
  BY <1>3, <1>4, <1>6 DEF Skip
<1>7. CASE Recover(e, dt)
  <2>1. /\ criticalFor' = NoAge
        /\ recoveryFor' = 0 \/ recoveryFor' = Older(recoveryFor, dt, 2 * Reaction)
        /\ sinceAction' = 0 \/ sinceAction' = Older(sinceAction, dt, Reaction)
    BY <1>7 DEF Recover
  <2>2. did' \in {"none", "app", "cli"}
    BY <1>7 DEF Recover
  <2> QED BY <1>3, <1>4, <1>5, <2>1, <2>2
<1>8. CASE Press(e, dt)
  <2>1. /\ recoveryFor' = NoAge
        /\ \/ criticalFor' = NoAge
           \/ criticalFor' = 0
           \/ criticalFor' = Older(criticalFor, dt, 2 * Reaction)
        /\ sinceAction' = 0 \/ sinceAction' = Older(sinceAction, dt, Reaction)
        /\ did' \in {"none", "worker", "lead"}
    BY <1>8 DEF Press
  <2> QED BY <1>3, <1>4, <1>5, <2>1
<1> QED BY <1>6, <1>7, <1>8 DEF Apply

LEMMA SaveType ==
    ASSUME TypeOK, held' \in Actions, Save
    PROVE  /\ onDisk' \in Actions \union {NoAction}
           /\ queued' \in BOOLEAN /\ runtimeError' \in BOOLEAN
           /\ faults' \in [write : 0..MaxWriteFails, file : 0..MaxFileFails,
                           crash : 0..MaxCrashes]
<1>1. /\ faults \in [write : 0..MaxWriteFails, file : 0..MaxFileFails, crash : 0..MaxCrashes]
      /\ held \in Actions \union {NoAction} /\ onDisk \in Actions \union {NoAction}
  BY DEF TypeOK
<1>2. onDisk' \in {held', held, onDisk}
  BY DEF Save
<1>3. onDisk' \in Actions \union {NoAction}
  BY <1>1, <1>2
<1>4. queued' \in BOOLEAN /\ runtimeError' \in BOOLEAN
  BY DEF Save
<1>5. PICK writes \in 0..2, notices \in 0..1 : Fail(writes, notices)
  BY Zenon DEF Save
<1>6. faults' \in [write : 0..MaxWriteFails, file : 0..MaxFileFails, crash : 0..MaxCrashes]
  <2>1. /\ faults.write \in Nat /\ faults.file \in Nat /\ faults.crash \in 0..MaxCrashes
        /\ writes \in Nat /\ notices \in Nat
    BY <1>1
  <2>2. faults.write + writes <= MaxWriteFails /\ faults.file + notices <= MaxFileFails
    BY <1>5 DEF Fail
  <2>3. /\ faults.write + writes \in 0..MaxWriteFails
        /\ faults.file + notices \in 0..MaxFileFails
    BY <2>1, <2>2, WindowAssumption
  <2>4. faults' = [faults EXCEPT !.write = faults.write + writes,
                                 !.file = faults.file + notices]
    BY <1>5 DEF Fail
  <2> QED BY <1>1, <2>3, <2>4
<1> QED BY <1>3, <1>4, <1>6

LEMMA TickHeld == HeldInv /\ Tick => HeldInv'
<1> SUFFICES ASSUME HeldInv, Tick PROVE HeldInv'
  OBVIOUS
<1>1. PICK dt \in 1..MaxStep, e \in Evidence :
        /\ Stabilize(e.proposed, dt)
        /\ Probation(e)
        /\ Apply(e, dt)
        /\ Save
        /\ Remember(e, dt)
        /\ beat' = ~beat
  BY DEF Tick
<1>2. TypeOK
  BY DEF HeldInv
<1>3. /\ held' \in Actions
      /\ betterFor' \in NoAge..(Window - 1) /\ target' \in Actions
      /\ betterFor' # NoAge => target' < held'
      /\ HeldCovers' /\ TargetCovers'
  BY <1>1, StabilizeHeld
<1>4. /\ proposal' \in Actions /\ due' \in BOOLEAN
      /\ lastSeen' \in [Actions -> 0..Window]
      /\ forgotten' \subseteq Actions
  BY <1>1, <1>2, RememberType
<1>5. probation' \in BOOLEAN
  BY <1>1, <1>2, ProbationType
<1>6. /\ recoveryFor' \in NoAge..(2 * Reaction)
      /\ criticalFor' \in NoAge..(2 * Reaction)
      /\ sinceAction' \in 0..Reaction
      /\ did' \in {"none", "app", "cli", "worker", "lead"}
  BY <1>1, <1>2, ApplyType
<1>7. /\ onDisk' \in Actions \union {NoAction}
      /\ queued' \in BOOLEAN /\ runtimeError' \in BOOLEAN
      /\ faults' \in [write : 0..MaxWriteFails, file : 0..MaxFileFails,
                      crash : 0..MaxCrashes]
  BY <1>1, <1>2, <1>3, SaveType
<1>8. beat' \in BOOLEAN
  BY <1>1
<1>9. TypeOK'
  BY <1>3, <1>4, <1>5, <1>6, <1>7, <1>8 DEF TypeOK
<1> QED BY <1>3, <1>9 DEF HeldInv

(* A restart may only lose what it adds to forgotten.                        *)
LEMMA RestartHeld == HeldInv /\ Restart => HeldInv'
<1> SUFFICES ASSUME HeldInv, Restart PROVE HeldInv'
  OBVIOUS
<1>1. /\ held \in Actions \union {NoAction} /\ onDisk \in Actions \union {NoAction}
      /\ lastSeen \in [Actions -> 0..Window]
      /\ sinceAction \in 0..Reaction
      /\ faults \in [write : 0..MaxWriteFails, file : 0..MaxFileFails, crash : 0..MaxCrashes]
  BY DEF HeldInv, TypeOK
<1>2. HeldCovers'
  <2> SUFFICES ASSUME NEW a \in Actions, a > onDisk
               PROVE  a \in forgotten' \/ lastSeen'[a] >= Window
    BY DEF Restart, HeldCovers
  <2>1. CASE a > held
    BY <2>1 DEF HeldInv, HeldCovers, Restart
  <2>2. CASE ~(a > held)
    <3>1. onDisk < a /\ a <= held
      BY <1>1, <2>2 DEF Actions, Allow, Drain, NoAction
    <3> QED BY <3>1 DEF Restart
  <2> QED BY <2>1, <2>2
<1>3. /\ betterFor' = NoAge /\ recoveryFor' = NoAge /\ criticalFor' = NoAge
      /\ NoAge \in NoAge..(Window - 1) /\ NoAge \in NoAge..(2 * Reaction)
  BY WindowNat, WindowAssumption DEF Restart, NoAge
<1>4. TargetCovers'
  BY <1>3 DEF TargetCovers
<1>5. sinceAction' \in 0..Reaction
  BY <1>1, WindowAssumption DEF Restart
<1>6. faults' \in [write : 0..MaxWriteFails, file : 0..MaxFileFails, crash : 0..MaxCrashes]
  <2>1. faults.crash < MaxCrashes /\ faults' = [faults EXCEPT !.crash = faults.crash + 1]
    BY DEF Restart
  <2> QED BY <1>1, <2>1, WindowAssumption
<1>7. /\ held' \in Actions \union {NoAction} /\ onDisk' \in Actions \union {NoAction}
      /\ target' \in Actions /\ proposal' \in Actions
      /\ forgotten' \subseteq Actions
      /\ lastSeen' \in [Actions -> 0..Window]
  BY <1>1 DEF Restart, HeldInv, TypeOK, Actions, Allow, Drain
<1>8. /\ probation' \in BOOLEAN /\ queued' \in BOOLEAN /\ runtimeError' \in BOOLEAN
      /\ due' \in BOOLEAN /\ beat' \in BOOLEAN
      /\ did' \in {"none", "app", "cli", "worker", "lead"}
  BY DEF Restart, HeldInv, TypeOK
<1>9. TypeOK'
  BY <1>3, <1>5, <1>6, <1>7, <1>8 DEF TypeOK
<1> QED BY <1>2, <1>4, <1>9 DEF HeldInv

LEMMA NextHeld == HeldInv /\ [Next]_vars => HeldInv'
<1>1. HeldInv /\ UNCHANGED vars => HeldInv'
  BY DEF HeldInv, TypeOK, HeldCovers, TargetCovers, vars, windowVars, pressureVars
<1> QED BY <1>1, TickHeld, RestartHeld DEF Next

(* Every age stays within its window and every window of recovery is for     *)
(* something milder than what is held.                                       *)
THEOREM TypeCorrect == Spec => []TypeOK
<1>1. HeldInv => TypeOK
  BY DEF HeldInv
<1> QED BY InitHeld, NextHeld, <1>1, PTL DEF Spec

(* stabilize_assessment never holds less than what was proposed within the   *)
(* recovery window, in whatever order the proposals come and however often   *)
(* the daemon restarts, but for what a restart could not know.               *)
THEOREM HeldAlwaysCovers == Spec => []HeldCovers
<1>1. HeldInv => HeldCovers
  BY DEF HeldInv
<1> QED BY InitHeld, NextHeld, <1>1, PTL DEF Spec

(* A CLI process is resumed only in a tick that holds Observe at most, and   *)
(* what is worse than that is covered.                                       *)
LEMMA NextCalm == HeldInv /\ ResumeAfterCalm /\ [Next]_vars => ResumeAfterCalm'
<1> SUFFICES ASSUME HeldInv, ResumeAfterCalm, [Next]_vars, did' = "cli"
             PROVE  Hold \in forgotten' \/ lastSeen'[Hold] >= Window
  BY DEF ResumeAfterCalm
<1>1. CASE Tick
  <2>1. PICK dt \in 1..MaxStep, e \in Evidence : Apply(e, dt)
    BY <1>1 DEF Tick
  <2>2. Recover(e, dt)
    BY <2>1 DEF Apply, Skip, Press
  <2>3. GloballySafe(e)
    BY <2>2 DEF Recover
  <2>4. HeldInv'
    BY <1>1, TickHeld
  <2>5. Hold \in Actions /\ Hold > held'
    BY <2>3, <2>4 DEF GloballySafe, HeldInv, TypeOK, Actions, NoAction, Allow, Observe, Hold, Drain
  <2> QED BY <2>4, <2>5 DEF HeldInv, HeldCovers
<1>2. CASE Restart
  BY <1>2 DEF Restart
<1>3. CASE UNCHANGED vars
  BY <1>3 DEF ResumeAfterCalm, vars, windowVars, pressureVars
<1> QED BY <1>1, <1>2, <1>3 DEF Next

(* Either a change has its notice in the queue, or the notice was lost.      *)
LEMMA NextSaved == HeldInv /\ ChangeSaved /\ [Next]_vars => ChangeSaved'
<1> SUFFICES ASSUME HeldInv, ChangeSaved, [Next]_vars PROVE ChangeSaved'
  OBVIOUS
<1>1. CASE Tick
  <2>1. faults.file \in Nat
    BY WindowAssumption DEF HeldInv, TypeOK
  <2>2. PICK writes \in 0..2, notices \in 0..1 :
          /\ Fail(writes, notices)
          /\ notices = 1 => Announced
          /\ \E drained, degrades \in BOOLEAN, late \in {"none", "saved", "failed"} :
              /\ onDisk' = IF late = "saved" THEN held' ELSE IF drained THEN held ELSE onDisk
              /\ queued' = ((queued /\ ~drained) \/ (Announced /\ notices = 0))
    <3>1. Save
      BY <1>1 DEF Tick
    <3> QED BY <3>1 DEF Save
  <2>3. PICK drained \in BOOLEAN, late \in {"none", "saved", "failed"} :
          /\ onDisk' = IF late = "saved" THEN held' ELSE IF drained THEN held ELSE onDisk
          /\ queued' = ((queued /\ ~drained) \/ (Announced /\ notices = 0))
    BY <2>2
  <2>4. faults'.file = faults.file + notices
    <3>1. faults \in [write : 0..MaxWriteFails, file : 0..MaxFileFails,
                      crash : 0..MaxCrashes]
      BY DEF HeldInv, TypeOK
    <3>2. faults' = [faults EXCEPT !.write = faults.write + writes,
                                   !.file = faults.file + notices]
      BY <2>2 DEF Fail
    <3> QED BY <3>1, <3>2
  <2>5. CASE queued' \/ faults'.file > 0
    BY <2>5 DEF ChangeSaved
  <2>6. CASE ~queued' /\ ~(faults'.file > 0)
    <3>1. notices = 0 /\ ~(faults.file > 0)
      BY <2>1, <2>4, <2>6
    <3>2. ~Announced /\ ~(queued /\ ~drained)
      BY <2>3, <2>6, <3>1
    <3>3. held' = held \/ (held = NoAction /\ held' = Allow)
      BY <3>2 DEF Announced
    <3>4. onDisk' = held' \/ onDisk' = held \/ onDisk' = onDisk
      BY <2>3
    <3>5. CASE drained
      BY <2>3, <3>3, <3>5 DEF ChangeSaved
    <3>6. CASE ~drained
      <4>1. onDisk = held \/ (onDisk = NoAction /\ held = Allow)
        BY <3>1, <3>2, <3>6 DEF ChangeSaved
      <4> QED BY <3>3, <3>4, <4>1 DEF ChangeSaved, NoAction, Allow
    <3> QED BY <3>5, <3>6
  <2> QED BY <2>5, <2>6
<1>2. CASE Restart
  BY <1>2 DEF Restart, ChangeSaved
<1>3. CASE UNCHANGED vars
  BY <1>3 DEF ChangeSaved, vars, windowVars
<1> QED BY <1>1, <1>2, <1>3 DEF Next

(* apply_pressure_actions resumes no CLI process within a window of the last *)
(* reason to hold new work, whatever started its own recovery window.        *)
THEOREM ResumesAfterCalm == Spec => []ResumeAfterCalm
<1>1. Init => ResumeAfterCalm
  BY DEF Init, ResumeAfterCalm
<1> QED BY InitHeld, NextHeld, NextCalm, <1>1, PTL DEF Spec

(* A change of the held action is on disk, or its notice is queued and the   *)
(* drain of the next tick saves both: unless the notice could not be queued. *)
THEOREM ChangesAreSaved == Spec => []ChangeSaved
<1>1. Init => ChangeSaved
  BY DEF Init, ChangeSaved
<1> QED BY InitHeld, NextHeld, NextSaved, <1>1, PTL DEF Spec
=============================================================================
