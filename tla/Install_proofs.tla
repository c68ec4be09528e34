--------------------------- MODULE Install_proofs ---------------------------
(***************************************************************************)
(* Theorems about the installation: HookInstall, for any writers, any      *)
(* hooks of other programs and any number of edits and faults, and         *)
(* InstallNames, for anything earlier releases left and any number of      *)
(* runs that fail or are killed.                                           *)
(***************************************************************************)
EXTENDS HookInstall, InstallNames, FiniteSetTheorems, TLAPS

(* A writer about to write has a backup of what it will take away.          *)
WritesSaved ==
    \A a \in Writers :
        at[a] = "write" => Foreigners(hooks) \intersect kept \subseteq saved \union late

-----------------------------------------------------------------------------
(* The settings file.  Nothing a writer makes of it adds or drops a hook of *)
(* another program.                                                         *)

LEMMA StrippedFile ==
    ASSUME NEW f \in HookFiles
    PROVE  Stripped(f) \in HookFiles /\ Foreigners(Stripped(f)) = Foreigners(f)
BY DEF HookFiles, Stripped, Foreigners, Absent, Routes, Sides

LEMMA RouteType ==
    ASSUME NEW p, NEW s \in Sides, NEW own \in [Sides -> Routes]
    PROVE  DesiredRoute(p, s, own) \in [Sides -> Routes]
BY DEF DesiredRoute, CodexRoute, Routes, Sides

LEMMA UpdatedFile ==
    ASSUME NEW p, NEW s \in Sides, NEW v, NEW f \in HookFiles
    PROVE  /\ Updated(p, s, v, f) \in HookFiles
           /\ Foreigners(Updated(p, s, v, f)) = Foreigners(f)
<1>1. Stripped(f) \in HookFiles /\ Foreigners(Stripped(f)) = Foreigners(f)
  BY StrippedFile
<1>2. DesiredRoute(p, s, f.own) \in [Sides -> Routes]
  BY RouteType DEF HookFiles
<1>3. CASE v = "install"
  <2>1. PICK o : o = DesiredRoute(p, s, f.own)
    OBVIOUS
  <2>2. PICK g : g = Stripped(f)
    OBVIOUS
  <2>3. Updated(p, s, v, f) = [g EXCEPT !.own = o, !.shape = "object"]
    BY <1>3, <2>1, <2>2 DEF Updated
  <2> QED BY <1>1, <1>2, <2>1, <2>2, <2>3 DEF HookFiles, Foreigners, Shapes
<1>4. CASE v # "install"
  BY <1>1, <1>4 DEF Updated
<1> QED BY <1>3, <1>4

LEMMA EditedFile ==
    ASSUME NEW f \in HookFiles, NEW h \in Foreign
    PROVE  LET added == [f EXCEPT !.shape = "object", !.before = @ \union {h}]
               last == [f EXCEPT !.after = @ \union {h}]
               beside == [f EXCEPT !.mixed = {h}]
               less == [f EXCEPT !.before = @ \ {h}, !.mixed = @ \ {h}, !.after = @ \ {h}]
               twice == [f EXCEPT !.twin = TRUE]
           IN  /\ added \in HookFiles /\ Foreigners(added) = Foreigners(f) \union {h}
               /\ last \in HookFiles /\ Foreigners(last) = Foreigners(f) \union {h}
               /\ beside \in HookFiles
               /\ f.mixed = {} => Foreigners(beside) = Foreigners(f) \union {h}
               /\ less \in HookFiles /\ Foreigners(less) = Foreigners(f) \ {h}
               /\ twice \in HookFiles /\ Foreigners(twice) = Foreigners(f)
BY DEF HookFiles, Foreigners, Shapes

LEMMA ForeignersType ==
    ASSUME NEW f \in HookFiles
    PROVE  Foreigners(f) \in SUBSET Foreign
BY DEF HookFiles, Foreigners

(* The place of our group is one that config.toml can have an entry for.    *)
LEMMA PlaceType ==
    ASSUME NEW f \in HookFiles
    PROVE  Cardinality(f.before) \in Positions
<1>1. f.before \in SUBSET Foreign /\ IsFiniteSet(Foreign)
  BY HookAssumption DEF HookFiles
<1>2. /\ IsFiniteSet(f.before) /\ Cardinality(f.before) <= Cardinality(Foreign)
  BY <1>1, FS_Subset
<1>3. Cardinality(f.before) \in Nat /\ Cardinality(Foreign) \in Nat
  BY <1>1, <1>2, FS_CardinalityType
<1> QED BY <1>2, <1>3 DEF Positions

LEMMA NoHooksFile == NoHooks \in HookFiles
BY DEF NoHooks, HookFiles, Absent, Shapes, Routes, Sides

LEMMA SideType == \A a \in Writers : Side[a] \in Sides
BY HookAssumption
-----------------------------------------------------------------------------
(* HookInstall: its variables have their types. *)

LEMMA FaultType ==
    ASSUME HookTypeOK, Fault
    PROVE  hookLeft' \in HookBudgets
BY DEF HookTypeOK, Fault, HookBudgets

LEMMA EditType ==
    ASSUME HookTypeOK, Edit
    PROVE  hookLeft' \in HookBudgets
BY DEF HookTypeOK, Edit, HookBudgets

LEMMA GotoType ==
    ASSUME HookTypeOK, NEW a \in Writers, NEW step \in HookSteps, Goto(a, step)
    PROVE  at' \in [Writers -> HookSteps]
BY DEF HookTypeOK, Goto

LEMMA EnterType ==
    ASSUME HookTypeOK, NEW a \in Writers, NEW v \in {"install", "remove", "uninstall"},
           Enter(a, v)
    PROVE  /\ at' \in [Writers -> HookSteps]
           /\ verb' \in [Writers -> {"install", "remove", "uninstall"}]
<1>1. PICK step \in {"failed", "lock", "load"} : Goto(a, step)
  BY DEF Enter
<1>2. step \in HookSteps
  BY DEF HookSteps, Locked
<1>3. at' \in [Writers -> HookSteps]
  BY <1>1, <1>2, GotoType
<1>4. verb' = [verb EXCEPT ![a] = v]
  BY DEF Enter
<1> QED BY <1>3, <1>4 DEF HookTypeOK

LEMMA ForgetType ==
    ASSUME HookTypeOK, NEW a \in Writers, Forget(a)
    PROVE  view' \in [Writers -> HookFiles] /\ edited' \in [Writers -> BOOLEAN]
BY NoHooksFile DEF HookTypeOK, Forget

LEMMA RemoveLockType ==
    ASSUME HookTypeOK, NEW a \in Writers, RemoveLock(a)
    PROVE  /\ lock' \in [by: Writers \union {Nobody}, old: BOOLEAN]
           /\ robbed' \in BOOLEAN
           /\ hookLeft' \in HookBudgets
<1>1. CASE Fault /\ UNCHANGED lockVars
  BY <1>1, FaultType DEF lockVars, HookTypeOK
<1>2. CASE /\ lock' = [by |-> Nobody, old |-> FALSE]
           /\ robbed' = (robbed \/ (Holding /\ lock.by # a))
           /\ UNCHANGED hookLeft
  BY <1>2 DEF HookTypeOK, Holding
<1> QED BY <1>1, <1>2 DEF RemoveLock

LEMMA HookTypeInit == HooksInit => HookTypeOK
<1> SUFFICES ASSUME NEW start \in HookStarts, HooksInitWith(start)
             PROVE  HookTypeOK
  BY DEF HooksInit
<1>1. start \in [provider: Providers, hooks: HookFiles, cli: [Sides -> SUBSET Answers],
                 approved: BOOLEAN, absent: SUBSET Writers, edits: Nat, faults: Nat]
  BY HookAssumption
<1>2. /\ start.provider \in Providers /\ start.hooks \in HookFiles
      /\ start.cli \in [Sides -> SUBSET Answers]
      /\ start.edits \in Nat /\ start.faults \in Nat
      /\ start.hooks.own \in [Sides -> Routes]
  BY <1>1 DEF HookFiles
<1>3. provider \in Providers /\ hooks \in HookFiles /\ cli \in [Sides -> SUBSET Answers]
  BY <1>2 DEF HooksInitWith
<1>4. trust \in [Sides -> [Positions -> Trusts]]
  <2>1. trust = Approval(start)
    BY DEF HooksInitWith
  <2>2. \A s \in Sides, i \in Positions :
          [on |-> TRUE,
           route |-> IF start.approved /\ i = Cardinality(start.hooks.before)
                     THEN start.hooks.own[s] ELSE "none"] \in Trusts
    BY <1>2 DEF Trusts, Routes
  <2> QED BY <2>1, <2>2 DEF Approval
<1>5. /\ running \in [Sides -> BOOLEAN]
      /\ lock \in [by: Writers \union {Nobody}, old: BOOLEAN]
      /\ verb \in [Writers -> {"install", "remove", "uninstall"}]
      /\ saved \subseteq Foreign /\ late \subseteq Foreign
      /\ shown \in [Daemons -> Verdicts]
      /\ robbed \in BOOLEAN
      /\ edited \in [Writers -> BOOLEAN]
  BY DEF HooksInitWith, Verdicts
<1>6. at \in [Writers -> HookSteps]
  BY DEF HooksInitWith, HookSteps
<1>7. view \in [Writers -> HookFiles]
  BY NoHooksFile DEF HooksInitWith
<1>8. hookLeft \in HookBudgets
  BY <1>2 DEF HooksInitWith, HookBudgets
<1>9. kept \subseteq Foreign
  BY <1>2, ForeignersType DEF HooksInitWith
<1> QED BY <1>3, <1>4, <1>5, <1>6, <1>7, <1>8, <1>9 DEF HookTypeOK
LEMMA RewritesType ==
    ASSUME HookTypeOK, NEW f \in HookFiles, Rewrites(f)
    PROVE  /\ hooks' \in HookFiles
           /\ edited' \in [Writers -> BOOLEAN]
           /\ hookLeft' \in HookBudgets
BY EditType DEF HookTypeOK, Rewrites

LEMMA AddsType ==
    ASSUME HookTypeOK, NEW h \in Foreign, Adds(h)
    PROVE  kept' \subseteq Foreign /\ late' \subseteq Foreign
BY DEF HookTypeOK, Adds

LEMMA HookTypeScript ==
    ASSUME HookTypeOK, NEW s \in Scripts, ScriptStep(s)
    PROVE  HookTypeOK'
<1> s \in Writers
  BY DEF Writers
<1>1. CASE Update(s)
  <2>1. PICK step \in {"resolve", "inspect"} : Goto(s, step)
    BY <1>1 DEF Update
  <2>2. step \in HookSteps
    BY DEF HookSteps
  <2> QED BY <1>1, <2>1, <2>2, GotoType DEF Update, HookTypeOK, userVars, lockVars
<1>2. CASE Resolve(s)
  <2>1. PICK step \in {"skipped", "inspect"} : Goto(s, step)
    BY <1>2 DEF Resolve
  <2>2. step \in HookSteps
    BY DEF HookSteps
  <2> QED BY <1>2, <2>1, <2>2, GotoType DEF Resolve, HookTypeOK, userVars, lockVars
<1>3. CASE Inspect(s)
  <2>1. /\ at' \in [Writers -> HookSteps]
        /\ verb' \in [Writers -> {"install", "remove", "uninstall"}]
    <3>1. CASE Enter(s, "install") \/ Enter(s, "remove")
      BY <3>1, EnterType
    <3>2. CASE Goto(s, "skipped") /\ UNCHANGED verb
      <4>1. "skipped" \in HookSteps
        BY DEF HookSteps
      <4> QED BY <3>2, <4>1, GotoType DEF HookTypeOK
    <3> QED BY <1>3, <3>1, <3>2 DEF Inspect
  <2> QED BY <1>3, <2>1 DEF Inspect, HookTypeOK, userVars, lockVars
<1>4. CASE Uninstall(s)
  <2>1. /\ at' \in [Writers -> HookSteps]
        /\ verb' \in [Writers -> {"install", "remove", "uninstall"}]
    <3>1. CASE Enter(s, "uninstall")
      BY <3>1, EnterType
    <3>2. CASE verb' = [verb EXCEPT ![s] = "uninstall"] /\ Goto(s, "ok")
      <4>1. "ok" \in HookSteps
        BY DEF HookSteps
      <4>2. at' \in [Writers -> HookSteps]
        BY <3>2, <4>1, GotoType
      <4> QED BY <3>2, <4>2 DEF HookTypeOK
    <3> QED BY <1>4, <3>1, <3>2 DEF Uninstall
  <2> QED BY <1>4, <2>1 DEF Uninstall, HookTypeOK, userVars, lockVars
<1>5. CASE CheckAfter(s)
  <2>1. PICK step \in {"failed", "done"} : Goto(s, step)
    BY <1>5 DEF CheckAfter
  <2>2. step \in HookSteps
    BY DEF HookSteps
  <2> QED BY <1>5, <2>1, <2>2, GotoType DEF CheckAfter, HookTypeOK, userVars, lockVars
<1>6. CASE StopService(s)
  <2>1. at' \in [Writers -> HookSteps]
    BY <1>6 DEF StopService, HookTypeOK, HookSteps
  <2>2. running' \in [Sides -> BOOLEAN]
    BY <1>6 DEF StopService, HookTypeOK
  <2> QED BY <1>6, <2>1, <2>2 DEF StopService, HookTypeOK, userVars, lockVars
<1> QED BY <1>1, <1>2, <1>3, <1>4, <1>5, <1>6 DEF ScriptStep

LEMMA HookTypeDaemon ==
    ASSUME HookTypeOK, NEW d \in Daemons, Sync(d) \/ Report(d)
    PROVE  HookTypeOK'
<1> d \in Writers
  BY DEF Writers
<1>1. CASE Sync(d)
  <2>1. Enter(d, "install")
    BY <1>1 DEF Sync
  <2>2. /\ at' \in [Writers -> HookSteps]
        /\ verb' \in [Writers -> {"install", "remove", "uninstall"}]
    BY <2>1, EnterType
  <2> QED BY <1>1, <2>2 DEF Sync, HookTypeOK, userVars, lockVars
<1>2. CASE Report(d)
  <2>1. "idle" \in HookSteps
    BY DEF HookSteps
  <2>2. at' \in [Writers -> HookSteps]
    BY <1>2, <2>1, GotoType DEF Report
  <2>3. Audit(hooks, trust, Side[d]) \in Verdicts
    BY DEF Audit, Verdicts
  <2>4. shown' \in [Daemons -> Verdicts]
    BY <1>2, <2>3 DEF Report, HookTypeOK, Verdicts
  <2> QED BY <1>2, <2>2, <2>4 DEF Report, HookTypeOK, userVars, lockVars
<1> QED BY <1>1, <1>2

LEMMA HookTypeWriter ==
    ASSUME HookTypeOK, NEW a \in Writers, WriterStep(a) \/ CrashWriter(a)
    PROVE  HookTypeOK'
<1>0. {"load", "breaking", "failed", "lock", "ok", "abort", "finish", "backup", "write",
       "idle", "dead"} \subseteq HookSteps
  BY DEF HookSteps, Locked
<1>1. CASE TakeLock(a)
  <2>1. at' \in [Writers -> HookSteps]
    BY <1>0, <1>1, GotoType DEF TakeLock
  <2> QED BY <1>1, <2>1 DEF TakeLock, HookTypeOK, userVars
<1>2. CASE FindStale(a)
  <2>1. at' \in [Writers -> HookSteps]
    BY <1>0, <1>2, GotoType DEF FindStale
  <2> QED BY <1>2, <2>1 DEF FindStale, HookTypeOK, userVars, lockVars
<1>3. CASE GiveUp(a)
  <2>1. at' \in [Writers -> HookSteps]
    BY <1>0, <1>3, GotoType DEF GiveUp
  <2> QED BY <1>3, <2>1 DEF GiveUp, HookTypeOK, userVars, lockVars
<1>4. CASE BreakLock(a)
  <2>1. at' \in [Writers -> HookSteps]
    BY <1>0, <1>4, GotoType DEF BreakLock
  <2>2. RemoveLock(a)
    BY <1>4 DEF BreakLock
  <2> QED BY <1>4, <2>1, <2>2, RemoveLockType DEF BreakLock, HookTypeOK, userVars
<1>5. CASE Unlock(a)
  <2>1. PICK step \in {"ok", "failed"} : Goto(a, step)
    BY <1>5 DEF Unlock
  <2>2. at' \in [Writers -> HookSteps]
    BY <1>0, <2>1, GotoType
  <2>3. /\ lock' \in [by: Writers \union {Nobody}, old: BOOLEAN]
        /\ robbed' \in BOOLEAN
        /\ hookLeft' \in HookBudgets
    <3>1. CASE RemoveLock(a)
      BY <3>1, RemoveLockType
    <3>2. CASE UNCHANGED <<lockVars, hookLeft>>
      BY <3>2 DEF lockVars, HookTypeOK
    <3> QED BY <1>5, <3>1, <3>2 DEF Unlock
  <2>4. Forget(a)
    BY <1>5 DEF Unlock
  <2>5. view' \in [Writers -> HookFiles] /\ edited' \in [Writers -> BOOLEAN]
    BY <2>4, ForgetType
  <2> QED BY <1>5, <2>2, <2>3, <2>5 DEF Unlock, HookTypeOK
<1>6. CASE Load(a)
  <2>1. PICK step \in {"abort", "finish", "backup"} : Goto(a, step)
    BY <1>6 DEF Load
  <2>2. at' \in [Writers -> HookSteps]
    BY <1>0, <2>1, GotoType
  <2>3. view' \in [Writers -> HookFiles] /\ edited' \in [Writers -> BOOLEAN]
    BY <1>6 DEF Load, HookTypeOK
  <2> QED BY <1>6, <2>2, <2>3 DEF Load, HookTypeOK, lockVars
<1>7. CASE Backup(a)
  <2>1. Foreigners(hooks) \in SUBSET Foreign
    BY ForeignersType DEF HookTypeOK
  <2>2. PICK step \in {"write", "abort"} : Goto(a, step)
    BY <1>7 DEF Backup
  <2>3. at' \in [Writers -> HookSteps]
    BY <1>0, <2>2, GotoType
  <2>4. hookLeft' \in HookBudgets
    BY <1>7, FaultType DEF Backup, HookTypeOK
  <2>5. saved' \subseteq Foreign
    BY <1>7, <2>1 DEF Backup, HookTypeOK
  <2> QED BY <1>7, <2>3, <2>4, <2>5 DEF Backup, HookTypeOK, userVars, lockVars
<1>8. CASE Write(a)
  <2>1. Updated(provider, Side[a], verb[a], view[a]) \in HookFiles
    BY UpdatedFile, SideType DEF HookTypeOK
  <2>2. PICK step \in {"finish", "abort"} : Goto(a, step)
    BY <1>8 DEF Write
  <2>3. at' \in [Writers -> HookSteps]
    BY <1>0, <2>2, GotoType
  <2>4. hookLeft' \in HookBudgets
    BY <1>8, FaultType DEF Write, HookTypeOK
  <2>5. hooks' \in HookFiles
    BY <1>8, <2>1 DEF Write, HookTypeOK
  <2> QED BY <1>8, <2>3, <2>4, <2>5 DEF Write, HookTypeOK, userVars, lockVars
<1>9. CASE CrashWriter(a)
  <2>1. PICK step \in {"idle", "dead"} : Goto(a, step)
    BY <1>9 DEF CrashWriter
  <2>2. at' \in [Writers -> HookSteps]
    BY <1>0, <2>1, GotoType
  <2>3. Forget(a) /\ Fault
    BY <1>9 DEF CrashWriter
  <2>4. view' \in [Writers -> HookFiles] /\ edited' \in [Writers -> BOOLEAN]
    BY <2>3, ForgetType
  <2>5. hookLeft' \in HookBudgets
    BY <2>3, FaultType
  <2> QED BY <1>9, <2>2, <2>4, <2>5 DEF CrashWriter, HookTypeOK, lockVars
<1> QED BY <1>1, <1>2, <1>3, <1>4, <1>5, <1>6, <1>7, <1>8, <1>9 DEF WriterStep

LEMMA HookTypeUser ==
    ASSUME HookTypeOK, User
    PROVE  HookTypeOK'
<1> hooks \in HookFiles
  BY DEF HookTypeOK
<1>1. ASSUME NEW h \in Foreign, AddGroup(h) \/ AddHandler(h) \/ TakeAway(h)
      PROVE  HookTypeOK'
  <2>1. PICK f \in HookFiles : Rewrites(f)
    BY <1>1, EditedFile DEF AddGroup, AddHandler, TakeAway
  <2>2. /\ hooks' \in HookFiles /\ edited' \in [Writers -> BOOLEAN]
        /\ hookLeft' \in HookBudgets
    BY <2>1, RewritesType
  <2>3. kept' \subseteq Foreign /\ late' \subseteq Foreign
    <3>1. CASE Adds(h)
      BY <3>1, AddsType
    <3>2. CASE kept' = kept \ {h} /\ UNCHANGED late
      BY <3>2 DEF HookTypeOK
    <3> QED BY <1>1, <3>1, <3>2 DEF AddGroup, AddHandler, TakeAway
  <2> QED BY <2>1, <2>2, <2>3 DEF Rewrites, HookTypeOK, lockVars
<1>2. CASE Tamper
  <2>1. Stripped(hooks) \in HookFiles
    BY StrippedFile
  <2>2. [hooks EXCEPT !.twin = TRUE] \in HookFiles
    BY DEF HookFiles
  <2>3. PICK f \in HookFiles : Rewrites(f)
    BY <1>2, <2>1, <2>2 DEF Tamper
  <2>4. /\ hooks' \in HookFiles /\ edited' \in [Writers -> BOOLEAN]
        /\ hookLeft' \in HookBudgets
    BY <2>3, RewritesType
  <2> QED BY <1>2, <2>3, <2>4 DEF Tamper, Rewrites, HookTypeOK, lockVars
<1>3. ASSUME NEW s \in Sides, TrustHook(s) \/ SwitchOff(s)
      PROVE  HookTypeOK'
  <2>1. PICK place \in Positions : place = Cardinality(hooks.before)
    BY PlaceType
  <2>2. Entry(hooks, trust, s) \in Trusts
    BY <2>1 DEF Entry, HookTypeOK
  <2>3. hooks.own[s] \in Routes
    BY DEF HookFiles
  <2>4. PICK entry \in Trusts : Decide(s, entry)
    BY <1>3, <2>2, <2>3 DEF TrustHook, SwitchOff, Trusts
  <2>5. trust' \in [Sides -> [Positions -> Trusts]]
    BY <2>1, <2>4 DEF Decide, HookTypeOK
  <2>6. hookLeft' \in HookBudgets
    BY <2>4, EditType DEF Decide
  <2> QED BY <2>4, <2>5, <2>6 DEF Decide, HookTypeOK, lockVars
<1>4. ASSUME NEW s \in Sides, NEW answers \in {{}, {"older"}, {"supported"}},
             ChangeCli(s, answers)
      PROVE  HookTypeOK'
  <2>1. cli' \in [Sides -> SUBSET Answers]
    BY <1>4 DEF ChangeCli, HookTypeOK, Answers
  <2>2. hookLeft' \in HookBudgets
    BY <1>4, EditType DEF ChangeCli
  <2> QED BY <1>4, <2>1, <2>2 DEF ChangeCli, HookTypeOK, lockVars
<1> QED BY <1>1, <1>2, <1>3, <1>4 DEF User

LEMMA HookTypeStep == HookTypeOK /\ [HooksNext]_hooksVars => HookTypeOK'
<1> SUFFICES ASSUME HookTypeOK, [HooksNext]_hooksVars
             PROVE  HookTypeOK'
  OBVIOUS
<1>1. CASE UNCHANGED hooksVars
  BY <1>1 DEF hooksVars, userVars, lockVars, HookTypeOK
<1>2. CASE \E s \in Scripts : ScriptStep(s)
  BY <1>2, HookTypeScript
<1>3. CASE \E d \in Daemons : Sync(d) \/ Report(d)
  BY <1>3, HookTypeDaemon
<1>4. CASE \E a \in Writers : WriterStep(a) \/ CrashWriter(a)
  BY <1>4, HookTypeWriter
<1>5. CASE Age
  <2>1. lock' \in [by: Writers \union {Nobody}, old: BOOLEAN]
    BY <1>5 DEF Age, HookTypeOK
  <2>2. hookLeft' \in HookBudgets
    BY <1>5, FaultType DEF Age, HookTypeOK
  <2> QED BY <1>5, <2>1, <2>2 DEF Age, HookTypeOK, userVars
<1>6. CASE User
  BY <1>6, HookTypeUser
<1> QED BY <1>1, <1>2, <1>3, <1>4, <1>5, <1>6 DEF HooksNext

(* The settings file, its readers and what is known of them have their types. *)
THEOREM HookTypes == HooksSpec => []HookTypeOK
<1>1. HookTypeOK /\ [HooksNext]_hooksVars => HookTypeOK'
  BY HookTypeStep
<1> QED BY HookTypeInit, <1>1, PTL DEF HooksSpec
-----------------------------------------------------------------------------
(* Nothing of another program is lost. *)

LEMMA GotoEffect ==
    ASSUME HookTypeOK, NEW a \in Writers, NEW step, Goto(a, step)
    PROVE  at'[a] = step /\ \A b \in Writers \ {a} : at'[b] = at[b]
BY DEF HookTypeOK, Goto

(* A step that leaves the file, its lock and every writer's view alone, and *)
(* takes nobody to the file but, for Claude, to read it.                    *)
Calm ==
    /\ UNCHANGED <<provider, hooks, saved, kept, late, lock, robbed, view, edited>>
    /\ \A b \in Writers :
          at'[b] \in Locked => at'[b] = at[b] \/ (provider = "claude" /\ at'[b] = "load")

LEMMA EnterCalm ==
    ASSUME HookTypeOK, NEW a \in Writers, NEW v, Enter(a, v),
           UNCHANGED <<provider, hooks, saved, kept, late, lock, robbed, view, edited>>
    PROVE  Calm
<1>1. PICK step : /\ Goto(a, step)
                  /\ step \in {"failed", "lock"} \/ (provider # "codex" /\ step = "load")
  BY DEF Enter
<1>2. at'[a] = step /\ \A b \in Writers \ {a} : at'[b] = at[b]
  BY <1>1, GotoEffect
<1>3. provider \in {"claude", "codex"}
  BY DEF HookTypeOK, Providers
<1> QED BY <1>1, <1>2, <1>3 DEF Calm, Locked

LEMMA GotoCalm ==
    ASSUME HookTypeOK, NEW a \in Writers, NEW step, step \notin Locked, Goto(a, step),
           UNCHANGED <<provider, hooks, saved, kept, late, lock, robbed, view, edited>>
    PROVE  Calm
BY GotoEffect DEF Calm

LEMMA ScriptCalm ==
    ASSUME HookTypeOK, NEW s \in Scripts, ScriptStep(s)
    PROVE  Calm
<1> s \in Writers
  BY DEF Writers
<1>0. "resolve" \notin Locked /\ "inspect" \notin Locked /\ "skipped" \notin Locked
      /\ "failed" \notin Locked /\ "done" \notin Locked /\ "ok" \notin Locked
      /\ "dead" \notin Locked
  BY DEF Locked
<1>1. CASE Update(s)
  BY <1>0, <1>1, GotoCalm DEF Update, userVars, lockVars
<1>2. CASE Resolve(s)
  BY <1>0, <1>2, GotoCalm DEF Resolve, userVars, lockVars
<1>3. CASE Inspect(s)
  <2>1. UNCHANGED <<provider, hooks, saved, kept, late, lock, robbed, view, edited>>
    BY <1>3 DEF Inspect, userVars, lockVars
  <2>2. CASE Enter(s, "install")
    BY <2>1, <2>2, EnterCalm
  <2>3. CASE Enter(s, "remove")
    BY <2>1, <2>3, EnterCalm
  <2>4. CASE Goto(s, "skipped")
    BY <1>0, <2>1, <2>4, GotoCalm
  <2> QED BY <1>3, <2>2, <2>3, <2>4 DEF Inspect
<1>4. CASE Uninstall(s)
  <2>1. UNCHANGED <<provider, hooks, saved, kept, late, lock, robbed, view, edited>>
    BY <1>4 DEF Uninstall, userVars, lockVars
  <2>2. CASE Enter(s, "uninstall")
    BY <2>1, <2>2, EnterCalm
  <2>3. CASE Goto(s, "ok")
    BY <1>0, <2>1, <2>3, GotoCalm
  <2> QED BY <1>4, <2>2, <2>3 DEF Uninstall
<1>5. CASE CheckAfter(s)
  BY <1>0, <1>5, GotoCalm DEF CheckAfter, userVars, lockVars
<1>6. CASE StopService(s)
  <2>1. \A b \in Writers : at'[b] \in {"done", "dead"} \/ at'[b] = at[b]
    BY <1>6 DEF StopService
  <2> QED BY <1>0, <1>6, <2>1 DEF StopService, userVars, lockVars, Calm
<1> QED BY <1>1, <1>2, <1>3, <1>4, <1>5, <1>6 DEF ScriptStep

LEMMA DaemonCalm ==
    ASSUME HookTypeOK, NEW d \in Daemons, Sync(d) \/ Report(d)
    PROVE  Calm
<1> d \in Writers
  BY DEF Writers
<1>0. "idle" \notin Locked
  BY DEF Locked
<1>1. CASE Sync(d)
  BY <1>1, EnterCalm DEF Sync, userVars, lockVars
<1>2. CASE Report(d)
  BY <1>0, <1>2, GotoCalm DEF Report, userVars, lockVars
<1> QED BY <1>1, <1>2

Unspoilt == NothingLost /\ WritesSaved

LEMMA UnspoiltFrame ==
    ASSUME Unspoilt, UNCHANGED <<hooks, saved, kept, late>>,
           \A b \in Writers : at'[b] = "write" => at[b] = "write"
    PROVE  Unspoilt'
BY DEF Unspoilt, NothingLost, WritesSaved, Foreigners

LEMMA UnspoiltCalm ==
    ASSUME Unspoilt, Calm
    PROVE  Unspoilt'
<1>1. \A b \in Writers : at'[b] = "write" => at[b] = "write"
  BY DEF Calm, Locked
<1> QED BY <1>1, UnspoiltFrame DEF Calm

LEMMA UnspoiltWriter ==
    ASSUME HookTypeOK, Unspoilt, NEW a \in Writers, WriterStep(a) \/ CrashWriter(a)
    PROVE  Unspoilt'
<1>1. CASE TakeLock(a) \/ FindStale(a) \/ GiveUp(a) \/ BreakLock(a) \/ Unlock(a) \/ Load(a)
           \/ CrashWriter(a)
  <2>1. PICK step : Goto(a, step) /\ step # "write"
    BY <1>1 DEF TakeLock, FindStale, GiveUp, BreakLock, Unlock, Load, CrashWriter
  <2>2. \A b \in Writers : at'[b] = "write" => at[b] = "write"
    BY <2>1, GotoEffect
  <2>3. UNCHANGED <<hooks, saved, kept, late>>
    BY <1>1 DEF TakeLock, FindStale, GiveUp, BreakLock, Unlock, Load, CrashWriter, userVars
  <2> QED BY <2>2, <2>3, UnspoiltFrame
<1>2. CASE Backup(a)
  <2>1. UNCHANGED <<hooks, kept, late>>
    BY <1>2 DEF Backup, userVars
  <2>2. CASE saved' = saved \union Foreigners(hooks)
    BY <2>1, <2>2 DEF Unspoilt, NothingLost, WritesSaved, Foreigners
  <2>3. CASE Goto(a, "abort") /\ UNCHANGED saved
    <3>1. \A b \in Writers : at'[b] = "write" => at[b] = "write"
      BY <2>3, GotoEffect
    <3> QED BY <2>1, <2>3, <3>1, UnspoiltFrame
  <2> QED BY <1>2, <2>2, <2>3 DEF Backup
<1>3. CASE Write(a)
  <2>1. UNCHANGED <<saved, kept, late>>
    BY <1>3 DEF Write, userVars
  <2>2. kept \subseteq saved \union late
    BY <1>3 DEF Write, Unspoilt, NothingLost, WritesSaved
  <2> QED BY <2>1, <2>2 DEF Unspoilt, NothingLost, WritesSaved
<1> QED BY <1>1, <1>2, <1>3 DEF WriterStep

LEMMA UnspoiltUser ==
    ASSUME HookTypeOK, Unspoilt, User
    PROVE  Unspoilt'
<1> hooks \in HookFiles
  BY DEF HookTypeOK
<1>1. ASSUME NEW h \in Foreign, AddGroup(h) \/ AddHandler(h)
      PROVE  Unspoilt'
  <2>1. PICK f : Rewrites(f) /\ Foreigners(f) = Foreigners(hooks) \union {h}
    <3>1. CASE AddHandler(h)
      <4>1. hooks.mixed = {} /\ Rewrites([hooks EXCEPT !.mixed = {h}])
        BY <3>1 DEF AddHandler
      <4> QED BY <4>1, EditedFile
    <3>2. CASE AddGroup(h)
      <4>1. \/ Rewrites([hooks EXCEPT !.shape = "object", !.before = @ \union {h}])
            \/ Rewrites([hooks EXCEPT !.after = @ \union {h}])
        BY <3>2 DEF AddGroup
      <4> QED BY <4>1, EditedFile
    <3> QED BY <1>1, <3>1, <3>2
  <2>2. /\ UNCHANGED <<saved, at>>
        /\ Foreigners(hooks)' = Foreigners(hooks) \union {h}
    BY <2>1 DEF Rewrites, Foreigners
  <2>3. kept' = kept \union {h}
    BY <1>1 DEF AddGroup, AddHandler, Adds
  <2>4. CASE \E a \in Writers : at[a] = "write"
    <3>1. late' = late \union {h}
      BY <1>1, <2>4 DEF AddGroup, AddHandler, Adds
    <3> QED BY <2>2, <2>3, <3>1 DEF Unspoilt, NothingLost, WritesSaved
  <2>5. CASE ~\E a \in Writers : at[a] = "write"
    <3>1. late' = late
      BY <1>1, <2>5 DEF AddGroup, AddHandler, Adds
    <3> QED BY <2>2, <2>3, <2>5, <3>1 DEF Unspoilt, NothingLost, WritesSaved
  <2> QED BY <2>4, <2>5
<1>2. ASSUME NEW h \in Foreign, TakeAway(h)
      PROVE  Unspoilt'
  <2>1. PICK f : Rewrites(f) /\ Foreigners(f) = Foreigners(hooks) \ {h}
    BY <1>2, EditedFile DEF TakeAway
  <2>2. /\ UNCHANGED <<saved, at>>
        /\ Foreigners(hooks)' = Foreigners(hooks) \ {h}
    BY <2>1 DEF Rewrites, Foreigners
  <2>3. kept' = kept \ {h} /\ late' = late
    BY <1>2 DEF TakeAway
  <2> QED BY <2>2, <2>3 DEF Unspoilt, NothingLost, WritesSaved
<1>3. CASE Tamper
  <2>1. Foreigners(Stripped(hooks)) = Foreigners(hooks)
    BY StrippedFile
  <2>2. Foreigners([hooks EXCEPT !.twin = TRUE]) = Foreigners(hooks)
    BY DEF Foreigners, HookFiles
  <2>3. PICK f : Rewrites(f) /\ Foreigners(f) = Foreigners(hooks)
    BY <1>3, <2>1, <2>2 DEF Tamper
  <2>4. UNCHANGED <<saved, at, kept, late>> /\ Foreigners(hooks)' = Foreigners(hooks)
    BY <1>3, <2>3 DEF Rewrites, Foreigners, Tamper
  <2> QED BY <2>4 DEF Unspoilt, NothingLost, WritesSaved
<1>4. ASSUME NEW s \in Sides, TrustHook(s) \/ SwitchOff(s)
      PROVE  Unspoilt'
  BY <1>4, UnspoiltFrame DEF TrustHook, SwitchOff, Decide
<1>5. ASSUME NEW s \in Sides, NEW answers, ChangeCli(s, answers)
      PROVE  Unspoilt'
  BY <1>5, UnspoiltFrame DEF ChangeCli
<1> QED BY <1>1, <1>2, <1>3, <1>4, <1>5 DEF User

LEMMA UnspoiltStep == HookTypeOK /\ Unspoilt /\ [HooksNext]_hooksVars => Unspoilt'
<1> SUFFICES ASSUME HookTypeOK, Unspoilt, [HooksNext]_hooksVars
             PROVE  Unspoilt'
  OBVIOUS
<1>1. CASE UNCHANGED hooksVars
  BY <1>1, UnspoiltFrame DEF hooksVars, userVars
<1>2. CASE \E s \in Scripts : ScriptStep(s)
  BY <1>2, ScriptCalm, UnspoiltCalm
<1>3. CASE \E d \in Daemons : Sync(d) \/ Report(d)
  BY <1>3, DaemonCalm, UnspoiltCalm
<1>4. CASE \E a \in Writers : WriterStep(a) \/ CrashWriter(a)
  BY <1>4, UnspoiltWriter
<1>5. CASE Age
  BY <1>5, UnspoiltFrame DEF Age, userVars
<1>6. CASE User
  BY <1>6, UnspoiltUser
<1> QED BY <1>1, <1>2, <1>3, <1>4, <1>5, <1>6 DEF HooksNext

LEMMA UnspoiltInit == HooksInit => Unspoilt
BY DEF HooksInit, HooksInitWith, Unspoilt, NothingLost, WritesSaved

(* A hook of another program is in the file or in a backup, whatever        *)
(* writers did, failed at or were killed in: a writer whose step is to      *)
(* write has a backup of everything in the file that it may not lose.       *)
THEOREM HooksNotLost == HooksSpec => []NothingLost
<1>1. HookTypeOK /\ Unspoilt /\ [HooksNext]_hooksVars => Unspoilt'
  BY UnspoiltStep
<1>2. Unspoilt => NothingLost
  BY DEF Unspoilt
<1> QED BY UnspoiltInit, HookTypes, <1>1, <1>2, PTL DEF HooksSpec
-----------------------------------------------------------------------------
(* The writers of Codex exclude each other while no lock is robbed. *)

LEMMA FreshCalm ==
    ASSUME WritesFresh, Calm
    PROVE  WritesFresh'
<1> SUFFICES ASSUME provider' = "codex", ~robbed', NEW a \in Writers
             PROVE  /\ at'[a] \in Locked => lock'.by = a
                    /\ at'[a] \in {"backup", "write"} => edited'[a] \/ view'[a] = hooks'
  BY DEF WritesFresh
<1>1. provider = "codex" /\ ~robbed
  BY DEF Calm
<1>2. at'[a] \in Locked => at'[a] = at[a]
  BY <1>1 DEF Calm
<1> QED BY <1>1, <1>2 DEF Calm, WritesFresh, Locked

LEMMA NotRobbed ==
    ASSUME NEW a \in Writers, RemoveLock(a), ~robbed'
    PROVE  /\ ~robbed
           /\ UNCHANGED lockVars \/ ~(Holding /\ lock.by # a)
<1>1. CASE Fault /\ UNCHANGED lockVars
  BY <1>1 DEF lockVars
<1>2. CASE robbed' = (robbed \/ (Holding /\ lock.by # a))
  <2> HIDE DEF Holding
  <2> QED BY <1>2, Zenon
<1> QED BY <1>1, <1>2 DEF RemoveLock

LEMMA FreshLock ==
    ASSUME HookTypeOK, WritesFresh, NEW a \in Writers,
           TakeLock(a) \/ FindStale(a) \/ GiveUp(a) \/ BreakLock(a)
    PROVE  WritesFresh'
<1>0. "breaking" \notin Locked /\ "failed" \notin Locked /\ "lock" \notin Locked
  BY DEF Locked
<1>1. CASE FindStale(a)
  BY <1>0, <1>1, GotoCalm, FreshCalm DEF FindStale, userVars, lockVars
<1>2. CASE GiveUp(a)
  BY <1>0, <1>2, GotoCalm, FreshCalm DEF GiveUp, userVars, lockVars
<1>3. CASE TakeLock(a)
  <2> SUFFICES ASSUME provider' = "codex", ~robbed', NEW b \in Writers
               PROVE  /\ at'[b] \in Locked => lock'.by = b
                      /\ at'[b] \in {"backup", "write"} => edited'[b] \/ view'[b] = hooks'
    BY DEF WritesFresh
  <2>1. provider = "codex" /\ ~robbed /\ lock.by = Nobody /\ Nobody \notin Writers
    BY <1>3, HookAssumption DEF TakeLock
  <2>2. \A c \in Writers : at[c] \notin Locked
    BY <2>1 DEF WritesFresh
  <2>3. at'[a] = "load" /\ lock'.by = a /\ \A c \in Writers \ {a} : at'[c] = at[c]
    BY <1>3, GotoEffect DEF TakeLock
  <2> QED BY <2>2, <2>3 DEF Locked
<1>4. CASE BreakLock(a)
  <2> SUFFICES ASSUME provider' = "codex", ~robbed', NEW b \in Writers
               PROVE  /\ at'[b] \in Locked => lock'.by = b
                      /\ at'[b] \in {"backup", "write"} => edited'[b] \/ view'[b] = hooks'
    BY DEF WritesFresh
  <2>1. /\ provider = "codex" /\ ~robbed
        /\ UNCHANGED lockVars \/ ~(Holding /\ lock.by # a)
    BY <1>4, NotRobbed DEF BreakLock
  <2>2. at'[a] = "lock" /\ at[a] \notin Locked /\ \A c \in Writers \ {a} : at'[c] = at[c]
    BY <1>0, <1>4, GotoEffect DEF BreakLock
  <2>3. CASE UNCHANGED lockVars
    <3>1. UNCHANGED <<lock, view, hooks, edited>>
      BY <1>4, <2>3 DEF lockVars, BreakLock, userVars
    <3> QED BY <1>0, <2>1, <2>2, <3>1 DEF WritesFresh, Locked
  <2>4. CASE ~(Holding /\ lock.by # a)
    <3>1. ~Holding
      BY <2>2, <2>4 DEF Holding
    <3>2. at[b] \notin Locked
      BY <2>1, <3>1, HookAssumption DEF Holding, WritesFresh
    <3> QED BY <1>0, <2>2, <3>2 DEF Locked
  <2> QED BY <2>1, <2>3, <2>4
<1> QED BY <1>1, <1>2, <1>3, <1>4

(* The steps of a writer that has the lock. *)
LEMMA FreshHeld ==
    ASSUME HookTypeOK, WritesFresh, NEW a \in Writers,
           Unlock(a) \/ Load(a) \/ Backup(a) \/ Write(a) \/ CrashWriter(a)
    PROVE  WritesFresh'
<1> SUFFICES ASSUME provider' = "codex", ~robbed', NEW b \in Writers
             PROVE  /\ at'[b] \in Locked => lock'.by = b
                    /\ at'[b] \in {"backup", "write"} => edited'[b] \/ view'[b] = hooks'
  BY DEF WritesFresh
<1>1. provider = "codex" /\ ~robbed
  <2>1. CASE Unlock(a)
    BY <2>1, NotRobbed DEF Unlock, lockVars
  <2>2. CASE Load(a) \/ Backup(a) \/ Write(a) \/ CrashWriter(a)
    BY <2>2 DEF Load, Backup, Write, CrashWriter, lockVars
  <2> QED BY <2>1, <2>2
<1>2. CASE CrashWriter(a)
  <2>1. at'[a] \notin Locked /\ \A c \in Writers \ {a} : at'[c] = at[c]
    <3>1. PICK step \in {"idle", "dead"} : Goto(a, step)
      BY <1>2 DEF CrashWriter
    <3> QED BY <3>1, GotoEffect DEF Locked
  <2>2. (view'[b] = view[b] /\ edited'[b] = edited[b]) \/ b = a
    BY <1>2 DEF CrashWriter, Forget, HookTypeOK
  <2>3. UNCHANGED <<lock, hooks>>
    BY <1>2 DEF CrashWriter, lockVars
  <2> QED BY <1>1, <2>1, <2>2, <2>3 DEF WritesFresh, Locked
<1>3. CASE Unlock(a) \/ Load(a) \/ Backup(a) \/ Write(a)
  <2>1. at[a] \in Locked
    BY <1>3 DEF Unlock, Load, Backup, Write, Locked
  <2>2. lock.by = a
    BY <1>1, <2>1 DEF WritesFresh
  <2>3. \A c \in Writers \ {a} : at[c] \notin Locked
    BY <1>1, <2>2 DEF WritesFresh
  <2>4. PICK step : Goto(a, step)
    BY <1>3 DEF Unlock, Load, Backup, Write
  <2>5. at'[a] = step /\ \A c \in Writers \ {a} : at'[c] = at[c]
    BY <2>4, GotoEffect
  <2>6. b # a => at'[b] \notin Locked
    BY <2>3, <2>5
  <2>7. b # a => at'[b] \notin {"backup", "write"}
    BY <2>6 DEF Locked
  <2>8. CASE Unlock(a)
    <3>1. at'[a] \notin Locked
      <4>1. PICK out \in {"ok", "failed"} : Goto(a, out)
        BY <2>8 DEF Unlock
      <4> QED BY <4>1, GotoEffect DEF Locked
    <3> QED BY <2>6, <2>7, <3>1 DEF Locked
  <2>9. CASE Load(a)
    <3>1. view'[a] = hooks /\ UNCHANGED <<lock, hooks>>
      BY <2>9 DEF Load, HookTypeOK, lockVars
    <3> QED BY <2>2, <2>6, <2>7, <3>1
  <2>10. CASE Backup(a)
    <3>1. UNCHANGED <<lock, hooks, view, edited>> /\ at[a] = "backup"
      BY <2>10 DEF Backup, lockVars, userVars
    <3> QED BY <1>1, <2>2, <2>6, <2>7, <3>1 DEF WritesFresh
  <2>11. CASE Write(a)
    <3>1. lock' = lock
      BY <2>11 DEF Write, lockVars
    <3>2. at'[a] \notin {"backup", "write"}
      <4>1. PICK out \in {"finish", "abort"} : Goto(a, out)
        BY <2>11 DEF Write
      <4> QED BY <4>1, GotoEffect
    <3> QED BY <2>2, <2>6, <2>7, <3>1, <3>2
  <2> QED BY <1>3, <2>8, <2>9, <2>10, <2>11
<1> QED BY <1>2, <1>3

LEMMA RewritesFresh ==
    ASSUME HookTypeOK, WritesFresh, NEW f, Rewrites(f)
    PROVE  WritesFresh'
BY DEF WritesFresh, Rewrites, lockVars, HookTypeOK

LEMMA UserRewrites ==
    ASSUME User
    PROVE  \/ \E f : Rewrites(f)
           \/ UNCHANGED <<provider, hooks, lock, robbed, at, view, edited>>
BY DEF User, AddGroup, AddHandler, TakeAway, Tamper, TrustHook, SwitchOff, Decide, ChangeCli,
       lockVars

LEMMA FreshStep == HookTypeOK /\ WritesFresh /\ [HooksNext]_hooksVars => WritesFresh'
<1> SUFFICES ASSUME HookTypeOK, WritesFresh, [HooksNext]_hooksVars
             PROVE  WritesFresh'
  OBVIOUS
<1>1. CASE UNCHANGED hooksVars
  BY <1>1 DEF hooksVars, userVars, lockVars, WritesFresh
<1>2. CASE \E s \in Scripts : ScriptStep(s)
  BY <1>2, ScriptCalm, FreshCalm
<1>3. CASE \E d \in Daemons : Sync(d) \/ Report(d)
  BY <1>3, DaemonCalm, FreshCalm
<1>4. CASE \E a \in Writers : WriterStep(a) \/ CrashWriter(a)
  BY <1>4, FreshLock, FreshHeld DEF WriterStep
<1>5. CASE Age
  <2>1. lock'.by = lock.by
    BY <1>5 DEF Age, HookTypeOK
  <2> QED BY <1>5, <2>1 DEF Age, userVars, WritesFresh
<1>6. CASE User
  BY <1>6, UserRewrites, RewritesFresh DEF WritesFresh
<1> QED BY <1>1, <1>2, <1>3, <1>4, <1>5, <1>6 DEF HooksNext

LEMMA FreshInit == HooksInit => WritesFresh
BY DEF HooksInit, HooksInitWith, WritesFresh, Locked

(* While no lock is removed under its holder, only the writer that has the  *)
(* lock is at the file of Codex, and what it is about to write was made of  *)
(* what is in the file, unless the user wrote in between.                   *)
THEOREM WritesAreFresh == HooksSpec => []WritesFresh
<1>1. HookTypeOK /\ WritesFresh /\ [HooksNext]_hooksVars => WritesFresh'
  BY FreshStep
<1> QED BY FreshInit, HookTypes, <1>1, PTL DEF HooksSpec

-----------------------------------------------------------------------------
(* An install for one side leaves the other's. *)

OthersKept ==
    provider = "codex" /\ ~robbed =>
        \A a \in Writers : Installs(a) /\ ~edited[a] =>
            \A s \in Sides \ {Side[a]} :
                /\ hooks.own[s] # "none" => hooks'.own[s] = hooks.own[s]
                /\ hooks.mixed = {} /\ hooks.after = {} /\ Healthy(s) => Healthy(s)'

LEMMA UpdatedOther ==
    ASSUME NEW f \in HookFiles, NEW side \in Sides, NEW s \in Sides \ {side},
           f.own[s] # "none"
    PROVE  LET g == Updated("codex", side, "install", f)
           IN  /\ g.own[s] = f.own[s]
               /\ g.shape = "object" /\ ~g.twin
               /\ f.mixed = {} /\ f.after = {} => g.before = f.before
<1>1. PICK o : o = DesiredRoute("codex", side, f.own)
  OBVIOUS
<1>2. o[s] = f.own[s]
  BY <1>1 DEF DesiredRoute, CodexRoute
<1>3. PICK g : g = Updated("codex", side, "install", f)
  OBVIOUS
<1>4. g = [Stripped(f) EXCEPT !.own = o, !.shape = "object"]
  BY <1>1, <1>3 DEF Updated
<1>5. /\ g.own = o /\ g.shape = "object" /\ ~g.twin
      /\ g.before = Foreigners(f)
  BY <1>4 DEF Stripped, HookFiles
<1>6. f.mixed = {} /\ f.after = {} => Foreigners(f) = f.before
  BY DEF Foreigners
<1> QED BY <1>2, <1>3, <1>5, <1>6

LEMMA OthersKeptWrite ==
    ASSUME HookTypeOK, WritesFresh, provider = "codex", ~robbed, NEW a \in Writers,
           Write(a), verb[a] = "install", ~edited[a], hooks' # hooks,
           NEW s \in Sides \ {Side[a]}
    PROVE  /\ hooks.own[s] # "none" => hooks'.own[s] = hooks.own[s]
           /\ hooks.mixed = {} /\ hooks.after = {} /\ Healthy(s) => Healthy(s)'
<1>1. view[a] = hooks /\ hooks \in HookFiles /\ Side[a] \in Sides
  BY SideType DEF WritesFresh, Write, HookTypeOK
<1>2. hooks' = Updated("codex", Side[a], "install", hooks) /\ trust' = trust
  BY <1>1 DEF Write, userVars
<1>3. hooks.own[s] # "none" =>
        /\ hooks'.own[s] = hooks.own[s]
        /\ hooks'.shape = "object" /\ ~hooks'.twin
        /\ hooks.mixed = {} /\ hooks.after = {} => hooks'.before = hooks.before
  BY <1>1, <1>2, UpdatedOther
<1>4. ASSUME hooks.mixed = {}, hooks.after = {}, Healthy(s)
      PROVE  Healthy(s)'
  <2>1. hooks.own[s] = "new" /\ Entry(hooks, trust, s).on
        /\ Entry(hooks, trust, s).route = hooks.own[s]
    BY <1>4 DEF Healthy, Audit
  <2>2. Entry(hooks', trust', s) = Entry(hooks, trust, s)
    BY <1>2, <1>3, <1>4, <2>1 DEF Entry
  <2>3. Audit(hooks', trust', s) = "HEALTHY"
    BY <1>3, <2>1, <2>2 DEF Audit
  <2> QED BY <2>3 DEF Healthy
<1> QED BY <1>3, <1>4

LEMMA OthersKeptStep ==
    ASSUME HookTypeOK, WritesFresh, [HooksNext]_hooksVars
    PROVE  OthersKept
<1> SUFFICES ASSUME provider = "codex", ~robbed, NEW a \in Writers, Installs(a), ~edited[a],
                    NEW s \in Sides \ {Side[a]}
             PROVE  /\ hooks.own[s] # "none" => hooks'.own[s] = hooks.own[s]
                    /\ hooks.mixed = {} /\ hooks.after = {} /\ Healthy(s) => Healthy(s)'
  BY DEF OthersKept
<1>1. hooks' # hooks /\ at[a] = "write" /\ at'[a] # "write" /\ verb[a] = "install"
  BY DEF Installs
<1>2. \A b \in Writers : at[b] = "write" => b = a
  BY <1>1 DEF WritesFresh, Locked
<1>3. ~UNCHANGED hooksVars
  BY <1>1 DEF hooksVars
<1>4. ~\E x \in Scripts : ScriptStep(x)
  BY <1>1, ScriptCalm DEF Calm
<1>5. ~\E d \in Daemons : Sync(d) \/ Report(d)
  BY <1>1, DaemonCalm DEF Calm
<1>6. ~Age
  BY <1>1 DEF Age
<1>7. ~User
  BY <1>1, UserRewrites DEF Rewrites
<1>8. PICK b \in Writers : Write(b)
  BY <1>1, <1>3, <1>4, <1>5, <1>6, <1>7
     DEF HooksNext, WriterStep, TakeLock, FindStale, GiveUp, BreakLock, Unlock, Load, Backup,
         CrashWriter
<1>9. b = a
  BY <1>2, <1>8 DEF Write
<1> QED BY <1>1, <1>8, <1>9, OthersKeptWrite

(* An install for one side keeps the route of the other, and what the other *)
(* side's user has approved stays healthy.                                  *)
THEOREM OtherSideStays == HooksSpec => OtherSideKept
<1>1. HookTypeOK /\ WritesFresh /\ [HooksNext]_hooksVars => [OthersKept]_hooksVars
  BY OthersKeptStep
<1> QED BY HookTypes, WritesAreFresh, <1>1, PTL DEF HooksSpec, OtherSideKept, OthersKept
-----------------------------------------------------------------------------
(* InstallNames: the plan, and what one write does to the places. *)

LEMMA PlanLength == Len(Plan) = 13 /\ Finished = 14
BY DEF Plan, Finished

Jobs == [do: {"move"}, kind: Kinds, from: Legacy]
        \union [do: {"follow"}, kind: Pointers, from: {"new"}]
        \union [do: {"rewrite"}, kind: {"config"}, from: {"new"}]

LEMMA PlanType == \A i \in 1..Len(Plan) : Plan[i] \in Jobs
<1>1. ASSUME NEW k \in Kinds, NEW p \in Legacy
      PROVE  MoveStep(k, p) \in Jobs
  BY DEF MoveStep, Jobs
<1>2. ASSUME NEW k \in Pointers
      PROVE  [do |-> "follow", kind |-> k, from |-> "new"] \in Jobs
  BY DEF Jobs
<1>3. [do |-> "rewrite", kind |-> "config", from |-> "new"] \in Jobs
  BY DEF Jobs
<1>4. /\ Plan[1] \in Jobs /\ Plan[2] \in Jobs /\ Plan[3] \in Jobs /\ Plan[4] \in Jobs
      /\ Plan[5] \in Jobs /\ Plan[6] \in Jobs /\ Plan[7] \in Jobs /\ Plan[8] \in Jobs
  BY <1>1 DEF Plan, Kinds, Pointers, Directories, Legacy
<1>5. Plan[9] \in Jobs /\ Plan[10] \in Jobs
  BY <1>2 DEF Plan, Pointers
<1>6. Plan[11] \in Jobs /\ Plan[12] \in Jobs /\ Plan[13] \in Jobs
  BY <1>1, <1>3 DEF Plan, Kinds, Legacy
<1> QED BY <1>4, <1>5, <1>6, PlanLength

(* What may be at a place for a file of kind k. *)
Fits(k, c) ==
    /\ k \in Directories => c \in {Nothing, Empty} \union Data
    /\ k \in Pointers => c = Nothing \/ (c \in PointerFiles /\ c.to.dir \in Names(k))
    /\ k = "config" => c \in {Nothing, Malformed} \union Settings

Fitting(s) ==
    s \in [Kinds -> [Places -> Contents]] /\ \A k \in Kinds, p \in Places : Fits(k, s[k][p])

LEMMA NamesTypeFits ==
    NamesTypeOK <=>
        /\ Fitting(store)
        /\ pos \in 0..Finished
        /\ doing \in Doings
        /\ nameLeft \in Nat
        /\ begun \in [Kinds -> [Places -> Contents]]
<1>1. /\ "config" \in Kinds /\ Directories \subseteq Kinds /\ Pointers \subseteq Kinds
  BY DEF Kinds
<1> QED BY <1>1 DEF NamesTypeOK, Fitting, Fits

Put(s, k, p, c) == [s EXCEPT ![k][p] = c]

LEMMA NamesTypeNext ==
    ASSUME Fitting(store'), pos' \in 0..Finished, doing' \in Doings, nameLeft' \in Nat,
           begun' \in [Kinds -> [Places -> Contents]]
    PROVE  NamesTypeOK'
<1>1. /\ "config" \in Kinds /\ Directories \subseteq Kinds /\ Pointers \subseteq Kinds
  BY DEF Kinds
<1> QED BY <1>1 DEF NamesTypeOK, Fitting, Fits

LEMMA PutEffect ==
    ASSUME NEW s, Fitting(s), NEW k \in Kinds, NEW p \in Places, NEW c \in Contents, Fits(k, c)
    PROVE  /\ Fitting(Put(s, k, p, c))
           /\ Put(s, k, p, c)[k][p] = c
           /\ \A j \in Kinds, q \in Places : j # k \/ q # p => Put(s, k, p, c)[j][q] = s[j][q]
BY DEF Fitting, Put

LEMMA SourceType ==
    /\ "new" \in Places /\ Legacy \subseteq Places /\ "new" \notin Legacy
    /\ Nothing \in Contents /\ Empty \in Contents
    /\ \A k \in Kinds : Fits(k, Nothing)
    /\ \A k \in Directories : Fits(k, Empty)
BY DEF Places, Legacy, Contents, Fits, Kinds, Directories, Pointers, Nothing, Empty

Carried(s, k, p) == [s EXCEPT ![k]["new"] = s[k][p], ![k][p] = Nothing]

LEMMA MoveEffect ==
    ASSUME NEW s, Fitting(s), NEW k \in Kinds, NEW p \in Legacy
    PROVE  /\ Fitting(Carried(s, k, p))
           /\ Carried(s, k, p)[k]["new"] = s[k][p] /\ Carried(s, k, p)[k][p] = Nothing
           /\ \A j \in Kinds, q \in Places :
                 j # k \/ q \notin {p, "new"} => Carried(s, k, p)[j][q] = s[j][q]
<1>0. PICK t : t = Carried(s, k, p)
  OBVIOUS
<1>1. PICK u : u = Put(s, k, "new", s[k][p])
  OBVIOUS
<1>2. s[k][p] \in Contents /\ Fits(k, s[k][p])
  BY SourceType DEF Fitting
<1>3. /\ Fitting(u)
      /\ u[k]["new"] = s[k][p]
      /\ \A j \in Kinds, q \in Places : j # k \/ q # "new" => u[j][q] = s[j][q]
  <2>1. "new" \in Places
    BY SourceType
  <2> QED BY <1>1, <1>2, <2>1, PutEffect
<1>4. t = Put(u, k, p, Nothing)
  BY <1>0, <1>1 DEF Put, Carried
<1>5. /\ Fitting(t) /\ t[k][p] = Nothing
      /\ \A j \in Kinds, q \in Places : j # k \/ q # p => t[j][q] = u[j][q]
  <2>1. p \in Places /\ Nothing \in Contents /\ Fits(k, Nothing)
    BY SourceType
  <2>2. PICK c : c = Nothing
    OBVIOUS
  <2>3. /\ Fitting(Put(u, k, p, c)) /\ Put(u, k, p, c)[k][p] = c
        /\ \A j \in Kinds, q \in Places : j # k \/ q # p => Put(u, k, p, c)[j][q] = u[j][q]
    BY <1>3, <2>1, <2>2, PutEffect
  <2> QED BY <1>4, <2>2, <2>3
<1>6. p # "new" /\ p \in Places /\ "new" \in Places
  BY SourceType
<1>7. t[k]["new"] = u[k]["new"]
  BY <1>5, <1>6
<1>8. t[k]["new"] = s[k][p]
  BY <1>3, <1>7
<1>9. ASSUME NEW j \in Kinds, NEW q \in Places, j # k \/ q \notin {p, "new"}
      PROVE  t[j][q] = s[j][q]
  <2>1. t[j][q] = u[j][q] /\ u[j][q] = s[j][q]
    BY <1>3, <1>5, <1>9
  <2> QED BY <2>1
<1> QED BY <1>0, <1>5, <1>8, <1>9
-----------------------------------------------------------------------------
(* InstallNames: its variables have their types, and a step in the middle   *)
(* of a move is where it believes to be.                                    *)

Steady ==
    /\ doing # "look" => Running /\ Job.do # "rewrite"
    /\ doing \in {"make", "point"} => Job.do = "follow"
    /\ doing # "look" /\ Job.do = "follow" => Outdated(store[Job.kind]["new"])
    /\ doing \in {"rename", "publish"} => Movable(Kind, From)
    /\ doing = "clean" => store[Kind]["new"] = store[Kind][From] /\ Exists(Kind, From)

Sane == NamesTypeOK /\ Steady

LEMMA JobType ==
    ASSUME NamesTypeOK, Running
    PROVE  /\ Job \in Jobs
           /\ Job.do \in {"move", "follow", "rewrite"}
           /\ Job.do = "move" => Job.kind \in Kinds /\ Job.from \in Legacy
           /\ Job.do = "follow" => Job.kind \in Pointers
BY PlanType DEF Running, Job, Jobs

LEMMA KindsParts ==
    /\ Pointers \subseteq Kinds /\ Directories \subseteq Kinds /\ "config" \in Kinds
    /\ Pointers \intersect Directories = {} /\ "config" \notin Pointers \union Directories
    /\ \A k \in Pointers : Names(k) \subseteq Directories
BY DEF Kinds, Pointers, Directories, Names

LEMMA SourceOfStep ==
    ASSUME NamesTypeOK, Running, Job.do # "rewrite",
           Job.do = "follow" => Outdated(store[Job.kind]["new"])
    PROVE  /\ Kind \in Kinds /\ From \in Legacy
           /\ Job.do = "follow" =>
                /\ Kind \in Directories /\ Job.kind \in Pointers /\ Kind # Job.kind
                /\ Kind \in Names(Job.kind)
                /\ store[Job.kind]["new"] \in PointerFiles
<1>1. CASE Job.do = "follow"
  <2>1. Job.kind \in Pointers /\ "new" \in Places
    BY <1>1, JobType, SourceType
  <2>2. store[Job.kind]["new"] \in PointerFiles /\ store[Job.kind]["new"].to.dir \in Names(Job.kind)
    BY <1>1, <2>1 DEF NamesTypeOK, Outdated, Nothing
  <2> QED BY <1>1, <2>1, <2>2, KindsParts DEF Kind, From, Pointed, Outdated
<1>2. CASE Job.do = "move"
  BY <1>2, JobType DEF Kind, From
<1> QED BY <1>1, <1>2, JobType

LEMMA MovedEffect ==
    ASSUME NamesTypeOK, Running, Moved
    PROVE  /\ pos' \in 0..Finished /\ doing' \in {"look", "make"}
           /\ doing' = "make" => pos' = pos /\ Job.do = "follow"
BY PlanLength DEF Moved, Then, Advance, Running

LEMMA SteadyMoved ==
    ASSUME NamesTypeOK, Running, Moved,
           Job.do = "follow" => Outdated(store'[Job.kind]["new"])
    PROVE  Steady'
<1>1. CASE doing' = "look"
  BY <1>1 DEF Steady
<1>2. CASE doing' = "make"
  <2>1. pos' = pos /\ Job.do = "follow"
    BY <1>2, MovedEffect
  <2> QED BY <1>2, <2>1 DEF Steady, Running, Job
<1> QED BY <1>1, <1>2, MovedEffect

(* In the middle of a move, the place it is from and to stay the same. *)
LEMMA SameSource ==
    ASSUME pos' = pos,
           Job.do = "follow" => store'[Job.kind]["new"] = store[Job.kind]["new"]
    PROVE  Job' = Job /\ Kind' = Kind /\ From' = From
BY DEF Job, Kind, From, Pointed

LEMMA SaneLook ==
    ASSUME Sane, Look
    PROVE  Sane'
<1> USE DEF Sane
<1>1. Running /\ doing = "look" /\ Job.do # "rewrite" /\ UNCHANGED <<store, nameLeft, begun>>
  BY DEF Look
<1>2. CASE Job.do = "follow" /\ ~Outdated(store[Job.kind]["new"]) /\ Advance
  <2>1. pos' \in 0..Finished /\ doing' = "look"
    BY <1>1, <1>2, PlanLength DEF Advance, Running
  <2> QED BY <1>1, <2>1 DEF NamesTypeOK, Steady
<1>3. CASE /\ Job.do = "follow" => Outdated(store[Job.kind]["new"])
           /\ Movable(Kind, From) /\ Then("rename")
  <2>1. pos' = pos /\ doing' = "rename"
    BY <1>3 DEF Then
  <2>2. Job' = Job /\ Kind' = Kind /\ From' = From
    BY <1>1, <2>1, SameSource
  <2>3. Movable(Kind, From)' /\ Running'
    BY <1>1, <1>3, <2>1, <2>2 DEF Movable, Exists, Running
  <2>4. Steady'
    BY <1>1, <1>3, <2>1, <2>2, <2>3 DEF Steady
  <2> QED BY <1>1, <2>1, <2>4 DEF NamesTypeOK, Doings
<1>4. CASE /\ Job.do = "follow" => Outdated(store[Job.kind]["new"])
           /\ Moved
  <2>1. Steady'
    BY <1>1, <1>4, SteadyMoved
  <2>2. pos' \in 0..Finished /\ doing' \in Doings
    BY <1>1, <1>4, MovedEffect DEF Doings
  <2> QED BY <1>1, <2>1, <2>2 DEF NamesTypeOK
<1> QED BY <1>2, <1>3, <1>4 DEF Look

LEMMA SaneRename ==
    ASSUME Sane, Rename
    PROVE  Sane'
<1> USE DEF Sane
<1>1. Running /\ doing = "rename" /\ UNCHANGED <<nameLeft, begun>>
  BY DEF Rename
<1>2. /\ Job.do # "rewrite" /\ Movable(Kind, From)
      /\ Job.do = "follow" => Outdated(store[Job.kind]["new"])
  BY <1>1 DEF Steady
<1>3. PICK k \in Kinds, p \in Legacy : k = Kind /\ p = From
  BY <1>1, <1>2, SourceOfStep
<1>4. CASE /\ store' = [store EXCEPT ![Kind]["new"] = store[Kind][From],
                                     ![Kind][From] = Nothing]
           /\ Moved
  <2>1. Fitting(store)
    BY NamesTypeFits
  <2>2. store' = Carried(store, k, p)
    BY <1>3, <1>4 DEF Carried
  <2>3. /\ Fitting(store')
        /\ \A j \in Kinds, q \in Places :
              j # k \/ q \notin {p, "new"} => store'[j][q] = store[j][q]
    BY <2>1, <2>2, MoveEffect
  <2>4. Job.do = "follow" => store'[Job.kind]["new"] = store[Job.kind]["new"]
    BY <1>1, <1>2, <1>3, <2>3, SourceOfStep, SourceType, KindsParts
  <2>5. Steady'
    BY <1>1, <1>2, <1>4, <2>4, SteadyMoved
  <2>6. pos' \in 0..Finished /\ doing' \in Doings
    BY <1>1, <1>4, MovedEffect DEF Doings
  <2>7. NamesTypeOK'
    <3>1. /\ nameLeft' \in Nat /\ begun' \in [Kinds -> [Places -> Contents]]
      BY <1>1 DEF NamesTypeOK
    <3> QED BY <2>3, <2>6, <3>1, NamesTypeNext
  <2> QED BY <2>5, <2>7
<1>5. CASE Then("publish") /\ UNCHANGED store
  <2>1. pos' = pos /\ doing' = "publish"
    BY <1>5 DEF Then
  <2>2. Job' = Job /\ Kind' = Kind /\ From' = From
    BY <1>5, <2>1, SameSource
  <2>3. Movable(Kind, From)' /\ Running'
    BY <1>1, <1>2, <1>5, <2>1, <2>2 DEF Movable, Exists, Running
  <2>4. Steady'
    BY <1>1, <1>2, <1>5, <2>1, <2>2, <2>3 DEF Steady
  <2> QED BY <1>1, <1>5, <2>1, <2>4 DEF NamesTypeOK, Doings
<1> QED BY <1>4, <1>5 DEF Rename
LEMMA SanePublish ==
    ASSUME Sane, Publish
    PROVE  Sane'
<1> USE DEF Sane
<1>1. Running /\ doing = "publish" /\ UNCHANGED <<nameLeft, begun>> /\ pos' = pos
      /\ doing' = "clean"
  BY DEF Publish, Then
<1>2. /\ Job.do # "rewrite" /\ Movable(Kind, From)
      /\ Job.do = "follow" => Outdated(store[Job.kind]["new"])
  BY <1>1 DEF Steady
<1>3. PICK k \in Kinds, p \in Legacy : k = Kind /\ p = From
  BY <1>1, <1>2, SourceOfStep
<1>4. Fitting(store) /\ p \in Places /\ "new" \in Places /\ p # "new"
  BY NamesTypeFits, SourceType
<1>5. store[k][p] \in Contents /\ Fits(k, store[k][p]) /\ store[k][p] # Nothing
  BY <1>2, <1>3, <1>4 DEF Fitting, Movable, Exists
<1>6. store' = Put(store, k, "new", store[k][p])
  BY <1>3 DEF Publish, Put
<1>7. /\ Fitting(store') /\ store'[k]["new"] = store[k][p]
      /\ \A j \in Kinds, q \in Places : j # k \/ q # "new" => store'[j][q] = store[j][q]
  BY <1>4, <1>5, <1>6, PutEffect
<1>8. Job.do = "follow" => store'[Job.kind]["new"] = store[Job.kind]["new"]
  BY <1>1, <1>2, <1>3, <1>4, <1>7, SourceOfStep, KindsParts
<1>9. Job' = Job /\ Kind' = k /\ From' = p
  BY <1>1, <1>3, <1>8, SameSource
<1>10. store'[k][p] = store[k][p]
  BY <1>4, <1>7
<1>11. Exists(Kind, From)' /\ (store[Kind]["new"] = store[Kind][From])'
  BY <1>5, <1>7, <1>9, <1>10 DEF Exists
<1>12. Steady'
  BY <1>1, <1>2, <1>8, <1>9, <1>11 DEF Steady, Running
<1>13. NamesTypeOK'
  <2>1. /\ nameLeft' \in Nat /\ begun' \in [Kinds -> [Places -> Contents]]
        /\ pos' \in 0..Finished /\ doing' \in Doings
    BY <1>1 DEF NamesTypeOK, Doings
  <2> QED BY <1>7, <2>1, NamesTypeNext
<1> QED BY <1>12, <1>13

LEMMA SaneClean ==
    ASSUME Sane, Clean
    PROVE  Sane'
<1> USE DEF Sane
<1>1. Running /\ doing = "clean" /\ UNCHANGED <<nameLeft, begun>> /\ Moved
  BY DEF Clean
<1>2. /\ Job.do # "rewrite"
      /\ Job.do = "follow" => Outdated(store[Job.kind]["new"])
  BY <1>1 DEF Steady
<1>3. PICK k \in Kinds, p \in Legacy : k = Kind /\ p = From
  BY <1>1, <1>2, SourceOfStep
<1>4. Fitting(store) /\ p \in Places /\ "new" \in Places /\ p # "new"
      /\ Nothing \in Contents /\ Fits(k, Nothing)
  BY NamesTypeFits, SourceType
<1>5. PICK c : c = Nothing
  OBVIOUS
<1>6. store' = Put(store, k, p, c)
  BY <1>3, <1>5 DEF Clean, Put
<1>7. /\ Fitting(store')
      /\ \A j \in Kinds, q \in Places : j # k \/ q # p => store'[j][q] = store[j][q]
  BY <1>4, <1>5, <1>6, PutEffect
<1>8. Job.do = "follow" => store'[Job.kind]["new"] = store[Job.kind]["new"]
  BY <1>1, <1>2, <1>3, <1>4, <1>7, SourceOfStep, KindsParts
<1>9. Steady'
  BY <1>1, <1>2, <1>8, SteadyMoved
<1>10. NamesTypeOK'
  <2>1. /\ nameLeft' \in Nat /\ begun' \in [Kinds -> [Places -> Contents]]
    BY <1>1 DEF NamesTypeOK
  <2>2. pos' \in 0..Finished /\ doing' \in Doings
    BY <1>1, MovedEffect DEF Doings
  <2> QED BY <1>7, <2>1, <2>2, NamesTypeNext
<1> QED BY <1>9, <1>10

LEMMA SaneMake ==
    ASSUME Sane, Make
    PROVE  Sane'
<1> USE DEF Sane
<1>1. Running /\ doing = "make" /\ UNCHANGED <<nameLeft, begun>> /\ pos' = pos
      /\ doing' = "point"
  BY DEF Make, Then
<1>2. Job.do = "follow" /\ Outdated(store[Job.kind]["new"])
  BY <1>1 DEF Steady
<1>3. PICK k \in Directories : k = Kind /\ k # Job.kind
  BY <1>1, <1>2, SourceOfStep
<1>4. Fitting(store) /\ "new" \in Places /\ Empty \in Contents /\ Fits(k, Empty) /\ k \in Kinds
  BY NamesTypeFits, SourceType, KindsParts
<1>5. /\ Fitting(store')
      /\ \A j \in Kinds, q \in Places : j # k \/ q # "new" => store'[j][q] = store[j][q]
  <2>1. CASE store' = store
    BY <1>4, <2>1
  <2>2. CASE store' = [store EXCEPT ![Kind]["new"] = Empty]
    <3>1. PICK c : c = Empty
      OBVIOUS
    <3>2. store' = Put(store, k, "new", c)
      BY <1>3, <2>2, <3>1 DEF Put
    <3> QED BY <1>4, <3>1, <3>2, PutEffect
  <2> QED BY <2>1, <2>2 DEF Make
<1>6. store'[Job.kind]["new"] = store[Job.kind]["new"]
  BY <1>1, <1>2, <1>3, <1>4, <1>5, JobType, KindsParts
<1>7. Job' = Job
  BY <1>1, <1>6, SameSource
<1>8. Steady'
  BY <1>1, <1>2, <1>6, <1>7 DEF Steady, Running
<1>9. NamesTypeOK'
  <2>1. /\ nameLeft' \in Nat /\ begun' \in [Kinds -> [Places -> Contents]]
        /\ pos' \in 0..Finished /\ doing' \in Doings
    BY <1>1 DEF NamesTypeOK, Doings
  <2> QED BY <1>5, <2>1, NamesTypeNext
<1> QED BY <1>8, <1>9

(* The pointer that Point writes is the one that was there, renewed.        *)
LEMMA PointEffect ==
    ASSUME Sane, Point
    PROVE  \E k \in Pointers :
             /\ k = Job.kind
             /\ Outdated(store[k]["new"]) /\ store[k]["new"] \in PointerFiles
             /\ store' = Put(store, k, "new", Renewed(store[k]["new"]))
             /\ Renewed(store[k]["new"]) \in PointerFiles
             /\ Renewed(store[k]["new"]).to.dir \in Names(k)
             /\ Renewed(store[k]["new"]).to.place = "new"
<1> USE DEF Sane
<1>1. Running /\ doing = "point"
  BY DEF Point
<1>2. Job.do = "follow" /\ Outdated(store[Job.kind]["new"])
  BY <1>1 DEF Steady
<1>3. PICK k \in Pointers : k = Job.kind
  BY <1>1, <1>2, JobType
<1>4. PICK c \in PointerFiles : c = store[k]["new"] /\ Outdated(c)
  BY <1>1, <1>2, <1>3, SourceOfStep
<1>5. Kind = c.to.dir /\ Kind \in Names(k)
  BY <1>1, <1>2, <1>3, <1>4, SourceOfStep DEF Kind, Pointed
<1>6. /\ c.to.dir \in Directories /\ c.to = [dir |-> c.to.dir, place |-> c.to.place]
      /\ c.is = "pointer" /\ c = [is |-> "pointer", to |-> c.to]
  BY <1>4 DEF PointerFiles, Targets
<1>7. Renewed(c) = [c EXCEPT !.to = [@ EXCEPT !.place = "new"]]
  BY <1>6 DEF Renewed
<1>8. Renewed(c) = [is |-> "pointer", to |-> [dir |-> c.to.dir, place |-> "new"]]
  BY <1>6, <1>7
<1>9. Renewed(c) \in PointerFiles /\ Renewed(c).to.dir = c.to.dir /\ Renewed(c).to.place = "new"
  BY <1>6, <1>8, SourceType DEF PointerFiles, Targets
<1>10. store' = Put(store, k, "new", Renewed(c))
  BY <1>3, <1>5, <1>8 DEF Point, Put
<1> QED BY <1>3, <1>4, <1>5, <1>9, <1>10

LEMMA SanePoint ==
    ASSUME Sane, Point
    PROVE  Sane'
<1> USE DEF Sane
<1>1. Running /\ doing = "point" /\ UNCHANGED <<nameLeft, begun>> /\ pos' = pos + 1
      /\ doing' = "look"
  BY DEF Point, Advance
<1>2. PICK k \in Pointers : \E c :
         c \in PointerFiles /\ c.to.dir \in Names(k) /\ store' = Put(store, k, "new", c)
  BY PointEffect
<1>3. PICK c : c \in PointerFiles /\ c.to.dir \in Names(k) /\ store' = Put(store, k, "new", c)
  BY <1>2
<1>4. Fitting(store) /\ "new" \in Places /\ c \in Contents /\ k \in Kinds /\ Fits(k, c)
  BY <1>3, NamesTypeFits, SourceType, KindsParts DEF Contents, Fits
<1>5. Fitting(store')
  BY <1>3, <1>4, PutEffect
<1>6. Steady'
  BY <1>1 DEF Steady
<1>7. /\ nameLeft' \in Nat /\ begun' \in [Kinds -> [Places -> Contents]]
      /\ pos' \in 0..Finished /\ doing' \in Doings
  BY <1>1, PlanLength DEF NamesTypeOK, Doings, Running
<1> QED BY <1>5, <1>6, <1>7, NamesTypeNext

LEMMA RewrittenType ==
    ASSUME NEW c \in Settings
    PROVE  Rewritten(c) \in Settings
BY DEF Settings, Rewritten, Keys, Values, FirstOf
LEMMA RewriteEffect ==
    ASSUME Sane, Rewrite, store' # store
    PROVE  /\ store["config"]["new"] \in Settings
           /\ Rewritten(store["config"]["new"]) \in Settings
           /\ store' = Put(store, "config", "new", Rewritten(store["config"]["new"]))
<1>1. /\ store["config"]["new"] # Malformed /\ store["config"]["new"] # Nothing
      /\ store' = [store EXCEPT !["config"]["new"] = Rewritten(@)]
  BY DEF Rewrite, Exists
<1>2. store["config"]["new"] \in Settings
  BY <1>1, SourceType DEF Sane, NamesTypeOK
<1>3. store' = Put(store, "config", "new", Rewritten(store["config"]["new"]))
  BY <1>1 DEF Put
<1> QED BY <1>2, <1>3, RewrittenType

LEMMA SaneRewrite ==
    ASSUME Sane, Rewrite
    PROVE  Sane'
<1> USE DEF Sane
<1>1. /\ Running /\ doing = "look" /\ doing' = "look" /\ UNCHANGED <<nameLeft, begun>>
      /\ pos' \in {0, pos + 1}
  BY DEF Rewrite, Advance
<1>2. Fitting(store')
  <2>1. Fitting(store) /\ "new" \in Places /\ "config" \in Kinds
    BY NamesTypeFits, SourceType, KindsParts
  <2>2. CASE store' # store
    <3>1. PICK c \in Settings : store' = Put(store, "config", "new", c)
      BY <2>2, RewriteEffect
    <3>2. c \in Contents /\ Fits("config", c)
      BY <3>1, KindsParts DEF Contents, Fits
    <3> QED BY <2>1, <3>1, <3>2, PutEffect
  <2> QED BY <2>1, <2>2
<1>3. /\ nameLeft' \in Nat /\ begun' \in [Kinds -> [Places -> Contents]]
      /\ pos' \in 0..Finished /\ doing' \in Doings
  BY <1>1, PlanLength DEF NamesTypeOK, Doings, Running
<1>4. Steady'
  BY <1>1 DEF Steady
<1> QED BY <1>2, <1>3, <1>4, NamesTypeNext

LEMMA SaneStep == Sane /\ [NamesNext]_namesVars => Sane'
<1> SUFFICES ASSUME Sane, [NamesNext]_namesVars
             PROVE  Sane'
  OBVIOUS
<1>1. CASE UNCHANGED namesVars
  BY <1>1 DEF namesVars, Sane, NamesTypeOK, Steady, Running, Job, Kind, From, Pointed, Movable,
              Exists
<1>2. CASE Begin \/ Break
  <2>1. /\ UNCHANGED <<store, begun>> /\ doing' = "look" /\ pos' \in {0, 1}
        /\ nameLeft' \in Nat
    BY <1>2 DEF Begin, Break, Sane, NamesTypeOK
  <2>2. Steady'
    BY <2>1 DEF Steady
  <2>3. NamesTypeOK'
    BY <2>1, PlanLength DEF Sane, NamesTypeOK, Doings
  <2> QED BY <2>2, <2>3 DEF Sane
<1> QED BY <1>1, <1>2, SaneLook, SaneRename, SanePublish, SaneClean, SaneMake, SanePoint,
           SaneRewrite DEF NamesNext

LEMMA SaneInit == NamesInit => Sane
<1> SUFFICES ASSUME NEW start \in NameStarts, NamesInitWith(start)
             PROVE  Sane
  BY DEF NamesInit
<1>1. /\ start \in [store : [Kinds -> [Places -> Contents]], faults : Nat]
      /\ \A k \in Directories, p \in Places :
            start.store[k][p] \in {Nothing, [is |-> "data", from |-> p]}
      /\ \A k \in Pointers, p \in Places :
            \/ start.store[k][p] = Nothing
            \/ start.store[k][p] \in PointerFiles /\ start.store[k][p].to.dir \in Names(k)
      /\ \A p \in Places : start.store["config"][p] \in {Nothing, Malformed} \union Settings
  BY NameAssumption
<1>2. store = start.store /\ begun = start.store /\ pos = 0 /\ doing = "look"
      /\ nameLeft = start.faults
  BY DEF NamesInitWith
<1>3. \A k \in Directories, p \in Places : store[k][p] \in {Nothing, Empty} \union Data
  <2>1. \A p \in Places : [is |-> "data", from |-> p] \in Data
    BY DEF Data
  <2> QED BY <1>1, <1>2, <2>1
<1>4. /\ store \in [Kinds -> [Places -> Contents]] /\ begun \in [Kinds -> [Places -> Contents]]
      /\ nameLeft \in Nat
  BY <1>1, <1>2
<1>5. NamesTypeOK
  BY <1>1, <1>2, <1>3, <1>4, PlanLength DEF NamesTypeOK, Doings
<1>6. Steady
  BY <1>2 DEF Steady
<1> QED BY <1>5, <1>6 DEF Sane

(* A place holds what belongs there, in every run and after every failure.  *)
THEOREM NamesTypes == NamesSpec => []NamesTypeOK
<1>1. Sane /\ [NamesNext]_namesVars => Sane'
  BY SaneStep
<1>2. Sane => NamesTypeOK
  BY DEF Sane
<1> QED BY SaneInit, <1>1, <1>2, PTL DEF NamesSpec

-----------------------------------------------------------------------------
(* Nothing is lost: what was there at the start is somewhere.               *)

LEMMA RewrittenTwice ==
    ASSUME NEW c \in Settings
    PROVE  Rewritten(Rewritten(c)) = Rewritten(c)
<1>1. PICK d : d = Rewritten(c)
  OBVIOUS
<1>2. /\ d \in Settings
      /\ d.key["other"] = c.key["other"]
      /\ \A k \in {"outdated", "legacy", "dead"} : d.key[k] = "none"
  BY <1>1, RewrittenType DEF Settings, Rewritten, Keys
<1>3. FirstOf(d.key["current"], FirstOf(d.key["outdated"], d.key["legacy"])) = d.key["current"]
  BY <1>2 DEF FirstOf
<1>4. Rewritten(d).key = d.key
  BY <1>2, <1>3 DEF Settings, Rewritten, Keys
<1>5. Rewritten(d) = [d EXCEPT !.key = Rewritten(d).key]
  BY <1>2 DEF Settings, Rewritten
<1>6. Rewritten(d) = d
  BY <1>2, <1>4, <1>5 DEF Settings
<1> QED BY <1>1, <1>6

(* Renewing makes nothing disappear, and twice is as good as once.          *)
LEMMA RenewedIs ==
    ASSUME NEW c \in Contents, c # Nothing
    PROVE  /\ Renewed(c) # Nothing
           /\ Renewed(c) \in Settings => c \in Settings /\ Renewed(c) = Rewritten(c)
           /\ Renewed(c) \in PointerFiles => c \in PointerFiles /\ Renewed(c).to.place = "new"
<1>1. CASE c \in Settings
  BY <1>1, RewrittenType DEF Renewed, Settings, PointerFiles, Nothing
<1>2. CASE c \in PointerFiles
  BY <1>2 DEF Renewed, Settings, PointerFiles, Nothing, Targets
<1>3. CASE c \in Data \union {Nothing, Empty, Malformed}
  BY <1>3 DEF Renewed, Settings, PointerFiles, Data, Nothing, Empty, Malformed
<1> QED BY <1>1, <1>2, <1>3 DEF Contents

(* A step keeps everything when what was at some place still is at one.     *)
LEMMA KeptStep ==
    ASSUME Sane, NamesKept, begun' = begun,
           \A k \in Kinds, p \in Places, b \in Contents :
              b # Nothing /\ store[k][p] \in {b, Renewed(b)} =>
                \E q \in Places : store'[k][q] \in {b, Renewed(b)}
    PROVE  NamesKept'
<1> SUFFICES ASSUME NEW k \in Kinds, NEW p \in Places, begun[k][p] # Nothing
             PROVE  \E q \in Places : store'[k][q] \in {begun[k][p], Renewed(begun[k][p])}
  BY DEF NamesKept, Renewed
<1>1. begun[k][p] \in Contents
  BY DEF Sane, NamesTypeOK
<1>2. PICK q \in Places : store[k][q] \in {begun[k][p], Renewed(begun[k][p])}
  BY DEF NamesKept
<1> QED BY <1>1, <1>2
LEMMA KeptRename ==
    ASSUME Sane, NamesKept, Rename
    PROVE  NamesKept'
<1>1. Running /\ doing = "rename" /\ begun' = begun
  BY DEF Rename
<1>2. /\ Movable(Kind, From) /\ NamesTypeOK /\ Fitting(store)
      /\ \E k \in Kinds, p \in Legacy : k = Kind /\ p = From
  BY <1>1, SourceOfStep, NamesTypeFits DEF Sane, Steady
<1>3. PICK k \in Kinds, p \in Legacy : k = Kind /\ p = From
  BY <1>2
<1>4. CASE store' = store
  BY <1>1, <1>4, KeptStep
<1>5. CASE store' = [store EXCEPT ![Kind]["new"] = store[Kind][From], ![Kind][From] = Nothing]
  <2>1. store' = Carried(store, k, p)
    BY <1>3, <1>5 DEF Carried
  <2>2. /\ store'[k]["new"] = store[k][p]
        /\ \A j \in Kinds, q \in Places :
              j # k \/ q \notin {p, "new"} => store'[j][q] = store[j][q]
    BY <1>2, <2>1, MoveEffect
  <2>3. store[k]["new"] = Nothing
    BY <1>2, <1>3 DEF Movable, Exists
  <2> SUFFICES ASSUME NEW j \in Kinds, NEW q \in Places, NEW b \in Contents, b # Nothing,
                      store[j][q] \in {b, Renewed(b)}
               PROVE  \E r \in Places : store'[j][r] \in {b, Renewed(b)}
    BY <1>1, KeptStep
  <2>4. store[j][q] # Nothing
    BY RenewedIs
  <2>5. CASE j = k /\ q = p
    BY <2>2, <2>5, SourceType
  <2>6. CASE j = k /\ q = "new"
    BY <2>3, <2>4, <2>6
  <2>7. CASE j # k \/ q \notin {p, "new"}
    BY <2>2, <2>7
  <2> QED BY <2>5, <2>6, <2>7
<1> QED BY <1>4, <1>5 DEF Rename

LEMMA KeptPublish ==
    ASSUME Sane, NamesKept, Publish
    PROVE  NamesKept'
<1>1. Running /\ doing = "publish" /\ begun' = begun
  BY DEF Publish
<1>2. /\ Movable(Kind, From) /\ NamesTypeOK /\ Fitting(store)
      /\ \E k \in Kinds, p \in Legacy : k = Kind /\ p = From
  BY <1>1, SourceOfStep, NamesTypeFits DEF Sane, Steady
<1>3. PICK k \in Kinds, p \in Legacy : k = Kind /\ p = From
  BY <1>2
<1>4. \A j \in Kinds, q \in Places : j # k \/ q # "new" => store'[j][q] = store[j][q]
  BY <1>2, <1>3 DEF Publish, Fitting
<1>5. store[k]["new"] = Nothing
  BY <1>2, <1>3 DEF Movable, Exists
<1> SUFFICES ASSUME NEW j \in Kinds, NEW q \in Places, NEW b \in Contents, b # Nothing,
                    store[j][q] \in {b, Renewed(b)}
             PROVE  \E r \in Places : store'[j][r] \in {b, Renewed(b)}
  BY <1>1, KeptStep
<1>6. store[j][q] # Nothing
  BY RenewedIs
<1> QED BY <1>4, <1>5, <1>6

LEMMA KeptClean ==
    ASSUME Sane, NamesKept, Clean
    PROVE  NamesKept'
<1>1. Running /\ doing = "clean" /\ begun' = begun
  BY DEF Clean
<1>2. /\ store[Kind]["new"] = store[Kind][From] /\ NamesTypeOK /\ Fitting(store)
      /\ \E k \in Kinds, p \in Legacy : k = Kind /\ p = From
  BY <1>1, SourceOfStep, NamesTypeFits DEF Sane, Steady
<1>3. PICK k \in Kinds, p \in Legacy : k = Kind /\ p = From
  BY <1>2
<1>4. \A j \in Kinds, q \in Places : j # k \/ q # p => store'[j][q] = store[j][q]
  BY <1>2, <1>3 DEF Clean, Fitting
<1>5. store'[k]["new"] = store[k][p]
  BY <1>2, <1>3, <1>4, SourceType
<1> SUFFICES ASSUME NEW j \in Kinds, NEW q \in Places, NEW b \in Contents, b # Nothing,
                    store[j][q] \in {b, Renewed(b)}
             PROVE  \E r \in Places : store'[j][r] \in {b, Renewed(b)}
  BY <1>1, KeptStep
<1>6. CASE j = k /\ q = p
  BY <1>5, <1>6, SourceType
<1>7. CASE j # k \/ q # p
  BY <1>4, <1>7
<1> QED BY <1>6, <1>7

LEMMA KeptMake ==
    ASSUME Sane, NamesKept, Make
    PROVE  NamesKept'
<1>1. Running /\ doing = "make" /\ begun' = begun
  BY DEF Make
<1>2. NamesTypeOK /\ Fitting(store)
  BY NamesTypeFits DEF Sane
<1>3. CASE store' = store
  BY <1>1, <1>3, KeptStep
<1>4. CASE ~Exists(Kind, "new") /\ store' = [store EXCEPT ![Kind]["new"] = Empty]
  <2>1. \A j \in Kinds, q \in Places : j # Kind \/ q # "new" => store'[j][q] = store[j][q]
    BY <1>2, <1>4 DEF Fitting
  <2> SUFFICES ASSUME NEW j \in Kinds, NEW q \in Places, NEW b \in Contents, b # Nothing,
                      store[j][q] \in {b, Renewed(b)}
               PROVE  \E r \in Places : store'[j][r] \in {b, Renewed(b)}
    BY <1>1, KeptStep
  <2>2. store[j][q] # Nothing
    BY RenewedIs
  <2> QED BY <1>4, <2>1, <2>2 DEF Exists
<1> QED BY <1>3, <1>4 DEF Make

LEMMA KeptPoint ==
    ASSUME Sane, NamesKept, Point
    PROVE  NamesKept'
<1>1. begun' = begun /\ NamesTypeOK /\ Fitting(store)
  BY NamesTypeFits DEF Sane, Point
<1>2. PICK k \in Pointers :
        /\ Outdated(store[k]["new"]) /\ store[k]["new"] \in PointerFiles
        /\ store' = Put(store, k, "new", Renewed(store[k]["new"]))
  BY PointEffect
<1>3. /\ store'[k]["new"] = Renewed(store[k]["new"])
      /\ \A j \in Kinds, q \in Places : j # k \/ q # "new" => store'[j][q] = store[j][q]
  BY <1>1, <1>2, KindsParts, SourceType DEF Put, Fitting
<1> SUFFICES ASSUME NEW j \in Kinds, NEW q \in Places, NEW b \in Contents, b # Nothing,
                    store[j][q] \in {b, Renewed(b)}
             PROVE  \E r \in Places : store'[j][r] \in {b, Renewed(b)}
  BY <1>1, KeptStep
<1>4. CASE j = k /\ q = "new"
  <2>1. store[k]["new"].to.place \in Legacy
    BY <1>2 DEF Outdated
  <2>2. store[k]["new"] = b
    BY <1>2, <1>4, <2>1, RenewedIs, SourceType
  <2> QED BY <1>3, <1>4, <2>2
<1>5. CASE j # k \/ q # "new"
  BY <1>3, <1>5
<1> QED BY <1>4, <1>5

LEMMA KeptRewrite ==
    ASSUME Sane, NamesKept, Rewrite
    PROVE  NamesKept'
<1>1. begun' = begun /\ NamesTypeOK /\ Fitting(store)
  BY NamesTypeFits DEF Sane, Rewrite
<1>2. CASE store' = store
  BY <1>1, <1>2, KeptStep
<1>3. CASE store' # store
  <2>1. PICK c \in Settings : /\ c = store["config"]["new"] /\ Rewritten(c) \in Settings
                              /\ store' = Put(store, "config", "new", Rewritten(c))
    BY <1>3, RewriteEffect
  <2>2. /\ store'["config"]["new"] = Rewritten(c)
        /\ \A j \in Kinds, q \in Places : j # "config" \/ q # "new" => store'[j][q] = store[j][q]
    BY <1>1, <2>1, KindsParts, SourceType DEF Put, Fitting
  <2> SUFFICES ASSUME NEW j \in Kinds, NEW q \in Places, NEW b \in Contents, b # Nothing,
                      store[j][q] \in {b, Renewed(b)}
               PROVE  \E r \in Places : store'[j][r] \in {b, Renewed(b)}
    BY <1>1, KeptStep
  <2>3. CASE j = "config" /\ q = "new"
    <3>1. CASE c = b
      <4>1. Renewed(b) = Rewritten(c)
        BY <2>1, <3>1 DEF Renewed, Settings
      <4> QED BY <2>2, <2>3, <4>1
    <3>2. CASE c = Renewed(b)
      <4>1. b \in Settings /\ c = Rewritten(b)
        BY <2>1, <3>2, RenewedIs
      <4>2. Rewritten(c) = c
        BY <4>1, RewrittenTwice
      <4> QED BY <2>2, <2>3, <3>2, <4>2
    <3> QED BY <2>1, <2>3, <3>1, <3>2
  <2>4. CASE j # "config" \/ q # "new"
    BY <2>2, <2>4
  <2> QED BY <2>3, <2>4
<1> QED BY <1>2, <1>3

LEMMA KeptNext == Sane /\ NamesKept /\ [NamesNext]_namesVars => NamesKept'
<1> SUFFICES ASSUME Sane, NamesKept, [NamesNext]_namesVars
             PROVE  NamesKept'
  OBVIOUS
<1>1. CASE UNCHANGED <<store, begun>>
  BY <1>1, KeptStep
<1> QED BY <1>1, KeptRename, KeptPublish, KeptClean, KeptMake, KeptPoint, KeptRewrite
        DEF NamesNext, namesVars, Begin, Look, Break

(* Nothing an earlier release left is lost, wherever a run fails or is      *)
(* killed: a name is removed only when the new one holds the same, and only *)
(* a name that was free, a pointer that is outdated or settings that are    *)
(* well formed are written over.                                            *)
THEOREM NamesAreKept == NamesSpec => []NamesKept
<1>1. Sane /\ [NamesNext]_namesVars => Sane'
  BY SaneStep
<1>2. Sane /\ NamesKept /\ [NamesNext]_namesVars => NamesKept'
  BY KeptNext
<1>3. NamesInit => NamesKept
  BY DEF NamesInit, NamesInitWith, NamesKept
<1> QED BY SaneInit, <1>1, <1>2, <1>3, PTL DEF NamesSpec

-----------------------------------------------------------------------------
(* What a run that got through leaves.                                      *)

LEMMA PlanIs ==
    /\ Plan[1] = MoveStep("state-dir", "governor")
    /\ Plan[2] = MoveStep("federation-dir", "governor")
    /\ Plan[3] = MoveStep("instances", "governor")
    /\ Plan[4] = MoveStep("state-dir", "cmg")
    /\ Plan[5] = MoveStep("federation-dir", "cmg")
    /\ Plan[6] = MoveStep("instances", "cmg")
    /\ Plan[7] = MoveStep("cache", "governor")
    /\ Plan[8] = MoveStep("cache", "cmg")
    /\ Plan[9] = [do |-> "follow", kind |-> "state-dir", from |-> "new"]
    /\ Plan[10] = [do |-> "follow", kind |-> "federation-dir", from |-> "new"]
    /\ Plan[11] = MoveStep("config", "governor")
    /\ Plan[12] = MoveStep("config", "cmg")
    /\ Plan[13] = [do |-> "rewrite", kind |-> "config", from |-> "new"]
BY DEF Plan

(* The plan: a name of the Governor before the same of CMG, every directory *)
(* with a step of its own before any pointer is followed, then the config.  *)
LEMMA PlanOrder ==
    /\ \A i \in 1..13 : Plan[i].do = "move" => Plan[i].kind # "volume"
    /\ \A i \in 1..13 : Plan[i].do = "move" /\ Plan[i].from = "cmg" =>
          \E j \in 1..13 : j < i /\ Plan[j] = MoveStep(Plan[i].kind, "governor")
    /\ \A i \in 1..13 : Plan[i].do = "follow" => i \in {9, 10}
    /\ \A k \in {"cache", "instances"}, p \in Legacy :
          \E j \in 1..8 : Plan[j] = MoveStep(k, p)
    /\ \A k \in Kinds \ {"volume"}, p \in Legacy : \E j \in 1..13 : Plan[j] = MoveStep(k, p)
    /\ \A k \in Pointers : \E j \in {9, 10} : Plan[j].do = "follow" /\ Plan[j].kind = k
    /\ \A i \in 10..13 : Plan[i].do = "move" => Plan[i].kind = "config"
    /\ \A i \in 1..13 : Plan[i].do = "rewrite" <=> i = 13
    /\ \A k, p : MoveStep(k, p).do = "move" /\ MoveStep(k, p).kind = k /\ MoveStep(k, p).from = p
<1>1. \A i \in 1..13 : i \in {1, 2, 3, 4, 5, 6, 7, 8, 9, 10, 11, 12, 13}
  OBVIOUS
<1>2. \A k, p : MoveStep(k, p).do = "move" /\ MoveStep(k, p).kind = k /\ MoveStep(k, p).from = p
  BY DEF MoveStep
<1>3. /\ \A i \in 1..13 : Plan[i].do = "move" => Plan[i].kind # "volume"
      /\ \A i \in 1..13 : Plan[i].do = "follow" => i \in {9, 10}
      /\ \A i \in 10..13 : Plan[i].do = "move" => Plan[i].kind = "config"
      /\ \A i \in 1..13 : Plan[i].do = "rewrite" <=> i = 13
  BY <1>1, <1>2, PlanIs
<1>4. \A i \in 1..13 : Plan[i].do = "move" /\ Plan[i].from = "cmg" =>
          \E j \in 1..13 : j < i /\ Plan[j] = MoveStep(Plan[i].kind, "governor")
  <2> SUFFICES ASSUME NEW i \in {4, 5, 6, 8, 12}
               PROVE  \E j \in 1..13 : j < i /\ Plan[j] = MoveStep(Plan[i].kind, "governor")
    BY <1>1, <1>2, PlanIs
  <2> QED BY <1>2, PlanIs
<1>5. \A k \in {"cache", "instances"}, p \in Legacy :
          \E j \in 1..8 : Plan[j] = MoveStep(k, p)
  BY PlanIs DEF Legacy
<1>6. \A k \in Kinds \ {"volume"}, p \in Legacy : \E j \in 1..13 : Plan[j] = MoveStep(k, p)
  BY PlanIs DEF Legacy, Kinds, Pointers, Directories
<1>7. \A k \in Pointers : \E j \in {9, 10} : Plan[j].do = "follow" /\ Plan[j].kind = k
  BY PlanIs DEF Pointers
<1> QED BY <1>2, <1>3, <1>4, <1>5, <1>6, <1>7

(* How the new name of kind k changes in a step.                            *)
Arrives(k) ==
    /\ Running /\ doing \in {"rename", "publish"}
    /\ k = Kind /\ From \in Legacy /\ Movable(k, From)
    /\ store'[k]["new"] = store[k][From]
Made(k) ==
    /\ Running /\ doing = "make"
    /\ k = Kind /\ ~Exists(k, "new")
    /\ store'[k]["new"] = Empty
Follows(k) ==
    /\ Running /\ doing = "point" /\ k = Job.kind /\ k \in Pointers
    /\ Outdated(store[k]["new"]) /\ store[k]["new"] \in PointerFiles
    /\ store'[k]["new"] = Renewed(store[k]["new"])
    /\ store'[k]["new"].is = "pointer" /\ store'[k]["new"].to.place = "new"
Translated(k) ==
    /\ Running /\ Job.do = "rewrite" /\ k = "config"
    /\ store[k]["new"] \in Settings
    /\ store'[k]["new"] = Rewritten(store[k]["new"])

NameChanges(k) ==
    \/ store'[k]["new"] = store[k]["new"]
    \/ Arrives(k) \/ Made(k) \/ Follows(k) \/ Translated(k)

(* A step leaves the names of earlier releases alone or removes one whose   *)
(* successor is there, and takes no new name away.                          *)
Changes ==
    /\ begun' = begun
    /\ \A k \in Kinds :
          /\ NameChanges(k)
          /\ Exists(k, "new") => store'[k]["new"] # Nothing
          /\ \A p \in Legacy :
                \/ store'[k][p] = store[k][p]
                \/ store'[k][p] = Nothing /\ store'[k]["new"] # Nothing

LEMMA ChangesNone ==
    ASSUME UNCHANGED <<store, begun>>
    PROVE  Changes
BY DEF Changes, NameChanges, Exists

LEMMA ChangesRename ==
    ASSUME Sane, Rename
    PROVE  Changes
<1>1. Running /\ doing = "rename" /\ begun' = begun
  BY DEF Rename
<1>2. /\ Movable(Kind, From) /\ NamesTypeOK /\ Fitting(store)
      /\ \E k \in Kinds, p \in Legacy : k = Kind /\ p = From
  BY <1>1, SourceOfStep, NamesTypeFits DEF Sane, Steady
<1>3. PICK k \in Kinds, p \in Legacy : k = Kind /\ p = From
  BY <1>2
<1>4. CASE store' = store
  BY <1>1, <1>4, ChangesNone
<1>5. CASE store' = [store EXCEPT ![Kind]["new"] = store[Kind][From], ![Kind][From] = Nothing]
  <2>1. store' = Carried(store, k, p)
    BY <1>3, <1>5 DEF Carried
  <2>2. /\ store'[k]["new"] = store[k][p] /\ store'[k][p] = Nothing
        /\ \A j \in Kinds, q \in Places :
              j # k \/ q \notin {p, "new"} => store'[j][q] = store[j][q]
    BY <1>2, <2>1, MoveEffect
  <2>3. store[k]["new"] = Nothing /\ store[k][p] # Nothing
    BY <1>2, <1>3 DEF Movable, Exists
  <2>4. Arrives(k)
    BY <1>1, <1>2, <1>3, <2>2 DEF Arrives
  <2>5. ASSUME NEW j \in Kinds, j # k
        PROVE  \A q \in Places : store'[j][q] = store[j][q]
    BY <2>2, <2>5
  <2>6. \A q \in Legacy : q # p => store'[k][q] = store[k][q]
    BY <2>2, SourceType
  <2> QED BY <1>1, <2>2, <2>3, <2>4, <2>5, <2>6, SourceType DEF Changes, NameChanges, Exists
<1> QED BY <1>4, <1>5 DEF Rename

LEMMA ChangesPublish ==
    ASSUME Sane, Publish
    PROVE  Changes
<1>1. Running /\ doing = "publish" /\ begun' = begun
  BY DEF Publish
<1>2. /\ Movable(Kind, From) /\ NamesTypeOK /\ Fitting(store)
      /\ \E k \in Kinds, p \in Legacy : k = Kind /\ p = From
  BY <1>1, SourceOfStep, NamesTypeFits DEF Sane, Steady
<1>3. PICK k \in Kinds, p \in Legacy : k = Kind /\ p = From
  BY <1>2
<1>4. /\ store'[k]["new"] = store[k][p]
      /\ \A j \in Kinds, q \in Places : j # k \/ q # "new" => store'[j][q] = store[j][q]
  BY <1>2, <1>3, SourceType DEF Publish, Fitting
<1>5. store[k]["new"] = Nothing /\ store[k][p] # Nothing
  BY <1>2, <1>3 DEF Movable, Exists
<1>6. Arrives(k)
  BY <1>1, <1>2, <1>3, <1>4 DEF Arrives
<1> QED BY <1>1, <1>4, <1>5, <1>6, SourceType DEF Changes, NameChanges, Exists

LEMMA ChangesClean ==
    ASSUME Sane, Clean
    PROVE  Changes
<1>1. Running /\ doing = "clean" /\ begun' = begun
  BY DEF Clean
<1>2. /\ store[Kind]["new"] = store[Kind][From] /\ Exists(Kind, From)
      /\ NamesTypeOK /\ Fitting(store)
      /\ \E k \in Kinds, p \in Legacy : k = Kind /\ p = From
  BY <1>1, SourceOfStep, NamesTypeFits DEF Sane, Steady
<1>3. PICK k \in Kinds, p \in Legacy : k = Kind /\ p = From
  BY <1>2
<1>4. /\ store'[k][p] = Nothing
      /\ \A j \in Kinds, q \in Places : j # k \/ q # p => store'[j][q] = store[j][q]
  BY <1>2, <1>3, SourceType DEF Clean, Fitting
<1>5. store[k]["new"] # Nothing
  BY <1>2, <1>3 DEF Exists
<1> QED BY <1>1, <1>4, <1>5, SourceType DEF Changes, NameChanges, Exists

LEMMA ChangesMake ==
    ASSUME Sane, Make
    PROVE  Changes
<1>1. Running /\ doing = "make" /\ begun' = begun
  BY DEF Make
<1>2. NamesTypeOK /\ Fitting(store) /\ \E k \in Kinds : k = Kind
  BY <1>1, SourceOfStep, NamesTypeFits DEF Sane, Steady
<1>3. PICK k \in Kinds : k = Kind
  BY <1>2
<1>4. CASE store' = store
  BY <1>1, <1>4, ChangesNone
<1>5. CASE ~Exists(Kind, "new") /\ store' = [store EXCEPT ![Kind]["new"] = Empty]
  <2>1. /\ store'[k]["new"] = Empty
        /\ \A j \in Kinds, q \in Places : j # k \/ q # "new" => store'[j][q] = store[j][q]
    BY <1>2, <1>3, <1>5, SourceType DEF Fitting
  <2>2. Made(k)
    BY <1>1, <1>3, <1>5, <2>1 DEF Made
  <2> QED BY <1>1, <1>3, <1>5, <2>1, <2>2, SourceType DEF Changes, NameChanges, Exists
<1> QED BY <1>4, <1>5 DEF Make

LEMMA ChangesPoint ==
    ASSUME Sane, Point
    PROVE  Changes
<1>1. begun' = begun /\ Running /\ doing = "point" /\ NamesTypeOK /\ Fitting(store)
  BY NamesTypeFits DEF Sane, Point
<1>2. PICK k \in Pointers :
        /\ k = Job.kind
        /\ Outdated(store[k]["new"]) /\ store[k]["new"] \in PointerFiles
        /\ store' = Put(store, k, "new", Renewed(store[k]["new"]))
        /\ Renewed(store[k]["new"]) \in PointerFiles
        /\ Renewed(store[k]["new"]).to.place = "new"
  BY PointEffect
<1>3. k \in Kinds
  BY KindsParts
<1>4. /\ store'[k]["new"] = Renewed(store[k]["new"])
      /\ \A j \in Kinds, q \in Places : j # k \/ q # "new" => store'[j][q] = store[j][q]
  BY <1>1, <1>2, <1>3, SourceType DEF Put, Fitting
<1>5. store'[k]["new"].is = "pointer" /\ store'[k]["new"] # Nothing
  BY <1>2, <1>4 DEF PointerFiles, Nothing
<1>6. Follows(k)
  BY <1>1, <1>2, <1>4, <1>5 DEF Follows
<1> QED BY <1>1, <1>3, <1>4, <1>5, <1>6, SourceType DEF Changes, NameChanges, Exists

LEMMA ChangesRewrite ==
    ASSUME Sane, Rewrite
    PROVE  Changes
<1>1. begun' = begun /\ Running /\ Job.do = "rewrite" /\ NamesTypeOK /\ Fitting(store)
  BY NamesTypeFits DEF Sane, Rewrite
<1>2. CASE store' = store
  BY <1>1, <1>2, ChangesNone
<1>3. CASE store' # store
  <2>1. PICK c \in Settings : /\ c = store["config"]["new"] /\ Rewritten(c) \in Settings
                              /\ store' = Put(store, "config", "new", Rewritten(c))
    BY <1>3, RewriteEffect
  <2>2. /\ store'["config"]["new"] = Rewritten(c)
        /\ \A j \in Kinds, q \in Places : j # "config" \/ q # "new" => store'[j][q] = store[j][q]
    BY <1>1, <2>1, KindsParts, SourceType DEF Put, Fitting
  <2>3. Rewritten(c) # Nothing
    BY <2>1 DEF Settings, Nothing
  <2>4. Translated("config")
    BY <1>1, <2>1, <2>2 DEF Translated
  <2> QED BY <1>1, <2>2, <2>3, <2>4, KindsParts, SourceType DEF Changes, NameChanges, Exists
<1> QED BY <1>2, <1>3

LEMMA ChangesStep ==
    ASSUME Sane, [NamesNext]_namesVars
    PROVE  Changes
<1>1. CASE UNCHANGED <<store, begun>>
  BY <1>1, ChangesNone
<1> QED BY <1>1, ChangesRename, ChangesPublish, ChangesClean, ChangesMake, ChangesPoint,
           ChangesRewrite DEF NamesNext, namesVars, Begin, Look, Break

-----------------------------------------------------------------------------
(* What is true when a step of the plan is done, and stays true.            *)

Free(k, p) == Exists(k, p) => Exists(k, "new")

MovesDone ==
    \A j \in 1..13 : j < pos /\ Plan[j].do = "move" => Free(Plan[j].kind, Plan[j].from)
FollowsDone ==
    \A j \in 1..13 : j < pos /\ Plan[j].do = "follow" => ~Outdated(store[Plan[j].kind]["new"])
Ready ==
    /\ doing = "make" => Free(Kind, From)
    /\ doing = "point" => Exists(Kind, "new")
RewriteDone ==
    pos = Finished /\ Exists("config", "new") =>
        /\ Chosen("config") \in Settings
        /\ store["config"]["new"] = Rewritten(Chosen("config"))

(* What comes to the new name of kind k; of a federation elsewhere, what    *)
(* the chosen pointer names.                                                *)
Owed(k) ==
    IF k # "volume" \/ begun[k]["new"] # Nothing THEN Chosen(k)
    ELSE IF Outdated(Chosen("federation-dir")) /\ Chosen("federation-dir").to.dir = k
    THEN begun[k][Chosen("federation-dir").to.place] ELSE Nothing

InOrder(k) ==
    IF Exists(k, "new")
    THEN IF Owed(k) # Nothing THEN store[k]["new"] \in {Owed(k), Renewed(Owed(k))}
         ELSE store[k]["new"] = Empty
    ELSE \A p \in Places : store[k][p] = begun[k][p]

(* A pointer that was renewed names a directory that is there.              *)
Followed(k) ==
    Exists(k, "new") /\ ~Outdated(store[k]["new"]) /\ Outdated(Chosen(k)) =>
        Exists(Chosen(k).to.dir, "new")

Settling ==
    /\ Sane /\ Fitting(begun)
    /\ MovesDone /\ FollowsDone /\ Ready /\ RewriteDone
    /\ \A k \in Kinds : InOrder(k)
    /\ \A k \in Pointers : Followed(k)

(* When the run goes on to the next step of its plan.                       *)
Passed ==
    /\ Running /\ pos' = pos + 1 /\ doing' = "look"
    /\ Job.do = "move" => (store'[Job.kind][Job.from] # Nothing => store'[Job.kind]["new"] # Nothing)
    /\ Job.do = "follow" => ~Outdated(store'[Job.kind]["new"])
    /\ Job.do = "rewrite" => store'["config"]["new"] = Nothing \/ Translated("config")

Stays ==
    /\ pos' = pos
    /\ doing' = "make" => Free(Kind, From)'
    /\ doing' = "point" => Exists(Kind, "new")'

Progress == Passed \/ Stays \/ (pos' \in {0, 1} /\ doing' = "look")

LEMMA ProgressMoved ==
    ASSUME Running, Moved, Job.do \in {"move", "follow"},
           Job.do = "follow" => store'[Job.kind]["new"] = store[Job.kind]["new"],
           store'[Kind]["new"] # Nothing \/ store'[Kind][From] = Nothing
    PROVE  Progress
<1>1. CASE Job.do = "follow"
  <2>1. doing' = "make" /\ pos' = pos
    BY <1>1 DEF Moved, Then
  <2>2. Kind' = Kind /\ From' = From
    BY <1>1, <2>1, SameSource
  <2>3. Free(Kind, From)'
    BY <2>2 DEF Free, Exists
  <2> QED BY <2>1, <2>3 DEF Progress, Stays
<1>2. CASE Job.do = "move"
  <2>1. Kind = Job.kind /\ From = Job.from /\ pos' = pos + 1 /\ doing' = "look"
    BY <1>2 DEF Moved, Advance, Kind, From
  <2> QED BY <1>2, <2>1 DEF Progress, Passed
<1> QED BY <1>1, <1>2

LEMMA ProgressLook ==
    ASSUME Sane, Look
    PROVE  Progress
<1>1. Running /\ doing = "look" /\ Job.do \in {"move", "follow"} /\ UNCHANGED <<store, begun>>
  BY JobType DEF Sane, Look
<1>2. CASE Job.do = "follow" /\ ~Outdated(store[Job.kind]["new"]) /\ Advance
  BY <1>1, <1>2 DEF Progress, Passed, Advance
<1>3. CASE Then("rename")
  BY <1>3 DEF Progress, Stays, Then
<1>4. CASE ~Movable(Kind, From) /\ Moved
  BY <1>1, <1>4, ProgressMoved DEF Movable, Exists
<1> QED BY <1>2, <1>3, <1>4 DEF Look

LEMMA ProgressRename ==
    ASSUME Sane, Rename
    PROVE  Progress
<1>1. Running /\ doing = "rename"
  BY DEF Rename
<1>2. /\ NamesTypeOK /\ Fitting(store) /\ Job.do \in {"move", "follow"}
      /\ Job.do = "follow" => Outdated(store[Job.kind]["new"])
  BY <1>1, NamesTypeFits, JobType DEF Sane, Steady
<1>3. PICK k \in Kinds, p \in Legacy : k = Kind /\ p = From
  BY <1>1, <1>2, SourceOfStep
<1>4. CASE /\ store' = [store EXCEPT ![Kind]["new"] = store[Kind][From], ![Kind][From] = Nothing]
           /\ Moved
  <2>1. store' = Carried(store, k, p)
    BY <1>3, <1>4 DEF Carried
  <2>2. /\ store'[k][p] = Nothing
        /\ \A j \in Kinds, q \in Places :
              j # k \/ q \notin {p, "new"} => store'[j][q] = store[j][q]
    BY <1>2, <2>1, MoveEffect
  <2>3. Job.do = "follow" => store'[Job.kind]["new"] = store[Job.kind]["new"]
    BY <1>1, <1>2, <1>3, <2>2, SourceOfStep, SourceType, KindsParts
  <2> QED BY <1>1, <1>2, <1>3, <1>4, <2>2, <2>3, ProgressMoved
<1>5. CASE Then("publish")
  BY <1>5 DEF Progress, Stays, Then
<1> QED BY <1>4, <1>5 DEF Rename

LEMMA ProgressClean ==
    ASSUME Sane, Clean
    PROVE  Progress
<1>1. Running /\ doing = "clean" /\ Moved
  BY DEF Clean
<1>2. /\ NamesTypeOK /\ Fitting(store) /\ Job.do \in {"move", "follow"}
      /\ Job.do = "follow" => Outdated(store[Job.kind]["new"])
  BY <1>1, NamesTypeFits, JobType DEF Sane, Steady
<1>3. PICK k \in Kinds, p \in Legacy : k = Kind /\ p = From
  BY <1>1, <1>2, SourceOfStep
<1>4. /\ store'[k][p] = Nothing
      /\ \A j \in Kinds, q \in Places : j # k \/ q # p => store'[j][q] = store[j][q]
  BY <1>2, <1>3, SourceType DEF Clean, Fitting
<1>5. Job.do = "follow" => store'[Job.kind]["new"] = store[Job.kind]["new"]
  BY <1>1, <1>2, <1>3, <1>4, SourceOfStep, SourceType, KindsParts
<1> QED BY <1>1, <1>2, <1>3, <1>4, <1>5, ProgressMoved

LEMMA ProgressMake ==
    ASSUME Sane, Make
    PROVE  Progress
<1>1. Running /\ doing = "make" /\ pos' = pos /\ doing' = "point"
  BY DEF Make, Then
<1>2. /\ NamesTypeOK /\ Fitting(store) /\ Job.do = "follow"
      /\ Outdated(store[Job.kind]["new"])
  BY <1>1, NamesTypeFits DEF Sane, Steady
<1>3. PICK k \in Kinds : k = Kind /\ k # Job.kind /\ Job.kind \in Kinds
  BY <1>1, <1>2, SourceOfStep, KindsParts
<1>4. /\ store'[k]["new"] # Nothing
      /\ \A j \in Kinds : j # k => store'[j]["new"] = store[j]["new"]
  BY <1>2, <1>3, SourceType DEF Make, Fitting, Exists, Empty, Nothing
<1>5. Kind' = k
  BY <1>1, <1>3, <1>4, SameSource
<1> QED BY <1>1, <1>4, <1>5 DEF Progress, Stays, Exists

LEMMA ProgressPoint ==
    ASSUME Sane, Point
    PROVE  Progress
<1>1. Running /\ doing = "point" /\ pos' = pos + 1 /\ doing' = "look" /\ Job.do = "follow"
  BY DEF Point, Advance, Sane, Steady
<1>2. PICK k \in Pointers :
        /\ k = Job.kind
        /\ store' = Put(store, k, "new", Renewed(store[k]["new"]))
        /\ Renewed(store[k]["new"]).to.place = "new"
  BY PointEffect
<1>3. store'[k]["new"].to.place = "new"
  BY <1>2, NamesTypeFits, KindsParts, SourceType DEF Put, Fitting, Sane
<1> QED BY <1>1, <1>2, <1>3, SourceType DEF Progress, Passed, Outdated

LEMMA ProgressRewrite ==
    ASSUME Sane, Rewrite
    PROVE  Progress
<1>1. Running /\ Job.do = "rewrite" /\ doing = "look"
  BY DEF Rewrite
<1>2. CASE pos' = 0 /\ UNCHANGED doing
  BY <1>1, <1>2 DEF Progress
<1>3. CASE Advance /\ Exists("config", "new")
            /\ store' = [store EXCEPT !["config"]["new"] = Rewritten(@)]
            /\ store["config"]["new"] # Malformed
  <2>1. store["config"]["new"] \in Settings
    BY <1>3, SourceType DEF Sane, NamesTypeOK, Exists
  <2>2. store'["config"]["new"] = Rewritten(store["config"]["new"])
    BY <1>3, NamesTypeFits, KindsParts, SourceType DEF Sane, Fitting
  <2> QED BY <1>1, <1>3, <2>1, <2>2 DEF Progress, Passed, Translated, Advance
<1>4. CASE Advance /\ ~Exists("config", "new") /\ store' = store
  BY <1>1, <1>4 DEF Progress, Passed, Advance, Exists
<1> QED BY <1>2, <1>3, <1>4 DEF Rewrite

LEMMA ProgressStep ==
    ASSUME Sane, Ready, [NamesNext]_namesVars
    PROVE  Progress
<1>1. CASE UNCHANGED namesVars
  BY <1>1 DEF namesVars, Progress, Stays, Ready, Free, Exists, Kind, From, Pointed, Job
<1>2. CASE Begin \/ Break
  BY <1>2 DEF Begin, Break, Progress
<1>3. CASE Publish
  BY <1>3 DEF Publish, Then, Progress, Stays
<1> QED BY <1>1, <1>2, <1>3, ProgressLook, ProgressRename, ProgressClean, ProgressMake,
           ProgressPoint, ProgressRewrite DEF NamesNext

LEMMA FreeStays ==
    ASSUME Changes, NEW k \in Kinds, NEW p \in Legacy, Free(k, p)
    PROVE  Free(k, p)'
BY DEF Changes, Free, Exists

LEMMA MovesDoneStep ==
    ASSUME Settling, Changes, Progress
    PROVE  MovesDone'
<1> SUFFICES ASSUME NEW j \in 1..13, j < pos', Plan[j].do = "move"
             PROVE  Free(Plan[j].kind, Plan[j].from)'
  BY DEF MovesDone, Free, Exists
<1>1. Plan[j].kind \in Kinds /\ Plan[j].from \in Legacy /\ pos \in 0..14
  BY PlanType, PlanLength DEF Jobs, Settling, Sane, NamesTypeOK
<1>2. CASE j < pos
  BY <1>1, <1>2, FreeStays DEF Settling, MovesDone
<1>3. CASE j >= pos
  <2>1. Passed /\ j = pos /\ Job = Plan[j]
    BY <1>1, <1>3 DEF Progress, Passed, Stays, Job
  <2> QED BY <2>1 DEF Passed, Free, Exists
<1> QED BY <1>1, <1>2, <1>3

LEMMA FollowsDoneStep ==
    ASSUME Settling, Changes, Progress
    PROVE  FollowsDone'
<1> SUFFICES ASSUME NEW j \in 1..13, j < pos', Plan[j].do = "follow"
             PROVE  ~Outdated(store'[Plan[j].kind]["new"])
  BY DEF FollowsDone
<1>1. Plan[j].kind \in Pointers /\ j \in {9, 10} /\ pos \in 0..14 /\ NamesTypeOK
  BY PlanType, PlanLength, PlanOrder DEF Jobs, Settling, Sane, NamesTypeOK
<1>2. CASE j < pos
  <2>1. PICK k \in Pointers : k = Plan[j].kind
    BY <1>1
  <2>2. ~Outdated(store[k]["new"]) /\ NameChanges(k)
    BY <1>2, <2>1, KindsParts DEF Settling, FollowsDone, Changes
  <2>3. ~Arrives(k)
    <3>1. SUFFICES ASSUME Arrives(k) PROVE FALSE
      OBVIOUS
    <3>2. /\ Running /\ k = Kind /\ Job.do \in {"move", "follow"}
          /\ Job.do = "follow" => Outdated(store[Job.kind]["new"])
      BY <1>1, <3>1, JobType DEF Arrives, Settling, Sane, Steady
    <3>3. Job.do # "follow"
      <4>1. Job.do = "follow" => Kind \in Directories
        BY <1>1, <3>2, SourceOfStep
      <4> QED BY <3>2, <4>1, KindsParts
    <3>4. Job.do = "move" /\ Job.kind = k
      BY <3>2, <3>3 DEF Kind
    <3>5. pos \in 10..13
      BY <1>1, <1>2, <3>2, PlanLength DEF Running
    <3>6. Plan[pos].kind = "config"
      BY <3>4, <3>5, PlanOrder DEF Job
    <3> QED BY <3>4, <3>6, KindsParts DEF Job
  <2>4. ~Made(k)
    <3>1. SUFFICES ASSUME Made(k) PROVE FALSE
      OBVIOUS
    <3>2. Running /\ k = Kind /\ Job.do = "follow" /\ Outdated(store[Job.kind]["new"])
      BY <3>1 DEF Made, Settling, Sane, Steady
    <3> QED BY <1>1, <3>2, SourceOfStep, KindsParts
  <2>5. ~Follows(k) /\ ~Translated(k)
    BY <2>2, KindsParts DEF Follows, Translated
  <2> QED BY <2>1, <2>2, <2>3, <2>4, <2>5 DEF NameChanges
<1>3. CASE j >= pos
  <2>1. Passed /\ j = pos /\ Job = Plan[j]
    BY <1>1, <1>3 DEF Progress, Passed, Stays, Job
  <2> QED BY <2>1 DEF Passed
<1> QED BY <1>1, <1>2, <1>3

LEMMA ReadyStep ==
    ASSUME Progress
    PROVE  Ready'
BY DEF Progress, Passed, Stays, Ready

LEMMA ChosenStays == begun' = begun => \A k : Chosen(k)' = Chosen(k) /\ Owed(k)' = Owed(k)
BY DEF Chosen, Owed

(* What is at the new name is as it was chosen, or renewed.                 *)
LEMMA AsChosen ==
    ASSUME Settling, NEW k \in Kinds \ {"volume"}, Exists(k, "new"),
           store[k]["new"] # Empty
    PROVE  /\ Chosen(k) # Nothing /\ Chosen(k) \in Contents
           /\ store[k]["new"] \in {Chosen(k), Renewed(Chosen(k))}
           /\ Owed(k) = Chosen(k)
<1>1. Owed(k) = Chosen(k)
  BY DEF Owed
<1>2. Chosen(k) \in Contents
  BY SourceType DEF Settling, Fitting, Chosen, Legacy
<1> QED BY <1>1, <1>2 DEF Settling, InOrder

LEMMA PointedIsChosen ==
    ASSUME Settling, NEW k \in Pointers, Outdated(store[k]["new"])
    PROVE  Chosen(k) = store[k]["new"] /\ Exists(k, "new") /\ Owed(k) = Chosen(k)
<1>1. k \in Kinds \ {"volume"} /\ Exists(k, "new") /\ store[k]["new"] # Empty
  BY KindsParts DEF Outdated, Exists, Nothing, Empty, Pointers
<1>2. store[k]["new"] \in PointerFiles
  BY <1>1, SourceType DEF Settling, Sane, NamesTypeOK, Exists
<1>3. /\ Chosen(k) # Nothing /\ Chosen(k) \in Contents /\ Owed(k) = Chosen(k)
      /\ store[k]["new"] \in {Chosen(k), Renewed(Chosen(k))}
  BY <1>1, AsChosen
<1>4. store[k]["new"].to.place # "new"
  BY SourceType DEF Outdated
<1> QED BY <1>1, <1>2, <1>3, <1>4, RenewedIs

(* No directory with a move of its own is moved by a pointer.               *)
LEMMA MovedBefore ==
    ASSUME Settling, Running, Job.do = "follow",
           NEW k \in {"cache", "instances"}, NEW p \in Legacy
    PROVE  Free(k, p)
<1>1. pos \in 1..13 /\ Plan[pos].do = "follow"
  BY PlanLength DEF Running, Job
<1>2. pos \in {9, 10}
  BY <1>1, PlanOrder
<1>3. PICK j \in 1..8 : Plan[j] = MoveStep(k, p)
  BY PlanOrder
<1>4. /\ j \in 1..13 /\ j < pos
      /\ Plan[j].do = "move" /\ Plan[j].kind = k /\ Plan[j].from = p
  BY <1>2, <1>3, PlanOrder
<1> QED BY <1>4 DEF Settling, MovesDone

(* A pointer leads to the federation it was chosen for.                     *)
LEMMA VolumeOwed ==
    ASSUME Settling, Running, Job.do = "follow", Outdated(store[Job.kind]["new"]),
           Kind = "volume", ~Exists("volume", "new")
    PROVE  Owed("volume") = store["volume"][From]
<1>1. /\ Job.kind \in Pointers /\ Kind \in Names(Job.kind) /\ From \in Legacy
      /\ Kind = store[Job.kind]["new"].to.dir /\ From = store[Job.kind]["new"].to.place
  BY SourceOfStep DEF Settling, Sane, Kind, From, Pointed
<1>2. Job.kind = "federation-dir"
  BY <1>1 DEF Names, Pointers
<1>3. Chosen("federation-dir") = store[Job.kind]["new"]
  BY <1>1, <1>2, PointedIsChosen
<1>4. \A p \in Places : store["volume"][p] = begun["volume"][p]
  BY KindsParts DEF Settling, InOrder, Kinds, Directories
<1>5. begun["volume"]["new"] = Nothing
  BY <1>4, SourceType DEF Exists
<1>6. Owed("volume") = begun["volume"][From]
  BY <1>1, <1>2, <1>3, <1>5 DEF Owed
<1> QED BY <1>1, <1>4, <1>6, SourceType

(* What arrives at a new name is what is owed to it.                        *)
LEMMA ArrivesOwed ==
    ASSUME Settling, NEW k \in Kinds, Arrives(k)
    PROVE  store'[k]["new"] = Owed(k) /\ Owed(k) # Nothing
<1>1. /\ Running /\ k = Kind /\ From \in Legacy /\ NamesTypeOK
      /\ store'[k]["new"] = store[k][From] /\ store[k][From] # Nothing
      /\ store[k]["new"] = Nothing
      /\ Job.do \in {"move", "follow"}
      /\ Job.do = "follow" => Outdated(store[Job.kind]["new"])
  BY JobType DEF Arrives, Movable, Exists, Settling, Sane, Steady
<1>2. \A p \in Places : store[k][p] = begun[k][p]
  BY <1>1 DEF Settling, InOrder, Exists
<1>3. begun[k]["new"] = Nothing /\ begun[k][From] = store[k][From]
  BY <1>1, <1>2, SourceType
<1>4. CASE Job.do = "follow"
  <2>1. k \in Directories
    BY <1>1, <1>4, SourceOfStep
  <2>2. ~Free(k, From)
    BY <1>1 DEF Free, Exists
  <2>3. k = "volume"
    BY <1>1, <1>4, <2>1, <2>2, MovedBefore DEF Directories
  <2> QED BY <1>1, <1>4, <2>3, VolumeOwed DEF Exists
<1>5. CASE Job.do = "move"
  <2>1. /\ pos \in 1..13 /\ Job = Plan[pos] /\ k = Job.kind /\ From = Job.from
    BY <1>1, <1>5, PlanLength DEF Running, Job, Kind, From
  <2>2. k # "volume" /\ Owed(k) = Chosen(k)
    BY <1>5, <2>1, PlanOrder DEF Owed
  <2>3. CASE From = "governor"
    BY <1>1, <1>3, <2>2, <2>3 DEF Chosen
  <2>4. CASE From = "cmg"
    <3>0. /\ pos \in 1..13
          /\ Plan[pos].do = "move" /\ Plan[pos].from = "cmg" /\ Plan[pos].kind = k
      BY <1>5, <2>1, <2>4
    <3>1. PICK j \in 1..13 : j < pos /\ Plan[j] = MoveStep(k, "governor")
      BY <3>0, PlanOrder
    <3>2. Free(k, "governor")
      BY <3>1, PlanOrder DEF Settling, MovesDone
    <3>3. begun[k]["governor"] = Nothing
      BY <1>1, <1>2, <3>2 DEF Free, Exists, Places, Legacy
    <3> QED BY <1>1, <1>3, <2>2, <2>4, <3>3 DEF Chosen
  <2> QED BY <1>1, <2>3, <2>4 DEF Legacy
<1> QED BY <1>1, <1>4, <1>5

(* An empty directory is made only where nothing is owed.                   *)
LEMMA MadeOwed ==
    ASSUME Settling, NEW k \in Kinds, Made(k)
    PROVE  Owed(k) = Nothing
<1>1. /\ Running /\ k = Kind /\ store[k]["new"] = Nothing /\ doing = "make"
      /\ Job.do = "follow" /\ Outdated(store[Job.kind]["new"]) /\ NamesTypeOK
  BY DEF Made, Exists, Settling, Sane, Steady
<1>2. k \in Directories /\ From \in Legacy
  BY <1>1, SourceOfStep
<1>3. \A p \in Places : store[k][p] = begun[k][p]
  BY <1>1 DEF Settling, InOrder, Exists
<1>4. CASE k \in {"cache", "instances"}
  <2>1. \A p \in Legacy : store[k][p] = Nothing
    BY <1>1, <1>4, MovedBefore DEF Free, Exists
  <2> QED BY <1>1, <1>3, <1>4, <2>1 DEF Owed, Chosen, Places, Legacy
<1>5. CASE k = "volume"
  <2>1. store[k][From] = Nothing
    BY <1>1 DEF Settling, Ready, Free, Exists
  <2> QED BY <1>1, <1>5, <2>1, VolumeOwed DEF Exists
<1> QED BY <1>2, <1>4, <1>5 DEF Directories

(* What is translated is the chosen settings, or they again.                *)
LEMMA TranslatedOwed ==
    ASSUME Settling, Translated("config")
    PROVE  /\ Chosen("config") \in Settings
           /\ store'["config"]["new"] = Rewritten(Chosen("config"))
           /\ Owed("config") = Chosen("config") /\ Chosen("config") # Nothing
<1>1. PICK c \in Settings : c = store["config"]["new"] /\ store'["config"]["new"] = Rewritten(c)
  BY DEF Translated
<1>2. /\ "config" \in Kinds \ {"volume"} /\ Exists("config", "new")
      /\ store["config"]["new"] # Empty
  BY <1>1, KindsParts DEF Settings, Exists, Nothing, Empty
<1>3. PICK b \in Contents : b = Chosen("config")
  BY <1>2, AsChosen
<1>4. b # Nothing /\ c \in {b, Renewed(b)} /\ Owed("config") = b
  BY <1>1, <1>2, <1>3, AsChosen
<1>5. CASE c = b
  BY <1>1, <1>3, <1>4, <1>5
<1>6. CASE c = Renewed(b)
  <2>1. b \in Settings /\ c = Rewritten(b)
    BY <1>1, <1>4, <1>6, RenewedIs
  <2> QED BY <1>1, <1>3, <1>4, <2>1, RewrittenTwice
<1> QED BY <1>4, <1>5, <1>6

LEMMA InOrderStep ==
    ASSUME Settling, Changes, NEW k \in Kinds
    PROVE  InOrder(k)'
<1>1. begun' = begun /\ Owed(k)' = Owed(k)
  BY ChosenStays DEF Changes
<1>2. CASE store'[k]["new"] = store[k]["new"]
  <2>1. CASE store[k]["new"] = Nothing
    <3>1. \A p \in Places : store'[k][p] = store[k][p]
      BY <1>2, <2>1 DEF Changes, Places
    <3>2. \A p \in Places : store[k][p] = begun[k][p]
      BY <2>1 DEF Settling, InOrder, Exists
    <3> QED BY <1>1, <1>2, <2>1, <3>1, <3>2 DEF InOrder, Exists
  <2>2. CASE store[k]["new"] # Nothing
    <3>1. IF Owed(k) # Nothing THEN store[k]["new"] \in {Owed(k), Renewed(Owed(k))}
          ELSE store[k]["new"] = Empty
      BY <2>2 DEF Settling, InOrder, Exists
    <3> QED BY <1>1, <1>2, <2>2, <3>1 DEF InOrder, Exists, Renewed
  <2> QED BY <2>1, <2>2
<1>3. CASE Arrives(k)
  BY <1>1, <1>3, ArrivesOwed DEF InOrder, Exists
<1>4. CASE Made(k)
  BY <1>1, <1>4, MadeOwed, SourceType DEF InOrder, Exists, Made, Empty, Nothing
<1>5. CASE Follows(k)
  <2>1. /\ store'[k]["new"] = Renewed(Owed(k)) /\ Owed(k) # Nothing
    BY <1>5, PointedIsChosen DEF Follows, Exists
  <2>2. store'[k]["new"] # Nothing
    BY <1>5 DEF Follows, Nothing
  <2> QED BY <1>1, <2>1, <2>2 DEF InOrder, Exists, Renewed
<1>6. CASE Translated(k)
  <2>1. k = "config"
    BY <1>6 DEF Translated
  <2>2. /\ Owed(k) \in Settings /\ store'[k]["new"] = Rewritten(Owed(k)) /\ Owed(k) # Nothing
    BY <1>6, <2>1, TranslatedOwed
  <2>3. Renewed(Owed(k)) = Rewritten(Owed(k)) /\ Rewritten(Owed(k)) # Nothing
    BY <2>2, RewrittenType DEF Renewed, Settings, Nothing
  <2> QED BY <1>1, <2>2, <2>3 DEF InOrder, Exists, Renewed
<1> QED BY <1>2, <1>3, <1>4, <1>5, <1>6 DEF Changes, NameChanges

LEMMA FollowedStep ==
    ASSUME Settling, Changes, NEW k \in Pointers
    PROVE  Followed(k)'
<1>1. begun' = begun /\ Chosen(k)' = Chosen(k) /\ k \in Kinds
  BY ChosenStays, KindsParts DEF Changes
<1> SUFFICES ASSUME store'[k]["new"] # Nothing, ~Outdated(store'[k]["new"]), Outdated(Chosen(k))
             PROVE  store'[Chosen(k).to.dir]["new"] # Nothing
  BY <1>1 DEF Followed, Exists, Outdated
<1>2. Chosen(k) \in PointerFiles /\ Chosen(k).to.dir \in Kinds
  <2>1. Fits(k, Chosen(k))
    BY <1>1, SourceType DEF Settling, Fitting, Chosen, Legacy
  <2>2. Chosen(k) \in PointerFiles /\ Chosen(k).to.dir \in Names(k)
    BY <2>1 DEF Fits, Outdated, Nothing
  <2> QED BY <2>2, KindsParts
<1>3. CASE Exists(Chosen(k).to.dir, "new")
  BY <1>2, <1>3 DEF Changes
<1>4. CASE store'[k]["new"] = store[k]["new"]
  BY <1>3, <1>4 DEF Settling, Followed, Exists
<1>5. ~Arrives(k)
  <2>1. Owed(k) = Chosen(k)
    BY DEF Owed, Pointers
  <2> QED BY <1>1, <2>1, ArrivesOwed
<1>6. ~Made(k)
  <2>1. SUFFICES ASSUME Made(k) PROVE FALSE
    OBVIOUS
  <2>2. Owed(k) = Nothing /\ Owed(k) = Chosen(k)
    BY <1>1, <2>1, MadeOwed DEF Owed, Pointers
  <2> QED BY <2>2 DEF Outdated, Nothing
<1>7. CASE Follows(k)
  <2>1. Running /\ doing = "point" /\ k = Job.kind /\ Job.do = "follow"
    BY <1>7 DEF Follows, Settling, Sane, Steady
  <2>2. Chosen(k) = store[k]["new"]
    BY <1>7, PointedIsChosen DEF Follows
  <2>3. Kind = Chosen(k).to.dir
    BY <2>1, <2>2 DEF Kind, Pointed
  <2>4. Exists(Kind, "new")
    BY <2>1 DEF Settling, Ready
  <2> QED BY <1>3, <2>3, <2>4
<1>8. ~Translated(k)
  BY KindsParts DEF Translated
<1> QED BY <1>1, <1>4, <1>5, <1>6, <1>7, <1>8 DEF Changes, NameChanges

LEMMA RewriteDoneStep ==
    ASSUME Settling, Changes, Progress
    PROVE  RewriteDone'
<1> SUFFICES ASSUME pos' = 14, store'["config"]["new"] # Nothing
             PROVE  /\ Chosen("config") \in Settings
                    /\ store'["config"]["new"] = Rewritten(Chosen("config"))
  <2>1. Finished' = Finished /\ Chosen("config")' = Chosen("config")
    BY ChosenStays DEF Finished, Plan, MoveStep, Changes
  <2> QED BY <2>1, PlanLength DEF RewriteDone, Exists, Rewritten
<1>1. CASE Passed
  <2>1. pos = 13 /\ Job.do = "rewrite"
    BY <1>1, PlanLength, PlanOrder DEF Passed, Running, Job
  <2> QED BY <1>1, <2>1, TranslatedOwed DEF Passed
<1>2. CASE pos' = pos
  <2>1. ~Running
    BY <1>2, PlanLength DEF Running
  <2>2. store'["config"]["new"] = store["config"]["new"]
    BY <2>1, KindsParts DEF Changes, NameChanges, Arrives, Made, Follows, Translated
  <2> QED BY <1>2, <2>2, PlanLength DEF Settling, RewriteDone, Exists
<1> QED BY <1>1, <1>2 DEF Progress, Stays

LEMMA SettlingStep == Settling /\ [NamesNext]_namesVars => Settling'
<1> SUFFICES ASSUME Settling, [NamesNext]_namesVars
             PROVE  Settling'
  OBVIOUS
<1>1. Sane' /\ Changes /\ Progress
  BY SaneStep, ChangesStep, ProgressStep DEF Settling
<1>2. Fitting(begun)'
  BY <1>1 DEF Changes, Settling, Fitting
<1>3. \A k \in Kinds : InOrder(k)'
  BY <1>1, InOrderStep
<1>4. \A k \in Pointers : Followed(k)'
  BY <1>1, FollowedStep
<1> QED BY <1>1, <1>2, <1>3, <1>4, MovesDoneStep, FollowsDoneStep, ReadyStep, RewriteDoneStep
        DEF Settling

LEMMA SettlingInit == NamesInit => Settling
<1> SUFFICES ASSUME NamesInit
             PROVE  Settling
  OBVIOUS
<1>1. Sane /\ pos = 0 /\ doing = "look" /\ begun = store
  BY SaneInit DEF NamesInit, NamesInitWith
<1>2. Fitting(begun)
  BY <1>1, NamesTypeFits DEF Sane
<1>3. MovesDone /\ FollowsDone /\ Ready /\ RewriteDone
  BY <1>1, PlanLength DEF MovesDone, FollowsDone, Ready, RewriteDone
<1>4. ASSUME NEW k \in Kinds
      PROVE  InOrder(k)
  <2>1. CASE Exists(k, "new")
    <3>1. Chosen(k) = store[k]["new"] /\ store[k]["new"] # Nothing
      BY <1>1, <2>1 DEF Chosen, Exists
    <3>2. Owed(k) = Chosen(k)
      BY <1>1, <3>1 DEF Owed
    <3> QED BY <2>1, <3>1, <3>2 DEF InOrder
  <2>2. CASE ~Exists(k, "new")
    BY <1>1, <2>2 DEF InOrder
  <2> QED BY <2>1, <2>2
<1>5. ASSUME NEW k \in Pointers
      PROVE  Followed(k)
  BY <1>1 DEF Followed, Chosen, Exists
<1> QED BY <1>1, <1>2, <1>3, <1>4, <1>5 DEF Settling

(* After a run that got through every kind has its new name.                *)
LEMMA AllNamed ==
    ASSUME Settling, pos = Finished, NEW k \in Kinds \ {"volume"},
           NEW p \in Places, begun[k][p] # Nothing
    PROVE  Exists(k, "new")
<1>1. SUFFICES ASSUME ~Exists(k, "new") PROVE FALSE
  OBVIOUS
<1>2. store[k][p] # Nothing
  BY <1>1 DEF Settling, InOrder
<1>3. p \in Legacy
  BY <1>1, <1>2 DEF Places, Exists
<1>4. PICK j \in 1..13 : Plan[j] = MoveStep(k, p)
  BY <1>3, PlanOrder
<1>5. Free(k, p)
  BY <1>4, PlanOrder, PlanLength DEF Settling, MovesDone
<1> QED BY <1>1, <1>2, <1>5 DEF Free, Exists

LEMMA ChosenNamed ==
    ASSUME Settling, pos = Finished, NEW k \in Kinds \ {"volume"}, Chosen(k) # Nothing
    PROVE  Exists(k, "new")
<1>1. \E p \in Places : begun[k][p] # Nothing
  BY SourceType DEF Chosen, Legacy
<1> QED BY <1>1, AllNamed

(* A pointer that was followed names what it named, by the new name.        *)
LEMMA PointerSettled ==
    ASSUME Settling, pos = Finished, NEW k \in Pointers, Chosen(k) # Nothing
    PROVE  /\ ~Outdated(store[k]["new"])
           /\ begun[Chosen(k).to.dir][Chosen(k).to.place] # Nothing /\ ~Taken(Chosen(k).to) =>
                store[store[k]["new"].to.dir][store[k]["new"].to.place]
                  = begun[Chosen(k).to.dir][Chosen(k).to.place]
<1>1. k \in Kinds \ {"volume"} /\ Exists(k, "new") /\ Owed(k) = Chosen(k)
  BY ChosenNamed, KindsParts DEF Pointers, Owed
<1>2. ~Outdated(store[k]["new"])
  <2>1. PICK j \in {9, 10} : Plan[j].do = "follow" /\ Plan[j].kind = k
    BY PlanOrder
  <2> QED BY <2>1, PlanLength DEF Settling, FollowsDone
<1>3. PICK c : c = Chosen(k)
  OBVIOUS
<1>4. /\ c \in PointerFiles /\ c \in Contents /\ c.to.dir \in Names(k)
      /\ store[k]["new"] \in {c, Renewed(c)}
  <2>1. Fits(k, c)
    BY <1>1, <1>3, SourceType DEF Settling, Fitting, Chosen, Legacy
  <2>2. c \in PointerFiles /\ c.to.dir \in Names(k)
    BY <1>3, <2>1 DEF Fits
  <2> QED BY <1>1, <1>3, <2>2 DEF Settling, InOrder, Contents
<1>5. PICK d \in Directories, q \in Places : c.to.dir = d /\ c.to.place = q /\ d \in Names(k)
  BY <1>4 DEF PointerFiles, Targets
<1>6. store[k]["new"].to.dir = d /\ store[k]["new"].to.place = "new"
  <2>1. CASE q = "new"
    <3>1. Renewed(c).to.dir = d /\ Renewed(c).to.place = "new"
      BY <1>4, <1>5 DEF Renewed, PointerFiles, Targets
    <3> QED BY <1>4, <1>5, <2>1, <3>1
  <2>2. CASE q # "new"
    <3>1. Outdated(c)
      BY <1>4, <1>5, <2>2 DEF Outdated, PointerFiles, Places
    <3>2. store[k]["new"] = Renewed(c)
      BY <1>2, <1>4, <3>1
    <3>3. Renewed(c).to.dir = d /\ Renewed(c).to.place = "new"
      BY <1>4, <1>5 DEF Renewed, PointerFiles, Targets
    <3> QED BY <3>2, <3>3
  <2> QED BY <2>1, <2>2
<1>7. ASSUME begun[d][q] # Nothing, ~Taken(c.to)
      PROVE  store[d]["new"] = begun[d][q]
  <2>1. d \in Kinds
    BY <1>5, KindsParts
  <2>2. q \in Legacy => begun[d]["new"] = Nothing
    BY <1>5, <1>7 DEF Taken
  <2>3. Owed(d) = begun[d][q]
    <3>1. CASE q = "new"
      BY <1>7, <3>1 DEF Owed, Chosen
    <3>2. CASE q \in Legacy /\ d = "volume"
      <4>1. k = "federation-dir"
        BY <1>5, <3>2 DEF Names, Pointers
      <4>2. Outdated(c)
        BY <1>4, <1>5, <3>2 DEF Outdated, PointerFiles
      <4> QED BY <1>3, <1>5, <2>2, <3>2, <4>1, <4>2 DEF Owed
    <3>3. CASE q = "governor" /\ d # "volume"
      BY <1>7, <2>2, <3>3 DEF Owed, Chosen, Legacy
    <3>4. CASE q = "cmg" /\ d # "volume"
      <4>1. begun[d]["governor"] = Nothing
        BY <1>5, <1>7, <3>4 DEF Taken, Legacy
      <4> QED BY <2>2, <3>4, <4>1 DEF Owed, Chosen, Legacy
    <3> QED BY <3>1, <3>2, <3>3, <3>4 DEF Places, Legacy
  <2>4. Exists(d, "new")
    <3>1. CASE d # "volume"
      BY <1>7, <2>1, <3>1, AllNamed
    <3>2. CASE q = "new"
      <4>1. ~Exists(d, "new") => store[d]["new"] = begun[d]["new"]
        BY <2>1, SourceType DEF Settling, InOrder
      <4> QED BY <1>7, <3>2, <4>1 DEF Exists
    <3>3. CASE q # "new"
      <4>1. Outdated(c)
        BY <1>4, <1>5, <3>3 DEF Outdated, PointerFiles, Places
      <4> QED BY <1>1, <1>2, <1>3, <1>5, <4>1 DEF Settling, Followed
    <3> QED BY <3>1, <3>2, <3>3
  <2>5. PICK b : b = begun[d][q]
    OBVIOUS
  <2>6. store[d]["new"] \in {b, Renewed(b)}
    BY <1>7, <2>1, <2>3, <2>4, <2>5 DEF Settling, InOrder
  <2>7. b \in {Nothing, Empty} \union Data
    BY <1>5, <2>1, <2>5 DEF Settling, Fitting, Fits
  <2>8. Renewed(b) = b
    BY <2>7 DEF Renewed, Nothing, Empty, Data
  <2> QED BY <2>5, <2>6, <2>8
<1> QED BY <1>2, <1>3, <1>5, <1>6, <1>7

(* Of the settings the newest key counts, and no key of earlier names stays. *)
LEMMA SettingsSettled ==
    ASSUME Settling, pos = Finished, Chosen("config") # Nothing
    PROVE  LET now == store["config"]["new"].key
               was == Chosen("config").key
           IN  /\ \A k \in {"outdated", "legacy", "dead"} : now[k] = "none"
               /\ now["other"] = was["other"]
               /\ now["current"] =
                     IF \E k \in {"current", "outdated"} : was[k] # "none"
                     THEN was[IF was["current"] # "none" THEN "current" ELSE "outdated"]
                     ELSE was["legacy"]
<1>1. PICK c \in Settings : c = Chosen("config") /\ store["config"]["new"] = Rewritten(c)
  BY ChosenNamed, KindsParts DEF Settling, RewriteDone
<1>2. /\ \A k \in {"outdated", "legacy", "dead"} : Rewritten(c).key[k] = "none"
      /\ Rewritten(c).key["other"] = c.key["other"]
      /\ Rewritten(c).key["current"] =
            FirstOf(c.key["current"], FirstOf(c.key["outdated"], c.key["legacy"]))
  BY DEF Rewritten, Settings, Keys
<1> QED BY <1>1, <1>2 DEF FirstOf

LEMMA SettledWhenSettling == Settling => SettledAtEnd
<1> SUFFICES ASSUME Settling, pos = Finished
             PROVE  SettledAtEnd
  BY DEF SettledAtEnd
<1>1. ASSUME NEW k \in Kinds \ {"volume"}, \E p \in Places : begun[k][p] # Nothing
      PROVE  Exists(k, "new")
  BY <1>1, AllNamed
<1> QED BY <1>1, PointerSettled, SettingsSettled DEF SettledAtEnd

(* Whatever earlier runs left half done, a run of the migration that gets   *)
(* through leaves the files the new release is to read under their names,   *)
(* pointers to what they named, and settings of which the newest key counts. *)
THEOREM NamesSettle == NamesSpec => []SettledAtEnd
<1>1. Settling /\ [NamesNext]_namesVars => Settling'
  BY SettlingStep
<1> QED BY SettlingInit, SettledWhenSettling, <1>1, PTL DEF NamesSpec

=============================================================================
