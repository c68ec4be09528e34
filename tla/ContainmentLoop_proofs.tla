----------------------- MODULE ContainmentLoop_proofs -----------------------
(***************************************************************************)
(* Theorems about ContainmentLoop, for any leads, subordinates, tool calls *)
(* and bounds.                                                             *)
(***************************************************************************)
EXTENDS ContainmentLoop, TLAPS

-----------------------------------------------------------------------------
(* Records and observations. *)

LEMMA LevelsAre == LogicalState = {0, 1, 2, 3} /\ Active = 0 /\ HandoffOnly = 3
BY DEF LogicalState, Active, HandoffOnly

LEMMA NewAgentType ==
    ASSUME NEW at \in Nat, NEW e \in Nat
    PROVE  NewAgent(at, e, None) \in LogicalAgent(None)
BY LevelsAre DEF NewAgent, LogicalAgent

(* What an observation makes of a record.                                    *)
Wakes(o) == o.event \in {"Start", "Prompt", "PreTool"}
Rests(o) == o.event \in {"Stop", "End"}

LEMMA Observed ==
    ASSUME NEW r \in LogicalAgent(None), NEW o \in Observation, NEW e \in Nat
    PROVE  LET s == ApplyObservation(r, o, e, None)
           IN /\ s \in LogicalAgent(None)
              /\ s.seen = o.at
              /\ OpensEpoch(r, o) => s.state = Active /\ s.epoch = e + 1
              /\ ~OpensEpoch(r, o) => s.state = r.state /\ s.epoch = r.epoch
              /\ s.idle = IF Wakes(o) THEN FALSE ELSE IF Rests(o) THEN TRUE ELSE r.idle
<1> DEFINE t == Seen(r, o, None)
           u == AfterEvent(t, o)
           s == ApplyObservation(r, o, e, None)
<1>0. /\ o.event \in {"Start", "End", "Prompt", "PreTool", "PostTool", "Stop"}
      /\ o.weight \in Weights \union {NoTool} /\ o.at \in Nat /\ o.receipt = None
      /\ o.blocked \in BOOLEAN
  BY DEF Observation, HookEvents
<1>1. t \in LogicalAgent(None) /\ t.seen = o.at /\ t.state = r.state
      /\ t.epoch = r.epoch /\ t.idle = r.idle
  BY <1>0 DEF Seen, LogicalAgent
<1> HIDE DEF t
<1>2. /\ u \in LogicalAgent(None) /\ u.seen = o.at /\ u.epoch = r.epoch
      /\ u.state = IF o.event \in {"Start", "End"} THEN Active ELSE r.state
      /\ u.idle = IF Wakes(o) THEN FALSE ELSE IF Rests(o) THEN TRUE ELSE r.idle
  <2>1. CASE o.event = "Start"
    BY <1>0, <1>1, <2>1, LevelsAre DEF AfterEvent, LogicalAgent, Wakes, Rests
  <2>2. CASE o.event = "End"
    BY <1>0, <1>1, <2>2, LevelsAre DEF AfterEvent, LogicalAgent, Wakes, Rests
  <2>3. CASE o.event = "Prompt"
    BY <1>0, <1>1, <2>3, LevelsAre DEF AfterEvent, LogicalAgent, Wakes, Rests
  <2>4. CASE o.event = "PreTool"
    BY <1>0, <1>1, <2>4, LevelsAre DEF AfterEvent, LogicalAgent, Wakes, Rests
  <2>5. CASE o.event = "PostTool"
    BY <1>0, <1>1, <2>5, LevelsAre DEF AfterEvent, LogicalAgent, Wakes, Rests
  <2>6. CASE o.event = "Stop"
    BY <1>0, <1>1, <2>6, LevelsAre DEF AfterEvent, LogicalAgent, Wakes, Rests
  <2> QED BY <1>0, <2>1, <2>2, <2>3, <2>4, <2>5, <2>6
<1> HIDE DEF u
<1>3. s = IF OpensEpoch(r, o) THEN [u EXCEPT !.epoch = e + 1] ELSE u
  BY DEF s, u, t, ApplyObservation
<1> HIDE DEF s
<1>4. s \in LogicalAgent(None) /\ s.seen = o.at /\ s.state = u.state /\ s.idle = u.idle
      /\ s.epoch = IF OpensEpoch(r, o) THEN e + 1 ELSE u.epoch
  <2>1. CASE OpensEpoch(r, o)
    <3>1. s = [u EXCEPT !.epoch = e + 1] /\ e + 1 \in Nat
      BY <1>3, <2>1
    <3> QED BY <1>2, <2>1, <3>1 DEF LogicalAgent
  <2>2. CASE ~OpensEpoch(r, o)
    BY <1>2, <1>3, <2>2
  <2> QED BY <2>1, <2>2
<1>5. OpensEpoch(r, o) <=> o.event \in {"Start", "End"} /\ r.state # Active
  BY DEF OpensEpoch, Lifecycle
<1>6. /\ OpensEpoch(r, o) => s.state = Active /\ s.epoch = e + 1
      /\ ~OpensEpoch(r, o) => s.state = r.state /\ s.epoch = r.epoch
  BY <1>2, <1>4, <1>5
<1> QED BY <1>2, <1>4, <1>6 DEF s

-----------------------------------------------------------------------------
(* Types. *)

LEMMA CallClass == \A class : Weight(class) \in Weights
BY DEF Weight, Weights

LEMMA ClassesAre == Classes \subseteq ToolClass
<1> SUFFICES ASSUME NEW call \in Calls PROVE ClassifyTool(call) \in ToolClass
  BY ContainmentAssumption DEF Classes
<1>1. CASE call \in [tool : ToolClass]
  BY <1>1 DEF ClassifyTool
<1>2. CASE call \in [broad : BOOLEAN]
  BY <1>2 DEF ClassifyTool, ToolClass
<1>3. CASE call \in [background : BOOLEAN, segments : SUBSET SegmentClass]
  BY <1>3 DEF ClassifyTool, ShellClass, ToolClass
<1> QED BY <1>1, <1>2, <1>3 DEF Calls

LEMMA RosterView ==
    ASSUME NEW r, IsRoster(r)
    PROVE  IsSome(View(r), Reading)
BY LevelsAre DEF IsRoster, IsSome, View, Reading, LogicalAgent

LEMMA LedgerIs ==
    ASSUME NEW r, IsRoster(r), NEW e \in Nat
    PROVE  /\ IsLedger(Ledger(r, e))
           /\ Ledger(r, e).roster = r /\ Ledger(r, e).epoch = e
BY DEF IsLedger, Ledger

LEMMA NoRosterIs == IsRoster(NoRoster) /\ IsLedger(Ledger(NoRoster, 0))
<1>1. IsRoster(NoRoster)
  BY DEF IsRoster, IsSome, NoRoster
<1> QED BY <1>1, LedgerIs

HookTypes ==
    /\ doing \in [Agents -> {"absent", "away", "idle"} \union Working]
    /\ held \in [Agents -> [class : ToolClass, read : Reading] \union {None}]
    /\ clock \in Nat /\ queue \subseteq Observation /\ blind \subseteq Agents

RosterTypes ==
    /\ IsRoster(roster) /\ epoch \in Nat
    /\ IsLedger(before) /\ taken \subseteq Observation /\ unread \subseteq Observation
    /\ IsLedger(disk)
    /\ left \in [alarms : Nat, faults : Nat]

RestTypes ==
    /\ pub \in [fresh : BOOLEAN, brake : BOOLEAN, agents : {pub.agents}]
    /\ IsSome(pub.agents, Reading)
    /\ pc \in {"tick", "drain", "unlink", "contain", "publish", "down"}
    /\ calm \in Nat \union {NoCalm} /\ rested \in BOOLEAN /\ sig \in Findings
    /\ quiet \in Nat /\ missed \in BOOLEAN

LEMMA TypeParts == TypeOK <=> HookTypes /\ RosterTypes /\ RestTypes
BY DEF TypeOK, HookTypes, RosterTypes, RestTypes

LEMMA TypeInit == Init => TypeOK
<1> SUFFICES ASSUME Init PROVE TypeOK
  OBVIOUS
<1>1. PICK s \in Starts : InitWith(s.running, s.others, s.hooks, s.alarms, s.faults)
  BY DEF Init
<1>2. /\ s.running \subseteq Agents /\ s.others \subseteq Agents /\ s.hooks \in 0..MaxHooks
      /\ s.alarms \in Nat /\ s.faults \in Nat /\ MaxHooks \in Nat
  BY ContainmentAssumption
<1> DEFINE r == Announced(s.running)
<1>3. IsRoster(r)
  <2>1. DOMAIN r = s.running /\ \A a \in s.running : r[a] = NewAgent(0, 0, None)
    BY DEF Announced
  <2> QED BY <1>2, <2>1, NewAgentType DEF Announced, IsRoster, IsSome
<1>4. IsLedger(Ledger(r, 0)) /\ IsSome(View(r), Reading)
  BY <1>3, LedgerIs, RosterView
<1> HIDE DEF r
<1>5. HookTypes
  BY <1>1, <1>2 DEF InitWith, HookTypes, Working
<1>6. RosterTypes
  <2>1. roster = r /\ epoch = 0 /\ before = Ledger(NoRoster, 0) /\ taken = {} /\ unread = {}
        /\ disk = Ledger(r, 0) /\ left = [alarms |-> s.alarms, faults |-> s.faults]
    BY <1>1 DEF InitWith, r
  <2> QED BY <1>2, <1>3, <1>4, <2>1, NoRosterIs DEF RosterTypes
<1>7. RestTypes
  <2>1. pub = [fresh |-> TRUE, brake |-> FALSE, agents |-> View(r)]
    BY <1>1 DEF InitWith, r
  <2>2. pub.agents = View(r) /\ pub \in [fresh : BOOLEAN, brake : BOOLEAN, agents : {View(r)}]
    BY <2>1
  <2>3. /\ pc = "tick" /\ calm = NoCalm /\ rested = TRUE /\ sig = "safe"
        /\ quiet = 0 /\ missed = FALSE
    BY <1>1 DEF InitWith
  <2> QED BY <1>4, <2>2, <2>3 DEF RestTypes, Findings
<1> QED BY <1>5, <1>6, <1>7, TypeParts

LEMMA RecordType ==
    ASSUME HookTypes, NEW a \in Agents, NEW event \in HookEvents,
           NEW weight \in Weights \union {NoTool}, NEW blocked \in BOOLEAN, NEW fresh,
           Record(a, event, weight, blocked, fresh)
    PROVE  clock' \in Nat /\ queue' \subseteq Observation
<1>1. [agent |-> a, event |-> event, weight |-> weight, blocked |-> blocked,
       at |-> clock + 1, receipt |-> None] \in Observation
  BY DEF Observation, HookTypes
<1> QED BY <1>1 DEF Record, HookTypes

LEMMA HookType ==
    ASSUME TypeOK, NEW a \in Agents, Hook(a) \/ Awake(a)
    PROVE  HookTypes'
<1>t. /\ HookTypes /\ doing[a] \in {"absent", "away", "idle"} \union Working
      /\ pub.fresh \in BOOLEAN
  BY TypeParts DEF HookTypes, RestTypes
<1>e. /\ {"Start", "Prompt", "PreTool", "PostTool", "Stop", "End"} \subseteq HookEvents
      /\ NoTool \in Weights \union {NoTool} /\ {"heavy", "light"} = Weights
      /\ "working" \in Working /\ Weights \subseteq Working
  BY DEF HookEvents, Weights, Working
<1>b. ASSUME NEW fresh, Began(a, fresh) PROVE blind' \subseteq Agents
  BY <1>t, <1>b DEF Began, HookTypes
<1>r. ASSUME Told(a) \notin Reading PROVE FALSE
  BY <1>r, LevelsAre, TypeParts DEF RestTypes, Told, IsSome, Reading
<1>d. ASSUME NEW class, NEW state, NEW fresh, Decide(a, class, state, fresh)
      PROVE  /\ doing' \in [Agents -> {"absent", "away", "idle"} \union Working]
             /\ clock' \in Nat /\ queue' \subseteq Observation
  <2> DEFINE blocked == ~AllowedIn(class, state)
  <2>1. /\ doing' = IF AllowedIn(class, state) THEN [doing EXCEPT ![a] = Weight(class)]
                    ELSE doing
        /\ Record(a, "PreTool", Weight(class), blocked, fresh)
    BY <1>d DEF Decide
  <2>2. blocked \in BOOLEAN
    OBVIOUS
  <2>3. Weight(class) \in Weights
    BY CallClass
  <2> HIDE DEF blocked
  <2>4. clock' \in Nat /\ queue' \subseteq Observation
    BY <1>t, <1>e, <2>1, <2>2, <2>3, RecordType
  <2> QED BY <1>t, <1>e, <2>1, <2>3, <2>4 DEF HookTypes
<1>1. CASE HookStart(a)
  BY <1>t, <1>e, <1>b, <1>1, RecordType DEF HookStart, HookTypes
<1>2. CASE HookPrompt(a)
  BY <1>t, <1>e, <1>b, <1>2, RecordType DEF HookPrompt, HookTypes
<1>3. CASE HookPostTool(a)
  BY <1>t, <1>e, <1>3, RecordType DEF HookPostTool, HookTypes
<1>4. CASE HookStop(a)
  BY <1>t, <1>e, <1>4, RecordType DEF HookStop, HookTypes
<1>5. CASE HookEnd(a)
  BY <1>t, <1>e, <1>5, RecordType DEF HookEnd, HookTypes
<1>6. ASSUME NEW class \in Classes, HookPreTool(a, class) PROVE HookTypes'
  BY <1>t, <1>b, <1>d, <1>6 DEF HookPreTool, HookTypes
<1>7. ASSUME NEW class \in Classes, HookWait(a, class) PROVE HookTypes'
  <2>1. class \in ToolClass
    BY ClassesAre
  <2> QED BY <1>t, <1>r, <1>7, <2>1 DEF HookWait, HookTypes
<1>8. CASE HookResume(a)
  <2>1. held[a] # None /\ Decide(a, held[a].class, held[a].read.state, TRUE)
        /\ Began(a, TRUE) /\ held' = [held EXCEPT ![a] = None]
    BY <1>8 DEF HookResume
  <2> QED BY <1>t, <1>b, <1>d, <2>1 DEF HookTypes
<1>9. CASE HookTimeout(a)
  BY <1>t, <1>e, <1>b, <1>9, RecordType DEF HookTimeout, HookTypes
<1> QED BY <1>1, <1>2, <1>3, <1>4, <1>5, <1>6, <1>7, <1>8, <1>9 DEF Hook, Awake

-----------------------------------------------------------------------------
(* Batches. *)

LEMMA MovedType ==
    ASSUME TypeOK, NEW target \in [DOMAIN roster -> LogicalState]
    PROVE  /\ IsRoster(Moved(target)) /\ DOMAIN Moved(target) = DOMAIN roster
           /\ \A a \in DOMAIN roster :
                /\ Moved(target)[a].state = target[a]
                /\ Moved(target)[a] = roster[a] \/ Moved(target)[a].epoch = epoch + 1
                /\ Moved(target)[a].idle = roster[a].idle
                /\ Moved(target)[a].seen = roster[a].seen
<1> DEFINE next(a) == IF target[a] = roster[a].state THEN roster[a]
                      ELSE [roster[a] EXCEPT !.state = target[a], !.epoch = epoch + 1]
<1>1. ASSUME NEW a \in DOMAIN roster
      PROVE  /\ next(a) \in LogicalAgent(None) /\ next(a).state = target[a]
             /\ next(a) = roster[a] \/ next(a).epoch = epoch + 1
             /\ next(a).idle = roster[a].idle /\ next(a).seen = roster[a].seen
  <2>1. roster[a] \in LogicalAgent(None) /\ target[a] \in LogicalState /\ epoch + 1 \in Nat
    BY DEF TypeOK, IsRoster, IsSome
  <2>2. CASE target[a] = roster[a].state
    BY <2>1, <2>2
  <2>3. CASE target[a] # roster[a].state
    <3>1. next(a) = [roster[a] EXCEPT !.state = target[a], !.epoch = epoch + 1]
      BY <2>3
    <3> QED BY <2>1, <3>1 DEF LogicalAgent
  <2> QED BY <2>2, <2>3
<1>2. Moved(target) = [a \in DOMAIN roster |-> next(a)]
  BY DEF Moved
<1> HIDE DEF next
<1>3. \A a \in DOMAIN roster : Moved(target)[a] = next(a)
  BY <1>2
<1>4. DOMAIN Moved(target) = DOMAIN roster /\ DOMAIN roster \subseteq Agents
  BY <1>2 DEF TypeOK, IsRoster, IsSome
<1>5. IsRoster(Moved(target))
  BY <1>1, <1>2, <1>4 DEF IsRoster, IsSome
<1> QED BY <1>1, <1>3, <1>4, <1>5

LEMMA FoundType ==
    ASSUME TypeOK, NEW s, Alarm(s) => left.alarms > 0, s = "lead" => left.faults > 0,
           NEW f \in {0, 1}, f = 1 => left.faults > 0 /\ s # "lead"
    PROVE  Found(s, f) \in [alarms : Nat, faults : Nat]
<1>1. left.alarms \in Nat /\ left.faults \in Nat
  BY DEF TypeOK
<1> DEFINE al == left.alarms - IF Alarm(s) THEN 1 ELSE 0
           fa == left.faults - f - IF s = "lead" THEN 1 ELSE 0
<1>2. al \in Nat
  BY <1>1
<1>3. fa \in Nat
  BY <1>1
<1> HIDE DEF al, fa
<1>4. [alarms |-> al, faults |-> fa] \in [alarms : Nat, faults : Nat]
  BY <1>2, <1>3
<1> QED BY <1>4 DEF Found, al, fa

(* What a tick does to the ledger when it looks at memory: nothing, or one   *)
(* batch under one new epoch that is saved with it.                          *)
Moving(target) ==
    /\ target \in [DOMAIN roster -> LogicalState]
    /\ roster' = Moved(target) /\ epoch' = epoch + 1 /\ disk' = Ledger(Moved(target), epoch + 1)

LEMMA BatchIs ==
    ASSUME TypeOK, NEW s, Assess(s), NEW target \in [DOMAIN roster -> LogicalState],
           Batch(s, target)
    PROVE  /\ UNCHANGED <<roster, epoch, disk>> \/ Moving(target)
           /\ left' \in [alarms : Nat, faults : Nat]
<1>1. (Alarm(s) => left.alarms > 0) /\ (s = "lead" => left.faults > 0)
  BY DEF Assess
<1>2. Found(s, 0) \in [alarms : Nat, faults : Nat]
  BY <1>1, FoundType
<1>3. left.faults > 0 /\ s # "lead" => Found(s, 1) \in [alarms : Nat, faults : Nat]
  BY <1>1, FoundType
<1> QED BY <1>2, <1>3 DEF Batch, Moving

LEMMA ContainIs ==
    ASSUME TypeOK, NEW s \in Signals, Contain(s)
    PROVE  /\ Assess(s) /\ left' \in [alarms : Nat, faults : Nat]
           /\ UNCHANGED <<roster, epoch, disk>> \/ \E target : Moving(target)
           /\ calm' \in {calm, 0, NoCalm} /\ missed' \in BOOLEAN
<1>t. \A a \in DOMAIN roster : roster[a].state \in LogicalState
  BY DEF TypeOK, IsRoster, IsSome, LogicalAgent
<1>0. ASSUME Assess(s), NoBatch(s)
      PROVE  left' \in [alarms : Nat, faults : Nat] /\ UNCHANGED <<roster, epoch, disk>>
  <2>1. (Alarm(s) => left.alarms > 0) /\ (s = "lead" => left.faults > 0)
    BY <1>0 DEF Assess
  <2> QED BY <1>0, <2>1, FoundType DEF NoBatch
<1>1. CASE Skipped(s)
  <2>1. (Alarm(s) => left.alarms > 0) /\ (s = "lead" => left.faults > 0) /\ Assess(s)
    BY <1>1 DEF Skipped, Assess
  <2>2. Found(s, 1) \in [alarms : Nat, faults : Nat]
    BY <1>1, <2>1, FoundType DEF Skipped
  <2> QED BY <1>1, <2>1, <2>2 DEF Skipped, TypeOK
<1>2. CASE SafeNothing(s)
  BY <1>0, <1>2 DEF SafeNothing, TypeOK
<1>3. CASE RelaxStep(s)
  <2>1. PICK who \in SUBSET ToRelax :
          Batch(s, [a \in DOMAIN roster |->
                      IF a \in who THEN Relax(roster[a].state) ELSE roster[a].state])
    BY <1>3 DEF RelaxStep
  <2> DEFINE target == [a \in DOMAIN roster |->
                          IF a \in who THEN Relax(roster[a].state) ELSE roster[a].state]
  <2>2. \A l \in LogicalState : Relax(l) \in LogicalState
    BY LevelsAre DEF Relax
  <2>3. target \in [DOMAIN roster -> LogicalState]
    BY <1>t, <2>2
  <2>4. Batch(s, target)
    BY <2>1
  <2> HIDE DEF target
  <2> QED BY <1>3, <2>3, <2>4, BatchIs DEF RelaxStep, TypeOK
<1>4. CASE LeadOverride(s)
  <2>1. PICK a \in ActiveLeads :
          IF roster[a].state = HandoffOnly THEN NoBatch(s)
          ELSE Batch(s, [b \in DOMAIN roster |-> IF b = a THEN Tighten(roster[b].state)
                                                 ELSE roster[b].state])
    BY <1>4 DEF LeadOverride
  <2> DEFINE target == [b \in DOMAIN roster |-> IF b = a THEN Tighten(roster[b].state)
                                                ELSE roster[b].state]
  <2>2. \A l \in LogicalState : Tighten(l) \in LogicalState
    BY LevelsAre DEF Tighten
  <2>3. target \in [DOMAIN roster -> LogicalState]
    BY <1>t, <2>2
  <2>4. NoBatch(s) \/ Batch(s, target)
    BY <2>1
  <2> HIDE DEF target
  <2> QED BY <1>0, <1>4, <2>3, <2>4, BatchIs DEF LeadOverride, Danger
<1>5. ASSUME NEW S, TightenStep(s, S), Assess(s)
      PROVE  /\ left' \in [alarms : Nat, faults : Nat]
             /\ UNCHANGED <<roster, epoch, disk>> \/ \E target : Moving(target)
  <2>1. PICK give \in [DOMAIN roster -> 0..3] :
          /\ \A a \in DOMAIN give : give[a] > 0 => give[a] <= StepsRemaining(roster[a].state)
          /\ Batch(s, Tightened(give))
    BY <1>5 DEF TightenStep, TightenBatch
  <2>2. ASSUME NEW a \in DOMAIN roster PROVE roster[a].state + give[a] \in LogicalState
    <3>1. roster[a].state \in {0, 1, 2, 3} /\ give[a] \in 0..3
      BY <1>t, LevelsAre
    <3>2. give[a] > 0 => give[a] <= 3 - roster[a].state
      BY <2>1, LevelsAre DEF StepsRemaining
    <3> QED BY <3>1, <3>2, LevelsAre
  <2>3. Tightened(give) \in [DOMAIN roster -> LogicalState]
    BY <2>2 DEF Tightened
  <2> QED BY <1>5, <2>1, <2>3, BatchIs
<1>6. CASE SubBatch(s)
  BY <1>5, <1>6 DEF SubBatch, Danger
<1>7. CASE LeadBatch(s)
  BY <1>5, <1>7 DEF LeadBatch, Danger
<1>8. CASE DangerNothing(s)
  BY <1>0, <1>8 DEF DangerNothing, Danger
<1> QED BY <1>1, <1>2, <1>3, <1>4, <1>6, <1>7, <1>8 DEF Contain

-----------------------------------------------------------------------------
(* Steps. *)

(* One file changes the record of its agent, or makes one, or is too old to  *)
(* change anything.                                                          *)
Applied(o) ==
    /\ o \in unread /\ unread' = unread \ {o}
    /\ \/ Late(Record0(o), o) /\ UNCHANGED <<roster, epoch>>
       \/ /\ ~Late(Record0(o), o)
          /\ DOMAIN roster' = DOMAIN roster \union {o.agent}
          /\ roster'[o.agent] = ApplyObservation(Record0(o), o, epoch, None)
          /\ \A a \in DOMAIN roster : a # o.agent => roster'[a] = roster[a]
          /\ epoch' = IF OpensEpoch(Record0(o), o) THEN epoch + 1 ELSE epoch

LEMMA DrainOneIs ==
    ASSUME TypeOK, DrainOne
    PROVE  \E o \in unread : /\ Applied(o) /\ \A p \in unread : o.at <= p.at
                             /\ o \in Observation /\ Record0(o) \in LogicalAgent(None)
                             /\ IsRoster(roster') /\ epoch' \in Nat
<1>1. PICK o \in unread :
        /\ \A p \in unread : o.at <= p.at
        /\ unread' = unread \ {o}
        /\ IF Late(Record0(o), o) THEN UNCHANGED <<roster, epoch>>
           ELSE /\ roster' = [a \in DOMAIN roster \union {o.agent} |->
                                IF a = o.agent
                                THEN ApplyObservation(Record0(o), o, epoch, None)
                                ELSE roster[a]]
                /\ epoch' = IF OpensEpoch(Record0(o), o) THEN epoch + 1 ELSE epoch
  BY DEF DrainOne
<1>2. o \in Observation /\ o.agent \in Agents /\ o.at \in Nat /\ epoch \in Nat
  BY DEF TypeOK, Observation
<1>3. Record0(o) \in LogicalAgent(None)
  BY <1>2, NewAgentType DEF Record0, Known, TypeOK, IsRoster, IsSome
<1>4. ApplyObservation(Record0(o), o, epoch, None) \in LogicalAgent(None)
  BY <1>2, <1>3, Observed
<1>5. CASE Late(Record0(o), o)
  BY <1>1, <1>2, <1>3, <1>5 DEF Applied, TypeOK
<1>6. CASE ~Late(Record0(o), o)
  <2> DEFINE s == ApplyObservation(Record0(o), o, epoch, None)
  <2> HIDE DEF s
  <2>1. /\ roster' = [a \in DOMAIN roster \union {o.agent} |->
                        IF a = o.agent THEN s ELSE roster[a]]
        /\ epoch' = IF OpensEpoch(Record0(o), o) THEN epoch + 1 ELSE epoch
    BY <1>1, <1>6 DEF s
  <2>2. s \in LogicalAgent(None)
    BY <1>4 DEF s
  <2>3. IsRoster(roster') /\ epoch' \in Nat
    BY <1>2, <2>1, <2>2 DEF TypeOK, IsRoster, IsSome
  <2>4. Applied(o)
    BY <1>1, <1>6, <2>1 DEF Applied, s
  <2> QED BY <1>1, <1>2, <1>3, <2>3, <2>4
<1> QED BY <1>5, <1>6

LEMMA Ages == /\ \A n \in Nat : Older(n) \in Nat
              /\ Older(NoCalm) = NoCalm
BY ContainmentAssumption DEF Older, NoCalm, MaxCalm

LEMMA TypeNext == TypeOK /\ [Next]_vars => TypeOK'
<1> SUFFICES ASSUME TypeOK, [Next]_vars PROVE TypeOK'
  OBVIOUS
<1>t. HookTypes /\ RosterTypes /\ RestTypes
  BY TypeParts
<1>g. HookTypes' /\ RosterTypes' /\ RestTypes' => TypeOK'
  BY TypeParts, PTL
<1>f. Fault => left' \in [alarms : Nat, faults : Nat]
  BY <1>t DEF Fault, RosterTypes
<1>1. ASSUME NEW a \in Agents, Hook(a) \/ Awake(a) PROVE TypeOK'
  <2>1. UNCHANGED daemonVars
    BY <1>1 DEF Hook, Awake, HookStart, HookPrompt, HookPreTool, HookWait, HookResume,
                HookTimeout, HookPostTool, HookStop, HookEnd
  <2>2. RosterTypes' /\ RestTypes'
    BY <1>t, <2>1 DEF daemonVars, drainVars, RosterTypes, RestTypes
  <2> QED BY <1>1, <1>g, <2>2, HookType
<1>2. ASSUME NEW a \in Agents, Prune(a) PROVE TypeOK'
  <2>1. IsRoster(roster')
    BY <1>2, <1>t DEF Prune, RosterTypes, IsRoster, IsSome
  <2>2. HookTypes'
    BY <1>2, <1>t DEF Prune, HookTypes, hookVars
  <2>3. IsLedger(disk')
    BY <1>2, <1>t, <2>1, LedgerIs DEF Prune, RosterTypes
  <2>4. RosterTypes'
    BY <1>2, <1>f, <1>t, <2>1, <2>3 DEF Prune, RosterTypes, drainVars
  <2>5. RestTypes'
    BY <1>2, <1>t DEF Prune, RestTypes, containVars
  <2> QED BY <1>g, <2>2, <2>4, <2>5
<1>3. CASE TickStart
  <2>1. IsLedger(before')
    BY <1>3, <1>t, LedgerIs DEF TickStart, RosterTypes
  <2>2. RosterTypes'
    BY <1>3, <1>t, <2>1 DEF TickStart, RosterTypes, HookTypes
  <2> QED BY <1>3, <1>g, <1>t, <2>2 DEF TickStart, HookTypes, RestTypes, hookVars, containVars
<1>4. CASE DrainOne
  <2>1. IsRoster(roster') /\ epoch' \in Nat /\ unread' \subseteq Observation
    BY <1>4, <1>t, DrainOneIs DEF Applied, RosterTypes
  <2>2. RosterTypes'
    BY <1>4, <1>t, <2>1 DEF DrainOne, RosterTypes
  <2> QED BY <1>4, <1>g, <1>t, <2>2 DEF DrainOne, HookTypes, RestTypes, hookVars, containVars
<1>5. CASE DrainSaved
  <2>1. IsLedger(disk') /\ IsLedger(before')
    BY <1>5, <1>t, LedgerIs, NoRosterIs DEF DrainSaved, RosterTypes
  <2>2. RosterTypes'
    BY <1>5, <1>t, <2>1 DEF DrainSaved, RosterTypes
  <2> QED BY <1>5, <1>g, <1>t, <2>2 DEF DrainSaved, HookTypes, RestTypes, hookVars, containVars
<1>6. CASE DrainNotSaved
  <2>1. IsLedger(before') /\ IsRoster(before.roster) /\ before.epoch \in Nat
    BY <1>6, <1>t, NoRosterIs DEF DrainNotSaved, RosterTypes, IsLedger
  <2>2. RosterTypes'
    BY <1>6, <1>f, <1>t, <2>1 DEF DrainNotSaved, RosterTypes
  <2> QED BY <1>6, <1>g, <1>t, <2>2 DEF DrainNotSaved, HookTypes, RestTypes, hookVars, containVars
<1>7. CASE RemoveFiles
  <2>1. HookTypes'
    BY <1>7, <1>t DEF RemoveFiles, HookTypes
  <2>2. RosterTypes'
    BY <1>7, <1>t DEF RemoveFiles, RosterTypes
  <2> QED BY <1>7, <1>g, <1>t, <2>1, <2>2 DEF RemoveFiles, RestTypes, containVars
<1>8. ASSUME NEW s \in Signals, Contain(s) PROVE TypeOK'
  <2>1. /\ Assess(s) /\ left' \in [alarms : Nat, faults : Nat]
        /\ UNCHANGED <<roster, epoch, disk>> \/ \E target : Moving(target)
        /\ calm' \in {calm, 0, NoCalm} /\ missed' \in BOOLEAN
    BY <1>8, ContainIs
  <2>2. HookTypes'
    BY <1>t, <2>1 DEF Assess, HookTypes, hookVars
  <2>3. IsRoster(roster') /\ epoch' \in Nat /\ IsLedger(disk')
    <3>1. CASE UNCHANGED <<roster, epoch, disk>>
      BY <1>t, <3>1 DEF RosterTypes
    <3>2. ASSUME NEW target, Moving(target) PROVE IsRoster(roster') /\ epoch' \in Nat /\ IsLedger(disk')
      <4>1. IsRoster(Moved(target)) /\ epoch + 1 \in Nat
        BY <1>t, <3>2, MovedType DEF Moving, RosterTypes
      <4> QED BY <3>2, <4>1, LedgerIs DEF Moving
    <3> QED BY <2>1, <3>1, <3>2
  <2>4. RosterTypes'
    BY <1>t, <2>1, <2>3 DEF Assess, RosterTypes, drainVars
  <2>5. RestTypes'
    <3>1. sig' \in Findings /\ quiet' \in Nat
      BY <1>t, <2>1, ContainmentAssumption DEF Assess, RestTypes
    <3> QED BY <1>t, <2>1, <3>1 DEF Assess, RestTypes
  <2> QED BY <1>g, <2>2, <2>4, <2>5
<1>9. CASE Publish
  <2>1. IsSome(View(roster), Reading)
    BY <1>t, RosterView DEF RosterTypes
  <2>2. HookTypes' /\ RosterTypes'
    BY <1>9, <1>t DEF Publish, HookTypes, RosterTypes, hookVars, drainVars
  <2>3. pub' = [fresh |-> TRUE, brake |-> sig \in Braking, agents |-> View(roster)]
    BY <1>9 DEF Publish
  <2>4. pub'.agents = View(roster)
        /\ pub' \in [fresh : BOOLEAN, brake : BOOLEAN, agents : {View(roster)}]
    BY <2>3
  <2>5. calm' \in Nat \union {NoCalm} /\ quiet' \in Nat
    BY <1>9, <1>t, Ages DEF Publish, RestTypes
  <2>6. RestTypes'
    BY <1>9, <1>t, <2>1, <2>4, <2>5 DEF Publish, RestTypes
  <2> QED BY <1>g, <2>2, <2>6
<1>10. CASE Crash
  <2>1. IsRoster(disk.roster) /\ disk.epoch \in Nat /\ IsLedger(before')
    BY <1>10, <1>t, NoRosterIs DEF Crash, RosterTypes, IsLedger
  <2>2. HookTypes'
    BY <1>10, <1>t DEF Crash, HookTypes
  <2>3. RosterTypes'
    BY <1>10, <1>f, <1>t, <2>1 DEF Crash, RosterTypes
  <2> QED BY <1>10, <1>g, <1>t, <2>2, <2>3 DEF Crash, RestTypes
<1>11. CASE Restart
  BY <1>11, <1>g, <1>t DEF Restart, HookTypes, RosterTypes, RestTypes, hookVars, drainVars,
                          containVars
<1>12. CASE Stale
  <2>1. pub'.agents = pub.agents /\ pub' \in [fresh : BOOLEAN, brake : BOOLEAN, agents : {pub.agents}]
    BY <1>12, <1>t DEF Stale, RestTypes
  <2> QED BY <1>12, <1>g, <1>t, <2>1 DEF Stale, HookTypes, RosterTypes, RestTypes, hookVars,
                          drainVars, containVars
<1>13. CASE UNCHANGED vars
  BY <1>13, <1>g, <1>t DEF vars, HookTypes, RosterTypes, RestTypes, hookVars, drainVars
<1> QED BY <1>1, <1>2, <1>3, <1>4, <1>5, <1>6, <1>7, <1>8, <1>9, <1>10, <1>11, <1>12, <1>13
        DEF Next, Daemon, Drain

(* In every reachable state every variable has its type.                     *)
THEOREM TypeCorrect == Spec => []TypeOK
BY TypeInit, TypeNext, PTL DEF Spec

-----------------------------------------------------------------------------
(* Epochs. *)

Alike(r, s) == r.state = s.state /\ r.epoch = s.epoch

(* What is in memory outside of a drain, and what a drain falls back to, is  *)
(* what runtime.json holds but for records that were dropped, unrestricted,  *)
(* and not saved since.                                                      *)
Kept(r, e) ==
    /\ e = disk.epoch
    /\ DOMAIN r \subseteq DOMAIN disk.roster
    /\ \A a \in DOMAIN r : r[a] = disk.roster[a]
    /\ \A a \in DOMAIN disk.roster \ DOMAIN r : disk.roster[a].state = Active

RosterKept == IF pc = "drain" THEN Kept(before.roster, before.epoch) ELSE Kept(roster, epoch)

(* A drain does no more than release agents: a record keeps its restriction  *)
(* and its epoch, or it is unrestricted and no older than what was saved.    *)
Released(r) == r.state = Active /\ disk.epoch <= r.epoch

DrainKeeps ==
    pc = "drain" =>
      /\ unread \subseteq taken /\ disk.epoch <= epoch
      /\ DOMAIN before.roster \subseteq DOMAIN roster
      /\ \A a \in DOMAIN roster :
           /\ roster[a].epoch <= epoch
           /\ a \in DOMAIN before.roster =>
                \/ Alike(roster[a], before.roster[a])
                \/ Released(roster[a]) /\ disk.epoch < roster[a].epoch
           /\ a \notin DOMAIN before.roster => Released(roster[a])
      /\ ~Changed => roster = before.roster /\ epoch = before.epoch

(* The epochs on disk have been given out, and none of a restriction is the  *)
(* first one.                                                                *)
DiskNumbers ==
    \A a \in DOMAIN disk.roster :
      /\ disk.roster[a].epoch <= disk.epoch
      /\ disk.roster[a].epoch = 0 => disk.roster[a].state = Active

(* What a hook read of an agent is no newer than the agent's record on disk, *)
(* and of one epoch with it only when it says the same; a restriction of an  *)
(* agent that has no record any more is of an earlier epoch than the next    *)
(* record will have.                                                         *)
Shown(l, a, v) ==
    /\ v.epoch <= l.epoch
    /\ v.epoch = 0 => v.state = Active
    /\ a \in DOMAIN l.roster =>
         /\ v.epoch <= l.roster[a].epoch
         /\ v.epoch = l.roster[a].epoch => v.state = l.roster[a].state
    /\ a \notin DOMAIN l.roster => v.state = Active \/ v.epoch < l.epoch

AllShown ==
    /\ \A a \in DOMAIN pub.agents : Shown(disk, a, pub.agents[a])
    /\ \A a \in Agents : held[a] # None => Shown(disk, a, held[a].read)
    /\ Agree(pub.agents, HeldView)

EpochInv == TypeOK /\ RosterKept /\ DrainKeeps /\ DiskNumbers /\ AllShown

LEMMA RosterFacts ==
    ASSUME TypeOK
    PROVE  /\ epoch \in Nat /\ disk.epoch \in Nat /\ before.epoch \in Nat
           /\ \A a \in DOMAIN roster : roster[a] \in LogicalAgent(None)
                /\ roster[a].epoch \in Nat /\ roster[a].state \in LogicalState /\ a \in Agents
           /\ \A a \in DOMAIN disk.roster : disk.roster[a] \in LogicalAgent(None)
                /\ disk.roster[a].epoch \in Nat /\ disk.roster[a].state \in LogicalState
                /\ a \in Agents
           /\ \A a \in DOMAIN before.roster : before.roster[a] \in LogicalAgent(None)
                /\ before.roster[a].epoch \in Nat
           /\ \A a \in DOMAIN pub.agents : pub.agents[a] \in Reading
                /\ pub.agents[a].epoch \in Nat /\ pub.agents[a].state \in LogicalState
           /\ \A a \in Agents : held[a] # None => held[a].read \in Reading
                /\ held[a].read.epoch \in Nat
BY DEF TypeOK, IsRoster, IsLedger, IsSome, LogicalAgent, Reading

LEMMA ViewOf ==
    ASSUME NEW r
    PROVE  /\ DOMAIN View(r) = DOMAIN r
           /\ \A a \in DOMAIN r : View(r)[a].state = r[a].state /\ View(r)[a].epoch = r[a].epoch
BY DEF View

LEMMA LedgerOf ==
    ASSUME NEW r, NEW e
    PROVE  Ledger(r, e).roster = r /\ Ledger(r, e).epoch = e
BY DEF Ledger

(* All that a hook may have read still counts when the saved ledger moves    *)
(* on: the records it keeps stay as they are or are of later epochs, those   *)
(* it drops were unrestricted, and those it makes are so.                    *)
Onward(l) ==
    /\ l.epoch \in Nat /\ disk.epoch <= l.epoch
    /\ \A a \in DOMAIN disk.roster :
         IF a \in DOMAIN l.roster
         THEN \/ Alike(l.roster[a], disk.roster[a])
              \/ l.roster[a].epoch > disk.epoch
              \/ disk.roster[a].state = Active /\ Released(l.roster[a])
         ELSE disk.roster[a].state = Active
    /\ \A a \in DOMAIN l.roster \ DOMAIN disk.roster : Released(l.roster[a])
    /\ \A a \in DOMAIN l.roster :
         /\ l.roster[a].epoch \in Nat /\ l.roster[a].epoch <= l.epoch
         /\ l.roster[a].epoch = 0 => l.roster[a].state = Active

LEMMA ShownOnward ==
    ASSUME TypeOK, DiskNumbers, NEW l, Onward(l), NEW a, NEW v \in Reading, Shown(disk, a, v)
    PROVE  Shown(l, a, v)
<1>1. v.epoch \in Nat /\ v.epoch <= l.epoch /\ disk.epoch \in Nat
  BY RosterFacts DEF Reading, Shown, Onward
<1>2. CASE a \in DOMAIN disk.roster /\ a \in DOMAIN l.roster
  <2>1. /\ disk.roster[a].epoch \in Nat /\ l.roster[a].epoch \in Nat
        /\ disk.roster[a].epoch <= disk.epoch
    BY <1>2, RosterFacts DEF DiskNumbers, Onward
  <2>2. v.epoch <= l.roster[a].epoch /\ (v.epoch = l.roster[a].epoch => v.state = l.roster[a].state)
    BY <1>1, <1>2, <2>1 DEF Onward, Shown, Alike, Released
  <2> QED BY <1>1, <1>2, <2>2 DEF Shown
<1>3. CASE a \in DOMAIN disk.roster /\ a \notin DOMAIN l.roster
  <2>1. /\ disk.roster[a].epoch \in Nat /\ disk.roster[a].epoch <= disk.epoch
        /\ disk.roster[a].state = Active
    BY <1>3, RosterFacts DEF DiskNumbers, Onward
  <2>2. v.state = Active \/ v.epoch < l.epoch
    BY <1>1, <1>3, <2>1 DEF Onward, Shown
  <2> QED BY <1>1, <1>3, <2>2 DEF Shown
<1>4. CASE a \notin DOMAIN disk.roster /\ a \in DOMAIN l.roster
  <2>1. v.epoch <= l.roster[a].epoch /\ (v.epoch = l.roster[a].epoch => v.state = l.roster[a].state)
    BY <1>1, <1>4 DEF Onward, Shown, Released
  <2> QED BY <1>1, <1>4, <2>1 DEF Shown
<1>5. CASE a \notin DOMAIN disk.roster /\ a \notin DOMAIN l.roster
  BY <1>1, <1>5 DEF Onward, Shown
<1> QED BY <1>2, <1>3, <1>4, <1>5

LEMMA AllShownOnward ==
    ASSUME TypeOK, DiskNumbers, AllShown, Onward(disk'), UNCHANGED <<pub, held>>
    PROVE  AllShown' /\ DiskNumbers'
<1>1. \A a \in DOMAIN pub.agents : Shown(disk', a, pub.agents[a])
  BY ShownOnward, RosterFacts DEF AllShown
<1>2. \A a \in Agents : held[a] # None => Shown(disk', a, held[a].read)
  BY ShownOnward, RosterFacts DEF AllShown
<1>3. Agree(pub.agents, HeldView)'
  BY DEF AllShown, Agree, HeldView
<1>4. DiskNumbers'
  BY DEF Onward, DiskNumbers
<1> QED BY <1>1, <1>2, <1>3, <1>4 DEF AllShown

LEMMA EpochInit == Init => EpochInv
<1> SUFFICES ASSUME Init PROVE EpochInv
  OBVIOUS
<1>1. PICK s \in Starts : InitWith(s.running, s.others, s.hooks, s.alarms, s.faults)
  BY DEF Init
<1> DEFINE r == Announced(s.running)
<1>2. roster = r /\ disk = Ledger(r, 0) /\ epoch = 0 /\ pc = "tick" /\ pub.agents = View(r)
      /\ held = [a \in Agents |-> None]
  BY <1>1 DEF InitWith
<1>3. disk.roster = r /\ disk.epoch = 0
  BY <1>2, LedgerOf
<1>4. \A a \in DOMAIN r : r[a].epoch = 0 /\ r[a].state = Active
  BY DEF Announced, NewAgent
<1>5. /\ DOMAIN View(r) = DOMAIN r
      /\ \A a \in DOMAIN r : View(r)[a].state = r[a].state /\ View(r)[a].epoch = r[a].epoch
  BY ViewOf
<1> HIDE DEF r
<1>6. RosterKept /\ DrainKeeps /\ DiskNumbers
  BY <1>2, <1>3, <1>4 DEF RosterKept, Kept, DrainKeeps, DiskNumbers
<1>7. AllShown
  BY <1>2, <1>3, <1>4, <1>5 DEF AllShown, Shown, Agree, HeldView
<1> QED BY <1>6, <1>7, TypeInit DEF EpochInv

(* What is published is what is saved, or less.                              *)
LEMMA SavedShown ==
    ASSUME TypeOK, DiskNumbers, AllShown, Kept(roster, epoch)
    PROVE  /\ \A a \in DOMAIN roster : Shown(disk, a, View(roster)[a])
           /\ Agree(View(roster), HeldView) /\ Agree(View(roster), pub.agents)
<1>1. \A a \in DOMAIN roster : /\ View(roster)[a].state = disk.roster[a].state
                               /\ View(roster)[a].epoch = disk.roster[a].epoch
                               /\ a \in DOMAIN disk.roster
  BY ViewOf DEF Kept
<1>2. ASSUME NEW a \in DOMAIN roster PROVE Shown(disk, a, View(roster)[a])
  <2>1. /\ disk.roster[a].epoch <= disk.epoch
        /\ disk.roster[a].epoch = 0 => disk.roster[a].state = Active
        /\ disk.roster[a].epoch \in Nat /\ a \in DOMAIN disk.roster
    BY <1>1, RosterFacts DEF DiskNumbers
  <2>2. Shown(disk, a, disk.roster[a])
    BY <2>1 DEF Shown
  <2> QED BY <1>1, <2>1, <2>2 DEF Shown
<1>3. \A a \in DOMAIN HeldView : HeldView[a] = held[a].read /\ a \in Agents /\ held[a] # None
  BY DEF HeldView
<1>4. Agree(View(roster), HeldView)
  BY <1>1, <1>3, ViewOf DEF Agree, AllShown, Shown
<1>5. Agree(View(roster), pub.agents)
  BY <1>1, ViewOf DEF Agree, AllShown, Shown
<1> QED BY <1>2, <1>4, <1>5

(* A wait at the brake begins with what is published.                        *)
LEMMA HookShown ==
    ASSUME TypeOK, AllShown, DiskNumbers, NEW a \in Agents, Hook(a) \/ Awake(a)
    PROVE  AllShown'
<1>1. UNCHANGED <<pub, disk>>
  BY DEF Hook, Awake, HookStart, HookPrompt, HookPreTool, HookWait, HookResume,
         HookTimeout, HookPostTool, HookStop, HookEnd, daemonVars
<1>2. \/ UNCHANGED held
      \/ held' = [held EXCEPT ![a] = None]
      \/ \E class : held' = [held EXCEPT ![a] = [class |-> class, read |-> Told(a)]]
  BY DEF Hook, Awake, HookStart, HookPrompt, HookPreTool, HookWait, HookResume,
         HookTimeout, HookPostTool, HookStop, HookEnd
<1>3. DOMAIN held = Agents
  BY DEF TypeOK
<1>4. \A b \in Agents : held'[b] # None => \/ held[b] # None /\ held'[b] = held[b]
                                           \/ held'[b].read = Told(b)
  BY <1>2, <1>3
<1>5. \A b \in Agents : Shown(disk, b, Told(b))
  <2> SUFFICES ASSUME NEW b \in Agents, b \notin DOMAIN pub.agents PROVE Shown(disk, b, Told(b))
    BY DEF Told, AllShown
  <2>1. Told(b).state = Active /\ Told(b).epoch = 0
    BY DEF Told
  <2> QED BY <2>1, RosterFacts DEF Shown, DiskNumbers
<1>6. \A b \in Agents : held'[b] # None => Shown(disk', b, held'[b].read)
  BY <1>1, <1>4, <1>5 DEF AllShown
<1>7. \A b \in DOMAIN pub.agents : pub.agents[b].epoch = 0 => pub.agents[b].state = Active
  BY DEF AllShown, Shown
<1>8. Agree(pub.agents, HeldView)'
  <2>1. ASSUME NEW b \in DOMAIN pub.agents, b \in Agents, held'[b] # None,
               pub.agents[b].epoch = held'[b].read.epoch
        PROVE  pub.agents[b].state = held'[b].read.state
    <3>1. CASE held[b] # None /\ held'[b] = held[b]
      BY <2>1, <3>1 DEF AllShown, Agree, HeldView
    <3>2. CASE held'[b].read = Told(b)
      BY <2>1, <3>2 DEF Told
    <3> QED BY <1>4, <2>1, <3>1, <3>2
  <2> QED BY <1>1, <2>1 DEF Agree, HeldView
<1> QED BY <1>1, <1>6, <1>8 DEF AllShown

LEMMA DrainOneKeeps ==
    ASSUME EpochInv, DrainOne
    PROVE  DrainKeeps'
<1>1. PICK o \in unread : /\ Applied(o) /\ o \in Observation
                          /\ Record0(o) \in LogicalAgent(None)
  BY DrainOneIs DEF EpochInv
<1>2. /\ pc = "drain" /\ unread \subseteq taken /\ disk.epoch <= epoch
      /\ UNCHANGED <<before, taken, disk, pc>> /\ unread' \subseteq taken
  BY <1>1 DEF DrainOne, EpochInv, DrainKeeps, Applied
<1>3. Changed' = Changed
  BY <1>2 DEF Changed
<1>4. CASE Late(Record0(o), o) /\ UNCHANGED <<roster, epoch>>
  BY <1>2, <1>3, <1>4 DEF EpochInv, DrainKeeps, Released
<1>5. CASE /\ ~Late(Record0(o), o)
           /\ DOMAIN roster' = DOMAIN roster \union {o.agent}
           /\ roster'[o.agent] = ApplyObservation(Record0(o), o, epoch, None)
           /\ \A a \in DOMAIN roster : a # o.agent => roster'[a] = roster[a]
           /\ epoch' = IF OpensEpoch(Record0(o), o) THEN epoch + 1 ELSE epoch
  <2> DEFINE b == o.agent
             r == Record0(o)
             s == ApplyObservation(r, o, epoch, None)
  <2>1. /\ OpensEpoch(r, o) => s.state = Active /\ s.epoch = epoch + 1
        /\ ~OpensEpoch(r, o) => s.state = r.state /\ s.epoch = r.epoch
    BY <1>1, Observed, RosterFacts DEF EpochInv
  <2>2. r = IF b \in DOMAIN roster THEN roster[b] ELSE NewAgent(o.at, epoch, None)
    BY DEF Record0, Known
  <2>3. b \notin DOMAIN roster => r.state = Active /\ r.epoch = epoch
    BY <2>2 DEF NewAgent
  <2>4. roster'[b] = s
    BY <1>5
  <2> HIDE DEF b, r, s
  <2>n. epoch \in Nat /\ disk.epoch \in Nat /\ r.epoch \in Nat
    BY <1>1, RosterFacts DEF EpochInv, LogicalAgent, r
  <2>5. s.epoch \in Nat /\ epoch' \in Nat /\ epoch <= epoch' /\ s.epoch <= epoch'
    <3>1. r.epoch <= epoch
      BY <1>2, <2>2, <2>3, <2>n DEF EpochInv, DrainKeeps
    <3>2. CASE OpensEpoch(r, o)
      BY <1>5, <2>1, <2>n, <3>2 DEF r
    <3>3. CASE ~OpensEpoch(r, o)
      BY <1>5, <2>1, <2>n, <3>1, <3>3 DEF r
    <3> QED BY <3>2, <3>3
  <2>6. b \in DOMAIN before.roster =>
          \/ Alike(s, before.roster[b])
          \/ Released(s) /\ disk.epoch < s.epoch
    <3>1. CASE OpensEpoch(r, o)
      BY <1>2, <2>1, <2>n, <3>1 DEF Released
    <3>2. CASE ~OpensEpoch(r, o)
      BY <1>2, <2>1, <2>2, <3>2 DEF EpochInv, DrainKeeps, Alike, Released
    <3> QED BY <3>1, <3>2
  <2>7. b \notin DOMAIN before.roster => Released(s)
    <3>1. CASE OpensEpoch(r, o)
      BY <1>2, <2>1, <2>n, <3>1 DEF Released
    <3>2. CASE ~OpensEpoch(r, o)
      BY <1>2, <2>1, <2>2, <2>3, <2>n, <3>2 DEF EpochInv, DrainKeeps, Released
    <3> QED BY <3>1, <3>2
  <2>8. Changed
    <3>1. SUFFICES ASSUME ~Changed PROVE FALSE
      OBVIOUS
    <3>2. b \in DOMAIN before.roster /\ Late(before.roster[b], o) /\ roster = before.roster
      BY <1>2, <3>1 DEF Changed, EpochInv, DrainKeeps, b
    <3> QED BY <1>5, <2>2, <3>2 DEF r
  <2>9. \A a \in DOMAIN roster : roster[a].epoch \in Nat
    BY RosterFacts DEF EpochInv
  <2>10. DOMAIN roster' = DOMAIN roster \union {b} /\ \A a \in DOMAIN roster : a # b => roster'[a] = roster[a]
    BY <1>5 DEF b
  <2>11. \A a \in DOMAIN roster' :
           /\ roster'[a].epoch <= epoch'
           /\ a \in DOMAIN before.roster =>
                \/ Alike(roster'[a], before.roster[a])
                \/ Released(roster'[a]) /\ disk.epoch < roster'[a].epoch
           /\ a \notin DOMAIN before.roster => Released(roster'[a])
    <3> SUFFICES ASSUME NEW a \in DOMAIN roster, a # b
                 PROVE  /\ roster'[a].epoch <= epoch'
                        /\ a \in DOMAIN before.roster =>
                             \/ Alike(roster'[a], before.roster[a])
                             \/ Released(roster'[a]) /\ disk.epoch < roster'[a].epoch
                        /\ a \notin DOMAIN before.roster => Released(roster'[a])
      BY <2>4, <2>5, <2>6, <2>7, <2>10
    <3>1. roster'[a] = roster[a] /\ roster[a].epoch <= epoch
      BY <1>2, <2>10 DEF EpochInv, DrainKeeps
    <3>2. roster'[a].epoch <= epoch'
      BY <2>5, <2>9, <2>n, <3>1
    <3> QED BY <1>2, <3>1, <3>2 DEF EpochInv, DrainKeeps
  <2>12. DOMAIN before.roster \subseteq DOMAIN roster' /\ disk.epoch <= epoch'
    BY <1>2, <2>5, <2>10, <2>n DEF EpochInv, DrainKeeps
  <2> QED BY <1>2, <1>3, <2>8, <2>11, <2>12 DEF DrainKeeps, Released
<1> QED BY <1>1, <1>4, <1>5 DEF Applied

(* The ledger a drain ends with is one that saved readings survive.          *)
LEMMA DrainedOnward ==
    ASSUME EpochInv, pc = "drain"
    PROVE  Onward(Ledger(roster, epoch))
<1>1. /\ Kept(before.roster, before.epoch) /\ disk.epoch <= epoch
      /\ DOMAIN before.roster \subseteq DOMAIN roster
      /\ \A a \in DOMAIN roster :
           /\ roster[a].epoch <= epoch
           /\ a \in DOMAIN before.roster =>
                \/ Alike(roster[a], before.roster[a])
                \/ Released(roster[a]) /\ disk.epoch < roster[a].epoch
           /\ a \notin DOMAIN before.roster => Released(roster[a])
  BY DEF EpochInv, RosterKept, DrainKeeps
<1>n. epoch \in Nat /\ disk.epoch \in Nat /\ \A a \in DOMAIN roster : roster[a].epoch \in Nat
  BY RosterFacts DEF EpochInv
<1>2. ASSUME NEW a \in DOMAIN disk.roster
      PROVE  IF a \in DOMAIN roster
             THEN \/ Alike(roster[a], disk.roster[a])
                  \/ roster[a].epoch > disk.epoch
                  \/ disk.roster[a].state = Active /\ Released(roster[a])
             ELSE disk.roster[a].state = Active
  <2>1. CASE a \in DOMAIN before.roster
    BY <1>1, <1>n, <2>1 DEF Kept, Alike
  <2>2. CASE a \notin DOMAIN before.roster
    BY <1>1, <2>2 DEF Kept
  <2> QED BY <2>1, <2>2
<1>3. \A a \in DOMAIN roster \ DOMAIN disk.roster : Released(roster[a])
  BY <1>1 DEF Kept
<1>4. ASSUME NEW a \in DOMAIN roster, roster[a].epoch = 0 PROVE roster[a].state = Active
  <2>1. CASE a \in DOMAIN before.roster /\ Alike(roster[a], before.roster[a])
    BY <1>1, <1>4, <2>1 DEF Kept, Alike, EpochInv, DiskNumbers
  <2> QED BY <1>1, <2>1 DEF Released
<1> QED BY <1>1, <1>n, <1>2, <1>3, <1>4, LedgerOf DEF Onward

LEMMA EpochNext == EpochInv /\ [Next]_vars => EpochInv'
<1> SUFFICES ASSUME EpochInv, [Next]_vars PROVE EpochInv'
  OBVIOUS
<1>t. TypeOK /\ TypeOK' /\ RosterKept /\ DrainKeeps /\ DiskNumbers /\ AllShown
  BY TypeNext DEF EpochInv
<1>g. RosterKept' /\ DrainKeeps' /\ DiskNumbers' /\ AllShown' => EpochInv'
  BY <1>t DEF EpochInv
<1>n. epoch \in Nat /\ disk.epoch \in Nat
  BY <1>t, RosterFacts
\* Where neither the saved ledger nor what hooks may have read changes.
<1>u. ASSUME UNCHANGED <<disk, pub, held>> PROVE DiskNumbers' /\ AllShown'
  BY <1>t, <1>u DEF DiskNumbers, AllShown, Shown, Agree, HeldView
<1>1. ASSUME NEW a \in Agents, Hook(a) \/ Awake(a) PROVE EpochInv'
  <2>1. UNCHANGED daemonVars
    BY <1>1 DEF Hook, Awake, HookStart, HookPrompt, HookPreTool, HookWait, HookResume,
                HookTimeout, HookPostTool, HookStop, HookEnd
  <2>2. RosterKept' /\ DrainKeeps' /\ DiskNumbers'
    BY <1>t, <2>1 DEF daemonVars, drainVars, RosterKept, Kept, DrainKeeps, Changed, Released,
                      DiskNumbers
  <2> QED BY <1>1, <1>g, <1>t, <2>2, HookShown
<1>2. ASSUME NEW a \in Agents, Prune(a) PROVE EpochInv'
  <2>1. /\ pc = "tick" /\ pc' = "tick" /\ a \in DOMAIN roster /\ roster[a].state = Active
        /\ roster' = [b \in DOMAIN roster \ {a} |-> roster[b]] /\ epoch' = epoch
        /\ UNCHANGED <<pub, held>> /\ (disk' = Ledger(roster', epoch) \/ disk' = disk)
    BY <1>2 DEF Prune, hookVars
  <2>2. Kept(roster, epoch)
    BY <1>t, <2>1 DEF RosterKept
  <2>3. DrainKeeps'
    BY <2>1 DEF DrainKeeps
  <2>4. CASE disk' = disk
    <3>1. RosterKept'
      BY <2>1, <2>2, <2>4 DEF RosterKept, Kept
    <3> QED BY <1>g, <1>u, <2>1, <2>3, <2>4, <3>1
  <2>5. CASE disk' = Ledger(roster', epoch)
    <3>1. disk'.roster = roster' /\ disk'.epoch = epoch
      BY <2>5, LedgerOf
    <3>2. RosterKept'
      BY <2>1, <3>1 DEF RosterKept, Kept
    <3>3. Onward(disk')
      BY <1>n, <1>t, <2>1, <2>2, <3>1, RosterFacts DEF Kept, Onward, Alike, DiskNumbers
    <3> QED BY <1>g, <1>t, <2>1, <2>3, <3>2, <3>3, AllShownOnward
  <2> QED BY <2>1, <2>4, <2>5
<1>3. CASE TickStart
  <2>1. /\ pc = "tick" /\ pc' = "drain" /\ before' = Ledger(roster, epoch)
        /\ UNCHANGED <<roster, epoch, disk, pub, held>> /\ unread' = taken'
    BY <1>3 DEF TickStart, hookVars
  <2>2. before'.roster = roster /\ before'.epoch = epoch /\ Kept(roster, epoch)
    BY <1>t, <2>1, LedgerOf DEF RosterKept
  <2>3. RosterKept'
    BY <2>1, <2>2 DEF RosterKept, Kept
  <2>4. \A b \in DOMAIN roster : roster[b].epoch <= epoch
    BY <1>t, <2>2 DEF Kept, DiskNumbers
  <2>5. DrainKeeps'
    BY <1>n, <2>1, <2>2, <2>4 DEF DrainKeeps, Kept, Alike
  <2> QED BY <1>g, <1>u, <2>1, <2>3, <2>5
<1>4. CASE DrainOne
  <2>1. UNCHANGED <<pc, before, disk, pub, held>> /\ pc = "drain"
    BY <1>4 DEF DrainOne, hookVars
  <2>2. RosterKept'
    BY <1>t, <2>1 DEF RosterKept, Kept
  <2> QED BY <1>4, <1>g, <1>u, <2>1, <2>2, DrainOneKeeps
<1>5. CASE DrainSaved
  <2>1. /\ pc = "drain" /\ pc' = "unlink" /\ UNCHANGED <<roster, epoch, pub, held>>
        /\ disk' = IF Changed THEN Ledger(roster, epoch) ELSE disk
    BY <1>5 DEF DrainSaved, Drained, hookVars
  <2>2. DrainKeeps'
    BY <2>1 DEF DrainKeeps
  <2>3. CASE Changed
    <3>1. disk' = Ledger(roster, epoch) /\ disk'.roster = roster /\ disk'.epoch = epoch
      BY <2>1, <2>3, LedgerOf
    <3>2. RosterKept'
      BY <2>1, <3>1 DEF RosterKept, Kept
    <3>3. DiskNumbers' /\ AllShown'
      BY <1>t, <2>1, <3>1, DrainedOnward, AllShownOnward
    <3> QED BY <1>g, <2>2, <3>2, <3>3
  <2>4. CASE ~Changed
    <3>1. disk' = disk /\ roster = before.roster /\ epoch = before.epoch
      BY <1>t, <2>1, <2>4 DEF DrainKeeps
    <3>2. RosterKept'
      BY <1>t, <2>1, <3>1 DEF RosterKept, Kept
    <3> QED BY <1>g, <1>u, <2>1, <2>2, <3>1, <3>2
  <2> QED BY <2>3, <2>4
<1>6. CASE DrainNotSaved
  <2>1. /\ pc = "drain" /\ pc' = "contain" /\ UNCHANGED <<disk, pub, held>>
        /\ roster' = before.roster /\ epoch' = before.epoch
    BY <1>6 DEF DrainNotSaved, Drained, hookVars
  <2>2. RosterKept' /\ DrainKeeps'
    BY <1>t, <2>1 DEF RosterKept, Kept, DrainKeeps
  <2> QED BY <1>g, <1>u, <2>1, <2>2
<1>7. CASE RemoveFiles
  <2>1. pc = "unlink" /\ pc' = "contain" /\ UNCHANGED <<disk, pub, held, roster, epoch>>
    BY <1>7 DEF RemoveFiles
  <2>2. RosterKept' /\ DrainKeeps'
    BY <1>t, <2>1 DEF RosterKept, Kept, DrainKeeps
  <2> QED BY <1>g, <1>u, <2>1, <2>2
<1>8. ASSUME NEW s \in Signals, Contain(s) PROVE EpochInv'
  <2>1. /\ Assess(s)
        /\ UNCHANGED <<roster, epoch, disk>> \/ \E target : Moving(target)
    BY <1>8, <1>t, ContainIs
  <2>2. pc = "contain" /\ pc' = "publish" /\ UNCHANGED <<pub, held>>
    BY <2>1 DEF Assess, hookVars
  <2>3. DrainKeeps' /\ Kept(roster, epoch)
    BY <1>t, <2>2 DEF DrainKeeps, RosterKept
  <2>4. CASE UNCHANGED <<roster, epoch, disk>>
    <3>1. RosterKept'
      BY <1>t, <2>2, <2>3, <2>4 DEF RosterKept, Kept
    <3> QED BY <1>g, <1>u, <2>2, <2>3, <2>4, <3>1
  <2>5. ASSUME NEW target, Moving(target) PROVE EpochInv'
    <3> DEFINE m == Moved(target)
    <3>1. /\ target \in [DOMAIN roster -> LogicalState] /\ epoch' = epoch + 1
          /\ roster' = m /\ disk' = Ledger(m, epoch + 1)
      BY <2>5 DEF Moving
    <3>2. /\ DOMAIN m = DOMAIN roster
          /\ \A a \in DOMAIN roster : m[a] = roster[a] \/ m[a].epoch = epoch + 1
      BY <1>t, <3>1, MovedType
    <3> HIDE DEF m
    <3>3. disk'.roster = m /\ disk'.epoch = epoch + 1
      BY <3>1, LedgerOf
    <3>4. RosterKept'
      BY <2>2, <3>1, <3>3 DEF RosterKept, Kept
    <3>5. epoch = disk.epoch
      BY <2>3 DEF Kept
    <3>6. \A a \in DOMAIN roster : roster[a].epoch \in Nat /\ roster[a].epoch <= epoch
            /\ (roster[a].epoch = 0 => roster[a].state = Active) /\ roster[a] = disk.roster[a]
            /\ a \in DOMAIN disk.roster
      BY <1>t, <2>3, <3>5, RosterFacts DEF Kept, DiskNumbers
    <3>7. Onward(disk')
      BY <1>n, <2>3, <3>2, <3>3, <3>5, <3>6 DEF Onward, Kept, Alike
    <3> QED BY <1>g, <1>t, <2>2, <2>3, <3>4, <3>7, AllShownOnward
  <2> QED BY <2>1, <2>4, <2>5
<1>9. CASE Publish
  <2>1. /\ pc = "publish" /\ pc' = "tick" /\ UNCHANGED <<disk, held, roster, epoch>>
        /\ pub'.agents = View(roster)
    BY <1>9 DEF Publish, hookVars
  <2>2. RosterKept' /\ DrainKeeps' /\ DiskNumbers' /\ Kept(roster, epoch)
    BY <1>t, <2>1 DEF RosterKept, Kept, DrainKeeps, DiskNumbers
  <2>3. AllShown'
    BY <1>t, <2>1, <2>2, SavedShown, ViewOf DEF AllShown, HeldView
  <2> QED BY <1>g, <2>2, <2>3
<1>10. CASE Crash
  <2>1. pc' = "down" /\ UNCHANGED <<disk, pub, held>> /\ roster' = disk.roster /\ epoch' = disk.epoch
    BY <1>10 DEF Crash
  <2>2. RosterKept' /\ DrainKeeps'
    BY <2>1 DEF RosterKept, Kept, DrainKeeps
  <2> QED BY <1>g, <1>u, <2>1, <2>2
<1>11. CASE Restart
  <2>1. pc = "down" /\ pc' = "tick" /\ UNCHANGED <<disk, pub, held, roster, epoch>>
    BY <1>11 DEF Restart, hookVars
  <2>2. RosterKept' /\ DrainKeeps'
    BY <1>t, <2>1 DEF RosterKept, Kept, DrainKeeps
  <2> QED BY <1>g, <1>u, <2>1, <2>2
<1>12. CASE Stale
  <2>1. pc = "down" /\ UNCHANGED <<pc, disk, held, roster, epoch>> /\ pub' = [pub EXCEPT !.fresh = FALSE]
    BY <1>12 DEF Stale, hookVars
  <2>2. pub'.agents = pub.agents
    BY <1>t, <2>1 DEF TypeOK
  <2>3. RosterKept' /\ DrainKeeps' /\ DiskNumbers' /\ AllShown'
    BY <1>t, <2>1, <2>2 DEF RosterKept, Kept, DrainKeeps, DiskNumbers, AllShown, HeldView
  <2> QED BY <1>g, <2>3
<1>13. CASE UNCHANGED vars
  <2>1. UNCHANGED <<roster, epoch, disk, pub, pc, before, taken, unread, held>>
    BY <1>13 DEF vars, hookVars, drainVars
  <2>2. RosterKept' /\ DrainKeeps'
    BY <1>t, <2>1 DEF RosterKept, Kept, DrainKeeps, Changed, Released
  <2> QED BY <1>g, <1>u, <2>1, <2>2
<1> QED BY <1>1, <1>2, <1>3, <1>4, <1>5, <1>6, <1>7, <1>8, <1>9, <1>10, <1>11, <1>12, <1>13
        DEF Next, Daemon, Drain

LEMMA EpochsAgree == EpochInv => EpochNamesState
<1> SUFFICES ASSUME EpochInv PROVE EpochNamesState
  OBVIOUS
<1>t. TypeOK /\ RosterKept /\ DrainKeeps /\ DiskNumbers /\ AllShown
  BY DEF EpochInv
<1>n. epoch \in Nat /\ disk.epoch \in Nat /\ \A a \in DOMAIN roster : roster[a].epoch \in Nat
  BY <1>t, RosterFacts
<1>d. \A a \in DOMAIN disk.roster : disk.roster[a].epoch \in Nat /\ disk.roster[a].epoch <= disk.epoch
  BY <1>t, RosterFacts DEF DiskNumbers
<1>r. ASSUME NEW a \in DOMAIN roster
      PROVE  \/ a \in DOMAIN disk.roster /\ Alike(roster[a], disk.roster[a])
             \/ Released(roster[a]) /\ disk.epoch < roster[a].epoch
             \/ /\ Released(roster[a])
                /\ a \in DOMAIN disk.roster => disk.roster[a].state = Active
  BY <1>t DEF RosterKept, Kept, DrainKeeps, Alike
<1>1. ASSUME NEW a \in DOMAIN roster, NEW v, v.epoch \in Nat, Shown(disk, a, v),
             v.epoch = roster[a].epoch
      PROVE  v.state = roster[a].state
  <2>1. CASE a \in DOMAIN disk.roster /\ Alike(roster[a], disk.roster[a])
    BY <1>1, <2>1 DEF Shown, Alike
  <2>2. CASE Released(roster[a]) /\ disk.epoch < roster[a].epoch
    BY <1>1, <1>n, <2>2 DEF Shown
  <2>3. CASE /\ Released(roster[a])
             /\ a \in DOMAIN disk.roster => disk.roster[a].state = Active
    BY <1>1, <1>n, <1>d, <2>3 DEF Shown, Released
  <2> QED BY <1>r, <2>1, <2>2, <2>3
<1>2. \A a \in DOMAIN disk.roster : Shown(disk, a, disk.roster[a])
  BY <1>t, <1>d DEF Shown, DiskNumbers
<1>3. Agree(View(roster), View(disk.roster))
  BY <1>1, <1>2, <1>d, ViewOf DEF Agree
<1>4. Agree(View(roster), pub.agents)
  BY <1>1, <1>t, RosterFacts, ViewOf DEF Agree, AllShown
<1>5. Agree(View(roster), HeldView)
  BY <1>1, <1>t, RosterFacts, ViewOf DEF Agree, AllShown, HeldView
<1>6. Agree(View(disk.roster), pub.agents)
  BY <1>t, ViewOf DEF Agree, AllShown, Shown
<1>7. Agree(View(disk.roster), HeldView)
  BY <1>t, ViewOf DEF Agree, AllShown, Shown, HeldView
<1>8. Agree(pub.agents, HeldView)
  BY <1>t DEF AllShown
<1>9. \A v, w : Agree(v, w) => Agree(w, v)
  BY DEF Agree
<1>10. \A v : Agree(v, v)
  BY DEF Agree
<1>11. \A v, w \in {View(roster), View(disk.roster), pub.agents, HeldView} : Agree(v, w)
  BY <1>3, <1>4, <1>5, <1>6, <1>7, <1>8, <1>9, <1>10
<1>12. \A a \in DOMAIN pub.agents : pub.agents[a].epoch <= disk.epoch
  BY <1>t DEF AllShown, Shown
<1> QED BY <1>11, <1>12 DEF EpochNamesState

(* In every reachable state no two copies of the roster a hook or a          *)
(* restarted daemon may hold give one epoch two meanings, and no hook has    *)
(* read an epoch that a crash could take back.                               *)
THEOREM EpochsNameStates == Spec => []EpochNamesState
BY EpochInit, EpochNext, EpochsAgree, PTL DEF Spec

-----------------------------------------------------------------------------
(* Work that a record knows of. *)

Of(a, Q) == {o \in Q : o.agent = a}

(* The record is of an agent at work, and no file that is still to be        *)
(* applied puts it to rest.                                                  *)
Awakened(a, r, Q) ==
    /\ a \in DOMAIN r /\ ~r[a].idle
    /\ \A p \in Of(a, Q) : Rests(p) => Late(r[a], p)

(* Or a file that is still to be applied, and counts, wakes it after all     *)
(* that put it to rest.                                                      *)
Woken(a, r, Q) ==
    \E w \in Of(a, Q) :
      /\ Wakes(w) /\ (a \in DOMAIN r => ~Late(r[a], w))
      /\ \A p \in Of(a, Q) : Rests(p) => p.at < w.at

Minds(a, r, Q) == Awakened(a, r, Q) \/ Woken(a, r, Q)

(* Wherever a tick ends, the roster and the files it ends with tell of the   *)
(* work: the saved roster with all files, the one in memory with those it    *)
(* has not applied.                                                          *)
Tells(a) ==
    /\ Minds(a, disk.roster, queue)
    /\ pc = "drain" => Minds(a, roster, unread) /\ Minds(a, before.roster, queue)
    /\ pc = "unlink" => Awakened(a, roster, queue)
    /\ pc \notin {"drain", "unlink"} => Minds(a, roster, queue)

AllTell == \A a \in Agents : doing[a] \in Working /\ a \notin blind => Tells(a)

(* Files tell of different times, all of them past.                          *)
SeenBy(r) == \A a \in DOMAIN r : r[a].seen <= clock

Times ==
    /\ \A o \in queue : o.at <= clock
    /\ \A o, p \in queue : o.at = p.at => o = p
    /\ SeenBy(roster) /\ SeenBy(disk.roster) /\ SeenBy(before.roster)
    /\ pc \in {"drain", "unlink"} => taken = queue

(* What a drain has applied is no newer than the record, and the file the    *)
(* record has last seen has put it to rest if it was to.                     *)
Handled ==
    pc = "drain" =>
      \A p \in queue \ unread :
        /\ p.agent \in DOMAIN roster /\ p.at <= roster[p.agent].seen
        /\ Rests(p) /\ p.at = roster[p.agent].seen => roster[p.agent].idle

MindInv == EpochInv /\ Times /\ Handled /\ AllTell

LEMMA Facts ==
    ASSUME TypeOK
    PROVE  /\ clock \in Nat /\ queue \subseteq Observation /\ DOMAIN doing = Agents
           /\ unread \subseteq Observation
           /\ \A a \in DOMAIN roster : roster[a].seen \in Nat /\ roster[a].idle \in BOOLEAN
           /\ \A a \in DOMAIN disk.roster : disk.roster[a].seen \in Nat
           /\ \A a \in DOMAIN before.roster : before.roster[a].seen \in Nat
           /\ \A o \in Observation : o.at \in Nat /\ o.event \in HookEvents /\ o.agent \in Agents
BY DEF TypeOK, IsRoster, IsLedger, IsSome, LogicalAgent, Observation

LEMMA MindsSame ==
    ASSUME NEW a, NEW r, NEW s, NEW Q, Minds(a, r, Q),
           a \in DOMAIN s <=> a \in DOMAIN r,
           a \in DOMAIN r => s[a].idle = r[a].idle /\ s[a].seen = r[a].seen
    PROVE  Minds(a, s, Q)
BY DEF Minds, Awakened, Woken, Late

LEMMA AwakenedLess ==
    ASSUME NEW a, NEW r, NEW Q, NEW P \in SUBSET Q, Awakened(a, r, Q)
    PROVE  Awakened(a, r, P)
BY DEF Awakened, Of

LEMMA AwakenedSame ==
    ASSUME NEW a, NEW r, NEW s, NEW Q, Awakened(a, r, Q), a \in DOMAIN s, s[a] = r[a]
    PROVE  Awakened(a, s, Q)
BY DEF Awakened, Late

LEMMA MindInit == Init => MindInv
<1> SUFFICES ASSUME Init PROVE MindInv
  OBVIOUS
<1>1. PICK s \in Starts : InitWith(s.running, s.others, s.hooks, s.alarms, s.faults)
  BY DEF Init
<1> DEFINE r == Announced(s.running)
<1>2. /\ roster = r /\ disk = Ledger(r, 0) /\ before = Ledger(NoRoster, 0) /\ pc = "tick"
      /\ queue = {} /\ doing = [a \in Agents |-> IF a \in s.running THEN "working"
                                                 ELSE IF a \in s.others THEN "away" ELSE "absent"]
  BY <1>1 DEF InitWith
<1>3. disk.roster = r /\ DOMAIN before.roster = {}
  BY <1>2, LedgerOf DEF NoRoster
<1>4. DOMAIN r = s.running /\ \A a \in DOMAIN r : ~r[a].idle /\ r[a].seen = 0
  BY DEF Announced, NewAgent
<1>5. EpochInv /\ TypeOK
  BY EpochInit, TypeInit
<1>6. clock \in Nat
  BY <1>5 DEF TypeOK
<1> HIDE DEF r
<1>7. Times /\ Handled
  BY <1>2, <1>3, <1>4, <1>6 DEF Times, SeenBy, Handled
<1>8. AllTell
  BY <1>2, <1>3, <1>4 DEF AllTell, Tells, Minds, Awakened, Of, Working, Weights
<1> QED BY <1>5, <1>7, <1>8 DEF MindInv

(* A hook that starts work leaves a file that tells of it, or its agent      *)
(* counts as unseen.                                                         *)
HookTells(a, o) ==
    /\ o.agent = a /\ o.at = clock + 1
    /\ queue' = queue \/ queue' = queue \union {o}
    /\ doing'[a] \in Working /\ a \notin blind' =>
         \/ Wakes(o) /\ queue' = queue \union {o}
         \/ doing[a] \in Working /\ a \notin blind /\ ~Rests(o)
         \/ doing[a] \in Working /\ a \notin blind /\ queue' = queue

LEMMA HookIs ==
    ASSUME TypeOK, NEW a \in Agents, Hook(a) \/ Awake(a)
    PROVE  /\ UNCHANGED daemonVars /\ HooksRun
           /\ \A b \in Agents : b # a => doing'[b] = doing[b] /\ (b \in blind' <=> b \in blind)
           /\ \/ UNCHANGED <<doing, queue, clock, blind>>
              \/ /\ clock' = clock + 1
                 /\ \E o : HookTells(a, o)
<1>t. DOMAIN doing = Agents
  BY Facts
<1>0. UNCHANGED daemonVars
  BY DEF Hook, Awake, HookStart, HookPrompt, HookPreTool, HookWait, HookResume,
         HookTimeout, HookPostTool, HookStop, HookEnd
<1> DEFINE Seen1(event, weight, blocked) ==
             [agent |-> a, event |-> event, weight |-> weight, blocked |-> blocked,
              at |-> clock + 1, receipt |-> None]
           Told1 == \E o : HookTells(a, o)
           Rest1 == /\ HooksRun
                    /\ \A b \in Agents : b # a => doing'[b] = doing[b] /\ (b \in blind' <=> b \in blind)
           Goal1 == Rest1 /\ clock' = clock + 1 /\ Told1
<1>a. ASSUME NEW event, NEW weight, NEW blocked
      PROVE  LET o == Seen1(event, weight, blocked)
             IN /\ o.agent = a /\ o.at = clock + 1
                /\ Wakes(o) <=> event \in {"Start", "Prompt", "PreTool"}
                /\ Rests(o) <=> event \in {"Stop", "End"}
  BY DEF Wakes, Rests
<1>r. ASSUME NEW event, NEW weight, NEW blocked, NEW fresh,
             Record(a, event, weight, blocked, fresh)
      PROVE  /\ HooksRun /\ clock' = clock + 1
             /\ queue' = IF fresh THEN queue \union {Seen1(event, weight, blocked)} ELSE queue
  BY <1>r DEF Record
<1> HIDE DEF Seen1
<1>w. ASSUME NEW event \in {"Start", "Prompt", "PreTool"}, NEW weight, NEW blocked, NEW fresh,
             Record(a, event, weight, blocked, fresh), Began(a, fresh),
             \A b \in Agents : b # a => doing'[b] = doing[b]
      PROVE  Goal1
  <2>1. HookTells(a, Seen1(event, weight, blocked))
    BY <1>a, <1>r, <1>w DEF HookTells, Began
  <2> QED BY <1>r, <1>w, <2>1 DEF Began
<1>k. ASSUME NEW event, NEW weight, NEW blocked, NEW fresh,
             Record(a, event, weight, blocked, fresh), blind' = blind,
             \A b \in Agents : b # a => doing'[b] = doing[b],
             doing'[a] \notin Working \/ (doing[a] \in Working /\ event = "PostTool")
      PROVE  Goal1
  <2>1. HookTells(a, Seen1(event, weight, blocked))
    BY <1>a, <1>r, <1>k DEF HookTells
  <2> QED BY <1>r, <1>k, <2>1
<1>d. ASSUME NEW class, NEW state, NEW fresh, Decide(a, class, state, fresh), Began(a, fresh)
      PROVE  Goal1
  <2> DEFINE blocked == ~AllowedIn(class, state)
  <2>1. \A b \in Agents : b # a => doing'[b] = doing[b]
    BY <1>d, <1>t DEF Decide
  <2>2. Record(a, "PreTool", Weight(class), blocked, fresh)
    BY <1>d DEF Decide
  <2> HIDE DEF blocked
  <2> QED BY <1>d, <1>w, <2>1, <2>2
<1> DEFINE Goal2 == Goal1 \/ (HooksRun /\ UNCHANGED <<doing, queue, clock, blind>>)
<1> SUFFICES Goal2
  BY <1>0
<1> HIDE DEF Goal1
<1>1. CASE HookStart(a)
  <2>1. /\ Record(a, "Start", NoTool, FALSE, pub.fresh)
        /\ \A b \in Agents : b # a => doing'[b] = doing[b]
        /\ IF doing'[a] = "idle" THEN blind' = blind ELSE Began(a, pub.fresh)
    BY <1>1, <1>t DEF HookStart
  <2>2. "idle" \notin Working
    BY DEF Working, Weights
  <2> QED BY <1>k, <1>w, <2>1, <2>2
<1>2. CASE HookPrompt(a)
  BY <1>2, <1>t, <1>w DEF HookPrompt
<1>3. CASE HookPostTool(a)
  <2>1. doing[a] \in Working
    BY <1>3 DEF HookPostTool, Working
  <2> QED BY <1>3, <1>t, <1>k, <2>1 DEF HookPostTool
<1>4. CASE HookStop(a)
  <2>1. doing'[a] \notin Working
    BY <1>4, <1>t DEF HookStop, Working, Weights
  <2> QED BY <1>4, <1>t, <1>k, <2>1 DEF HookStop
<1>5. CASE HookEnd(a)
  <2>1. doing'[a] \notin Working
    BY <1>5, <1>t DEF HookEnd, Working, Weights
  <2> QED BY <1>5, <1>t, <1>k, <2>1 DEF HookEnd
<1>6. ASSUME NEW class \in Classes, HookPreTool(a, class) PROVE Goal2
  BY <1>6, <1>d DEF HookPreTool
<1>7. ASSUME NEW class \in Classes, HookWait(a, class) PROVE Goal2
  BY <1>7 DEF HookWait
<1>8. CASE HookResume(a)
  BY <1>8, <1>d DEF HookResume
<1>9. CASE HookTimeout(a)
  BY <1>9, <1>w DEF HookTimeout
<1> HIDE DEF Goal2
<1> QED BY <1>1, <1>2, <1>3, <1>4, <1>5, <1>6, <1>7, <1>8, <1>9 DEF Hook, Awake

(* A later file of an agent at work that is no end of it changes nothing.    *)
LEMMA HookMinds ==
    ASSUME TypeOK, NEW a \in Agents, NEW o, HookTells(a, o), Times,
           doing'[a] \in Working, a \notin blind',
           NEW r, \A b \in DOMAIN r : r[b].seen \in Nat /\ r[b].seen <= clock,
           doing[a] \in Working /\ a \notin blind => Minds(a, r, queue)
    PROVE  Minds(a, r, queue')
<1>1. clock \in Nat /\ o.agent = a /\ o.at = clock + 1
  BY Facts DEF HookTells
<1>2. \A p \in queue : p.at \in Nat /\ p.at <= clock
  BY Facts DEF Times
<1>3. CASE Wakes(o) /\ queue' = queue \union {o}
  <2>1. o \in Of(a, queue')
    BY <1>1, <1>3 DEF Of
  <2>2. a \in DOMAIN r => ~Late(r[a], o)
    BY <1>1 DEF Late
  <2>3. ASSUME NEW p \in Of(a, queue'), Rests(p) PROVE p.at < o.at
    <3>1. ~Rests(o)
      BY <1>3 DEF Wakes, Rests
    <3> QED BY <1>1, <1>2, <1>3, <2>3, <3>1 DEF Of
  <2> QED BY <1>3, <2>1, <2>2, <2>3 DEF Minds, Woken
<1>4. CASE doing[a] \in Working /\ a \notin blind /\ queue' = queue
  BY <1>4
<1>5. CASE doing[a] \in Working /\ a \notin blind /\ ~Rests(o) /\ queue' = queue \union {o}
  <2>1. Of(a, queue) \subseteq Of(a, queue') /\ \A p \in Of(a, queue') : Rests(p) => p \in Of(a, queue)
    BY <1>5 DEF Of
  <2> QED BY <1>5, <2>1 DEF Minds, Awakened, Woken
<1> QED BY <1>3, <1>4, <1>5 DEF HookTells

(* The oldest file of a drain.                                               *)
LEMMA DrainOneMinds ==
    ASSUME MindInv, DrainOne
    PROVE  Handled' /\ AllTell' /\ SeenBy(roster)'
<1>t. TypeOK /\ Times /\ Handled /\ AllTell /\ DrainKeeps
  BY DEF MindInv, EpochInv
<1>1. PICK o \in unread : /\ Applied(o) /\ \A p \in unread : o.at <= p.at
                          /\ o \in Observation /\ Record0(o) \in LogicalAgent(None)
  BY <1>t, DrainOneIs
<1>2. /\ pc = "drain" /\ UNCHANGED <<pc, before, taken, disk, doing, blind, queue, clock>>
      /\ unread' = unread \ {o} /\ unread \subseteq queue
  BY <1>1, <1>t DEF DrainOne, Applied, hookVars, DrainKeeps, Times
<1>3. o.at \in Nat /\ clock \in Nat /\ o.at <= clock /\ \A p \in queue : p.at \in Nat
  BY <1>1, <1>2, <1>t, Facts DEF Times
<1> DEFINE b == o.agent
           r == Record0(o)
           s == ApplyObservation(r, o, epoch, None)
<1>4. s.seen = o.at /\ s.idle = IF Wakes(o) THEN FALSE ELSE IF Rests(o) THEN TRUE ELSE r.idle
  BY <1>1, <1>t, Observed, RosterFacts
<1>5. r = IF b \in DOMAIN roster THEN roster[b] ELSE NewAgent(o.at, epoch, None)
  BY DEF Record0, Known
<1>6. b \notin DOMAIN roster => ~r.idle /\ ~Late(r, o)
  BY <1>3, <1>5 DEF NewAgent, Late
<1>7. \/ Late(r, o) /\ UNCHANGED roster
      \/ /\ ~Late(r, o) /\ DOMAIN roster' = DOMAIN roster \union {b} /\ roster'[b] = s
         /\ \A a \in DOMAIN roster : a # b => roster'[a] = roster[a]
  BY <1>1 DEF Applied
<1> HIDE DEF b, r, s
<1>8. \A a \in DOMAIN roster : roster[a].seen \in Nat /\ roster[a].seen <= clock
  BY <1>t, Facts DEF Times, SeenBy
<1>9. SeenBy(roster)'
  BY <1>2, <1>3, <1>4, <1>7, <1>8 DEF SeenBy
<1>10. ASSUME NEW p \in queue \ unread'
       PROVE  /\ p.agent \in DOMAIN roster' /\ p.at <= roster'[p.agent].seen
              /\ Rests(p) /\ p.at = roster'[p.agent].seen => roster'[p.agent].idle
  <2>1. CASE p = o
    <3>1. CASE Late(r, o) /\ UNCHANGED roster
      BY <1>3, <1>5, <1>6, <1>8, <2>1, <3>1 DEF Late, b
    <3>2. CASE ~Late(r, o) /\ DOMAIN roster' = DOMAIN roster \union {b} /\ roster'[b] = s
      <4>1. ~(Wakes(o) /\ Rests(o))
        BY DEF Wakes, Rests
      <4>2. Rests(o) => s.idle
        BY <1>4, <4>1
      <4>3. p.agent = b /\ roster'[p.agent] = s /\ p.agent \in DOMAIN roster'
        BY <2>1, <3>2 DEF b
      <4>4. p.at <= s.seen
        BY <1>3, <1>4, <2>1
      <4> QED BY <2>1, <4>2, <4>3, <4>4
    <3> QED BY <1>7, <3>1, <3>2
  <2>2. CASE p # o
    <3>1. /\ p.agent \in DOMAIN roster /\ p.at <= roster[p.agent].seen
          /\ Rests(p) /\ p.at = roster[p.agent].seen => roster[p.agent].idle
      BY <1>2, <1>t, <1>10, <2>2 DEF Handled
    <3>2. CASE UNCHANGED roster \/ p.agent # b
      BY <1>7, <3>1, <3>2
    <3>3. CASE ~Late(r, o) /\ roster'[b] = s /\ p.agent = b /\ b \in DOMAIN roster'
      <4>1. p.at # o.at
        BY <1>2, <1>t, <2>2 DEF Times
      <4>2. r = roster[b] /\ p.at <= o.at
        BY <1>3, <1>5, <1>8, <3>1, <3>3 DEF Late
      <4> QED BY <1>3, <1>4, <3>3, <4>1, <4>2
    <3> QED BY <1>7, <3>2, <3>3
  <2> QED BY <2>1, <2>2
<1>11. Handled'
  BY <1>2, <1>10 DEF Handled
<1>12. ASSUME NEW a \in Agents, Minds(a, roster, unread) PROVE Minds(a, roster', unread')
  <2>1. CASE a # b
    <3>1. Of(a, unread') = Of(a, unread)
      BY <1>2, <2>1 DEF Of, b
    <3>2. (a \in DOMAIN roster' <=> a \in DOMAIN roster) /\ (a \in DOMAIN roster => roster'[a] = roster[a])
      BY <1>7, <2>1
    <3> QED BY <1>12, <3>1, <3>2 DEF Minds, Awakened, Woken, Late
  <2>2. CASE a = b /\ Awakened(a, roster, unread)
    <3>1. /\ a \in DOMAIN roster /\ ~roster[a].idle /\ r = roster[a]
          /\ \A p \in Of(a, unread') : Rests(p) => p.at < roster[a].seen
      BY <1>2, <1>5, <2>2 DEF Awakened, Of, Late
    <3>2. CASE Late(r, o) /\ UNCHANGED roster
      BY <3>1, <3>2 DEF Minds, Awakened, Late
    <3>3. CASE ~Late(r, o) /\ roster'[a] = s /\ a \in DOMAIN roster'
      <4>1. ~Rests(o)
        BY <1>5, <2>2, <3>1, <3>3 DEF Awakened, Of, b
      <4>2. roster[a].seen <= o.at /\ ~s.idle /\ s.seen = o.at
        BY <1>3, <1>4, <1>8, <3>1, <3>3, <4>1 DEF Late
      <4>3. \A p \in Of(a, unread') : p.at \in Nat
        BY <1>2, <1>3 DEF Of
      <4>4. \A p \in Of(a, unread') : Rests(p) => p.at < s.seen
        BY <1>3, <1>8, <3>1, <4>2, <4>3
      <4> QED BY <3>3, <4>2, <4>4 DEF Minds, Awakened, Late
    <3> QED BY <1>7, <2>2, <3>2, <3>3
  <2>3. CASE a = b /\ Woken(a, roster, unread)
    <3>1. PICK w \in Of(a, unread) :
            /\ Wakes(w) /\ (a \in DOMAIN roster => ~Late(roster[a], w))
            /\ \A p \in Of(a, unread) : Rests(p) => p.at < w.at
      BY <2>3 DEF Woken
    <3>2. w \in unread /\ w \in queue /\ w.at \in Nat /\ o.at <= w.at /\ w.agent = a
      BY <1>1, <1>2, <1>3 DEF Of
    <3>3. CASE w = o
      <4>1. ~Late(r, o)
        BY <1>5, <1>6, <2>3, <3>1, <3>3
      <4>2. a \in DOMAIN roster' /\ ~roster'[a].idle
        BY <1>4, <1>7, <2>3, <3>1, <3>3, <4>1
      <4>3. \A p \in Of(a, unread') : ~Rests(p)
        <5> SUFFICES ASSUME NEW p \in Of(a, unread'), Rests(p) PROVE FALSE
          OBVIOUS
        <5>1. p \in Of(a, unread) /\ p \in unread /\ p \in queue
          BY <1>2 DEF Of
        <5> QED BY <1>1, <1>3, <3>1, <3>3, <5>1
      <4> QED BY <4>2, <4>3 DEF Minds, Awakened
    <3>4. CASE w # o
      <4>1. w.at > o.at
        BY <1>2, <1>3, <1>t, <3>2, <3>4 DEF Times
      <4>2. a \in DOMAIN roster' => ~Late(roster'[a], w)
        BY <1>3, <1>4, <1>7, <2>3, <3>1, <3>2, <4>1 DEF Late
      <4>3. w \in Of(a, unread') /\ \A p \in Of(a, unread') : p \in Of(a, unread)
        BY <1>2, <3>2, <3>4 DEF Of
      <4> QED BY <3>1, <4>2, <4>3 DEF Minds, Woken
    <3> QED BY <3>3, <3>4
  <2> QED BY <1>12, <2>1, <2>2, <2>3 DEF Minds
<1>13. AllTell'
  BY <1>2, <1>12, <1>t DEF AllTell, Tells
<1> QED BY <1>9, <1>11, <1>13

LEMMA MindNext == MindInv /\ [Next]_vars => MindInv'
<1> SUFFICES ASSUME MindInv, [Next]_vars PROVE MindInv'
  OBVIOUS
<1>t. TypeOK /\ EpochInv /\ EpochInv' /\ TypeOK' /\ Times /\ Handled /\ AllTell /\ RosterKept
  BY EpochNext DEF MindInv, EpochInv
<1>g. Times' /\ Handled' /\ AllTell' => MindInv'
  BY <1>t DEF MindInv
<1>n. clock \in Nat /\ NoRoster = [a \in {} |-> None] /\ DOMAIN NoRoster = {}
  BY <1>t, Facts DEF NoRoster
<1>b. Ledger(NoRoster, 0).roster = NoRoster
  BY LedgerOf
\* Outside of a drain, what the roster tells the saved one tells too.
<1>k. \A a \in Agents : Kept(roster, epoch) /\ Awakened(a, roster, queue) =>
        a \in DOMAIN disk.roster /\ disk.roster[a] = roster[a] /\ Awakened(a, disk.roster, queue)
  BY DEF Kept, Awakened, Late
<1>1. ASSUME NEW a \in Agents, Hook(a) \/ Awake(a) PROVE MindInv'
  <2>1. /\ UNCHANGED daemonVars /\ HooksRun
        /\ \A b \in Agents : b # a => doing'[b] = doing[b] /\ (b \in blind' <=> b \in blind)
        /\ \/ UNCHANGED <<doing, queue, clock, blind>>
           \/ clock' = clock + 1 /\ \E o : HookTells(a, o)
    BY <1>1, <1>t, HookIs
  <2>2. /\ UNCHANGED <<roster, disk, before, pc, taken, unread>>
        /\ pc \notin {"drain", "unlink"}
    BY <2>1 DEF daemonVars, drainVars, HooksRun
  <2>3. Handled'
    BY <2>2 DEF Handled
  <2>4. CASE UNCHANGED <<doing, queue, clock, blind>>
    BY <1>g, <1>t, <2>2, <2>3, <2>4 DEF Times, SeenBy, AllTell, Tells
  <2>5. ASSUME NEW o, HookTells(a, o), clock' = clock + 1 PROVE MindInv'
    <3>1. o.agent = a /\ o.at = clock + 1 /\ (queue' = queue \/ queue' = queue \union {o})
      BY <2>5 DEF HookTells
    <3>2. /\ \A b \in DOMAIN roster : roster[b].seen \in Nat /\ roster[b].seen <= clock
          /\ \A b \in DOMAIN disk.roster : disk.roster[b].seen \in Nat /\ disk.roster[b].seen <= clock
          /\ \A b \in DOMAIN before.roster : before.roster[b].seen \in Nat
                                             /\ before.roster[b].seen <= clock
          /\ \A p \in queue : p.at \in Nat /\ p.at <= clock
      BY <1>t, Facts DEF Times, SeenBy
    <3>3. Times'
      <4>1. SeenBy(roster)' /\ SeenBy(disk.roster)' /\ SeenBy(before.roster)'
        BY <1>n, <2>2, <2>5, <3>2 DEF SeenBy
      <4>2. /\ \A p \in queue' : p.at <= clock'
            /\ \A p, q \in queue' : p.at = q.at => p = q
        BY <1>n, <1>t, <2>5, <3>1, <3>2 DEF Times
      <4> QED BY <2>2, <4>1, <4>2 DEF Times
    <3>4. ASSUME NEW b \in Agents, doing'[b] \in Working, b \notin blind' PROVE Tells(b)'
      <4>1. CASE b = a
        <5>1. doing[a] \in Working /\ a \notin blind =>
                Minds(a, roster, queue) /\ Minds(a, disk.roster, queue)
          BY <1>t, <2>2 DEF AllTell, Tells
        <5>2. Minds(a, roster, queue') /\ Minds(a, disk.roster, queue')
          BY <1>t, <2>5, <3>2, <3>4, <4>1, <5>1, HookMinds
        <5> QED BY <2>2, <4>1, <5>2 DEF Tells
      <4>2. CASE b # a
        <5>1. Of(b, queue') = Of(b, queue)
          BY <3>1, <4>2 DEF Of
        <5>2. Minds(b, roster, queue) /\ Minds(b, disk.roster, queue)
          BY <1>t, <2>1, <2>2, <3>4, <4>2 DEF AllTell, Tells
        <5> QED BY <2>2, <5>1, <5>2 DEF Tells, Minds, Awakened, Woken
      <4> QED BY <4>1, <4>2
    <3> QED BY <1>g, <2>3, <3>3, <3>4 DEF AllTell
  <2> QED BY <2>1, <2>4, <2>5
<1>2. ASSUME NEW a \in Agents, Prune(a) PROVE MindInv'
  <2>1. /\ pc = "tick" /\ UNCHANGED <<pc, doing, queue, clock, before>> /\ blind' = blind \union {a}
        /\ roster' = [b \in DOMAIN roster \ {a} |-> roster[b]]
        /\ disk' = Ledger(roster', epoch) \/ disk' = disk
    BY <1>2 DEF Prune, hookVars, drainVars
  <2>2. disk'.roster = roster' \/ disk' = disk
    BY <2>1, LedgerOf
  <2>3. Times' /\ Handled'
    BY <1>t, <2>1, <2>2 DEF Times, SeenBy, Handled
  <2>4. ASSUME NEW b \in Agents, doing'[b] \in Working, b \notin blind' PROVE Tells(b)'
    <3>1. Minds(b, roster, queue) /\ Minds(b, disk.roster, queue) /\ b # a
      BY <1>t, <2>1, <2>4 DEF AllTell, Tells
    <3>2. Minds(b, roster', queue)
      BY <2>1, <3>1 DEF Minds, Awakened, Woken
    <3>3. Minds(b, disk'.roster, queue)
      BY <2>2, <3>1, <3>2
    <3> QED BY <2>1, <3>2, <3>3 DEF Tells
  <2> QED BY <1>g, <2>3, <2>4 DEF AllTell
<1>3. CASE TickStart
  <2>1. /\ pc = "tick" /\ pc' = "drain" /\ before' = Ledger(roster, epoch)
        /\ UNCHANGED <<roster, disk, doing, queue, clock, blind>> /\ taken' = queue /\ unread' = queue
    BY <1>3 DEF TickStart, hookVars
  <2>2. before'.roster = roster
    BY <2>1, LedgerOf
  <2>3. Times' /\ Handled'
    BY <1>t, <2>1, <2>2 DEF Times, SeenBy, Handled
  <2> QED BY <1>g, <1>t, <2>1, <2>2, <2>3 DEF AllTell, Tells
<1>4. CASE DrainOne
  <2>1. UNCHANGED <<pc, queue, clock, disk, before, taken>>
    BY <1>4 DEF DrainOne, hookVars
  <2>2. Times'
    BY <1>4, <1>t, <2>1, DrainOneMinds DEF Times, SeenBy, MindInv
  <2> QED BY <1>4, <1>g, <2>2, DrainOneMinds
<1>5. CASE DrainSaved
  <2>1. /\ pc = "drain" /\ pc' = "unlink" /\ unread = {}
        /\ UNCHANGED <<roster, epoch, doing, queue, clock, blind, taken>>
        /\ disk' = (IF Changed THEN Ledger(roster, epoch) ELSE disk)
        /\ before' = Ledger(NoRoster, 0)
    BY <1>5 DEF DrainSaved, Drained, hookVars
  <2>2. disk'.roster = roster \/ disk' = disk
    BY <2>1, LedgerOf
  <2>3. Times' /\ Handled'
    BY <1>b, <1>n, <1>t, <2>1, <2>2 DEF Times, SeenBy, Handled
  <2>4. ASSUME NEW a \in Agents, doing'[a] \in Working, a \notin blind' PROVE Tells(a)'
    <3>1. Minds(a, roster, {})
      BY <1>t, <2>1, <2>4 DEF AllTell, Tells
    <3>2. a \in DOMAIN roster /\ ~roster[a].idle
      BY <3>1 DEF Minds, Awakened, Woken, Of
    <3>3. ASSUME NEW p \in Of(a, queue), Rests(p) PROVE Late(roster[a], p)
      <4>1. p.at <= roster[a].seen /\ p.at # roster[a].seen /\ p.at \in Nat /\ roster[a].seen \in Nat
        BY <1>t, <2>1, <3>2, <3>3, Facts DEF Handled, Of
      <4> QED BY <4>1 DEF Late
    <3>4. Awakened(a, roster, queue)
      BY <3>2, <3>3 DEF Awakened
    <3>5. Kept(roster, epoch)'
      BY <1>t, <2>1 DEF EpochInv, RosterKept
    <3>6. a \in DOMAIN disk'.roster /\ disk'.roster[a] = roster[a]
      BY <2>1, <3>2, <3>5 DEF Kept
    <3>7. Awakened(a, disk'.roster, queue)
      BY <3>4, <3>6, AwakenedSame
    <3> QED BY <2>1, <3>4, <3>7 DEF Tells, Minds
  <2> QED BY <1>g, <2>3, <2>4 DEF AllTell
<1>6. CASE DrainNotSaved
  <2>1. /\ pc = "drain" /\ pc' = "contain" /\ roster' = before.roster /\ before' = Ledger(NoRoster, 0)
        /\ UNCHANGED <<disk, doing, queue, clock, blind>>
    BY <1>6 DEF DrainNotSaved, Drained, hookVars
  <2>2. Times' /\ Handled'
    BY <1>b, <1>n, <1>t, <2>1 DEF Times, SeenBy, Handled
  <2> QED BY <1>g, <1>t, <2>1, <2>2 DEF AllTell, Tells
<1>7. CASE RemoveFiles
  <2>1. /\ pc = "unlink" /\ pc' = "contain" /\ queue' \subseteq queue
        /\ UNCHANGED <<roster, epoch, before, disk, doing, clock, blind>>
    BY <1>7 DEF RemoveFiles
  <2>2. Times' /\ Handled'
    BY <1>t, <2>1 DEF Times, SeenBy, Handled
  <2>3. Kept(roster, epoch)
    BY <1>t, <2>1 DEF RosterKept
  <2>4. ASSUME NEW a \in Agents, doing'[a] \in Working, a \notin blind' PROVE Tells(a)'
    <3>1. Awakened(a, roster, queue)
      BY <1>t, <2>1, <2>4 DEF AllTell, Tells
    <3>2. Awakened(a, roster, queue') /\ Awakened(a, disk.roster, queue')
      BY <1>k, <2>1, <2>3, <3>1, AwakenedLess
    <3> QED BY <2>1, <3>2 DEF Tells, Minds
  <2> QED BY <1>g, <2>2, <2>4 DEF AllTell
<1>8. ASSUME NEW s \in Signals, Contain(s) PROVE MindInv'
  <2>1. /\ Assess(s)
        /\ UNCHANGED <<roster, epoch, disk>> \/ \E target : Moving(target)
    BY <1>8, <1>t, ContainIs
  <2>2. pc = "contain" /\ pc' = "publish" /\ UNCHANGED <<doing, queue, clock, blind, before>>
    BY <2>1 DEF Assess, hookVars, drainVars
  <2>3. CASE UNCHANGED <<roster, epoch, disk>>
    BY <1>g, <1>t, <2>2, <2>3 DEF Times, SeenBy, Handled, AllTell, Tells
  <2>4. ASSUME NEW target, Moving(target) PROVE MindInv'
    <3>1. target \in [DOMAIN roster -> LogicalState] /\ roster' = Moved(target)
          /\ disk' = Ledger(Moved(target), epoch + 1)
      BY <2>4 DEF Moving
    <3>2. /\ DOMAIN roster' = DOMAIN roster /\ disk'.roster = roster'
          /\ \A a \in DOMAIN roster : roster'[a].idle = roster[a].idle /\ roster'[a].seen = roster[a].seen
      BY <1>t, <3>1, MovedType, LedgerOf
    <3>3. Times' /\ Handled'
      BY <1>t, <2>2, <3>2 DEF Times, SeenBy, Handled
    <3>4. ASSUME NEW a \in Agents, doing'[a] \in Working, a \notin blind' PROVE Tells(a)'
      <4>1. Minds(a, roster, queue)
        BY <1>t, <2>2, <3>4 DEF AllTell, Tells
      <4>2. Minds(a, roster', queue)
        BY <3>2, <4>1, MindsSame
      <4> QED BY <2>2, <3>2, <4>2 DEF Tells
    <3> QED BY <1>g, <3>3, <3>4 DEF AllTell
  <2> QED BY <2>1, <2>3, <2>4
<1>9. CASE Publish
  BY <1>9, <1>g, <1>t DEF Publish, hookVars, drainVars, Times, SeenBy, Handled, AllTell, Tells
<1>10. CASE Crash
  <2>1. /\ pc' = "down" /\ roster' = disk.roster /\ before' = Ledger(NoRoster, 0)
        /\ queue' \subseteq queue /\ (pc # "unlink" => queue' = queue)
        /\ UNCHANGED <<disk, doing, clock, blind>>
    BY <1>10 DEF Crash
  <2>2. Times' /\ Handled'
    BY <1>b, <1>n, <1>t, <2>1 DEF Times, SeenBy, Handled
  <2>3. ASSUME NEW a \in Agents, doing'[a] \in Working, a \notin blind' PROVE Tells(a)'
    <3>1. CASE pc = "unlink"
      <4>1. Awakened(a, roster, queue) /\ Kept(roster, epoch)
        BY <1>t, <2>1, <2>3, <3>1 DEF AllTell, Tells, RosterKept
      <4>2. Awakened(a, disk.roster, queue')
        BY <1>k, <2>1, <4>1, AwakenedLess
      <4> QED BY <2>1, <4>2 DEF Tells, Minds
    <3>2. CASE pc # "unlink"
      BY <1>t, <2>1, <2>3, <3>2 DEF AllTell, Tells
    <3> QED BY <3>1, <3>2
  <2> QED BY <1>g, <2>2, <2>3 DEF AllTell
<1>11. CASE Restart
  BY <1>11, <1>g, <1>t DEF Restart, hookVars, drainVars, Times, SeenBy, Handled, AllTell, Tells
<1>12. CASE Stale
  BY <1>12, <1>g, <1>t DEF Stale, hookVars, drainVars, Times, SeenBy, Handled, AllTell, Tells
<1>13. CASE UNCHANGED vars
  BY <1>13, <1>g, <1>t DEF vars, hookVars, drainVars, Times, SeenBy, Handled, AllTell, Tells
<1> QED BY <1>1, <1>2, <1>3, <1>4, <1>5, <1>6, <1>7, <1>8, <1>9, <1>10, <1>11, <1>12, <1>13
        DEF Next, Daemon, Drain

LEMMA MindsKnow == MindInv => MismatchUnlessBlind
<1> SUFFICES ASSUME MindInv, WorkMismatch(roster), NEW a \in Agents, doing[a] \in Working,
                    a \notin blind, ~\E o \in queue : o.agent = a
             PROVE  FALSE
  BY DEF MismatchUnlessBlind
<1>1. Tells(a)
  BY DEF MindInv, AllTell
<1>2. pc = "drain" => unread \subseteq queue
  BY DEF MindInv, EpochInv, DrainKeeps, Times
<1>3. Awakened(a, roster, queue) \/ Awakened(a, roster, unread)
  BY <1>1, <1>2 DEF Tells, Minds, Woken, Of
<1> QED BY <1>3 DEF Awakened, WorkMismatch

(* An agent the daemon should know to be at work never makes its process     *)
(* count as one that grows without work, whatever is lost or applied again   *)
(* when a drain fails or the daemon dies in it.                              *)
THEOREM WorkIsKnown == Spec => []MismatchUnlessBlind
BY MindInit, MindNext, MindsKnow, PTL DEF Spec

-----------------------------------------------------------------------------
(* What a batch may do. *)

(* An agent that is not idle counts as active, so a restriction reaches it.  *)
Stirring(r) == \A a \in DOMAIN r : ~r[a].idle => r[a].active

AllStirring == Stirring(roster) /\ Stirring(disk.roster) /\ Stirring(before.roster)

(* Calm the daemon has counted was calm indeed, unless a danger fell into a  *)
(* tick that never reached the actuator.                                     *)
CalmCounts ==
    /\ calm \in (0..MaxCalm) \union {NoCalm} /\ quiet \in 0..MaxCalm
    /\ calm # NoCalm /\ ~missed => quiet >= calm /\ (pc = "publish" => sig = "safe")

BatchInv == MindInv /\ AllStirring /\ CalmCounts

LEMMA ObservedStirs ==
    ASSUME NEW r \in LogicalAgent(None), NEW o \in Observation, NEW e \in Nat,
           ~r.idle => r.active
    PROVE  LET s == ApplyObservation(r, o, e, None) IN ~s.idle => s.active
<1> DEFINE t == Seen(r, o, None)
           u == AfterEvent(t, o)
<1>0. o.event \in {"Start", "End", "Prompt", "PreTool", "PostTool", "Stop"}
  BY DEF Observation, HookEvents
<1>1. t \in [DOMAIN r -> {t[f] : f \in DOMAIN r}] /\ t.idle = r.idle /\ t.active = r.active
      /\ DOMAIN t = DOMAIN r /\ {"active", "idle"} \subseteq DOMAIN r
  BY DEF Seen, LogicalAgent
<1> HIDE DEF t
<1>2. ~u.idle => u.active
  <2>1. CASE o.event = "Start"
    BY <1>1, <2>1 DEF AfterEvent
  <2>2. CASE o.event = "End"
    BY <1>1, <2>2 DEF AfterEvent
  <2>3. CASE o.event = "Prompt"
    BY <1>1, <2>3 DEF AfterEvent
  <2>4. CASE o.event = "PreTool"
    BY <1>1, <2>4 DEF AfterEvent
  <2>5. CASE o.event = "PostTool"
    BY <1>1, <2>5 DEF AfterEvent
  <2>6. CASE o.event = "Stop"
    BY <1>1, <2>6 DEF AfterEvent
  <2> QED BY <1>0, <2>1, <2>2, <2>3, <2>4, <2>5, <2>6
<1>3. [u EXCEPT !.epoch = e + 1].idle = u.idle /\ [u EXCEPT !.epoch = e + 1].active = u.active
  OBVIOUS
<1> QED BY <1>2, <1>3 DEF ApplyObservation, u, t

LEMMA MovedStirs ==
    ASSUME TypeOK, NEW target \in [DOMAIN roster -> LogicalState], Stirring(roster)
    PROVE  Stirring(Moved(target))
<1> SUFFICES ASSUME NEW a \in DOMAIN roster, ~Moved(target)[a].idle
             PROVE  Moved(target)[a].active
  BY MovedType DEF Stirring
<1>1. roster[a] \in LogicalAgent(None) /\ (~roster[a].idle => roster[a].active)
  BY RosterFacts DEF Stirring
<1>2. Moved(target)[a] = IF target[a] = roster[a].state THEN roster[a]
                         ELSE [roster[a] EXCEPT !.state = target[a], !.epoch = epoch + 1]
  BY DEF Moved
<1>3. CASE target[a] = roster[a].state
  BY <1>1, <1>2, <1>3
<1>4. CASE target[a] # roster[a].state
  <2>1. Moved(target)[a] = [roster[a] EXCEPT !.state = target[a], !.epoch = epoch + 1]
    BY <1>2, <1>4
  <2>2. Moved(target)[a].idle = roster[a].idle /\ Moved(target)[a].active = roster[a].active
    BY <1>1, <2>1 DEF LogicalAgent
  <2> QED BY <1>1, <2>2
<1> QED BY <1>3, <1>4

(* A batch releases agents only after a calm time, and restricts a lead that *)
(* is not itself the danger only when its subordinates have nothing left.    *)
LEMMA ContainMoves ==
    ASSUME TypeOK, NEW s \in Signals, Contain(s), NEW a \in DOMAIN roster
    PROVE  /\ roster'[a].state < roster[a].state => s = "safe" /\ Settled
           /\ roster'[a].state > roster[a].state /\ a \in Leads /\ s # "lead" => SubsExhausted
<1>l. roster[a].state \in {0, 1, 2, 3} /\ ~(roster[a].state < roster[a].state)
  BY RosterFacts, LevelsAre
<1>m. ASSUME NEW target, Moving(target) PROVE roster'[a].state = target[a]
  BY <1>m, MovedType DEF Moving
<1>b. ASSUME Assess(s), NEW target \in [DOMAIN roster -> LogicalState], Batch(s, target)
      PROVE  roster' = roster \/ roster'[a].state = target[a]
  BY <1>b, MovedType DEF Batch
<1>t. \A b \in DOMAIN roster : roster[b].state \in LogicalState
  BY RosterFacts
<1>1. CASE Skipped(s)
  BY <1>1, <1>l DEF Skipped
<1>2. CASE SafeNothing(s)
  BY <1>2, <1>l DEF SafeNothing, NoBatch
<1>3. CASE RelaxStep(s)
  <2>1. PICK who \in SUBSET ToRelax :
          Batch(s, [b \in DOMAIN roster |->
                      IF b \in who THEN Relax(roster[b].state) ELSE roster[b].state])
    BY <1>3 DEF RelaxStep
  <2> DEFINE target == [b \in DOMAIN roster |->
                          IF b \in who THEN Relax(roster[b].state) ELSE roster[b].state]
  <2>2. \A l \in LogicalState : Relax(l) \in LogicalState /\ Relax(l) <= l
    BY LevelsAre DEF Relax
  <2>3. target \in [DOMAIN roster -> LogicalState] /\ target[a] <= roster[a].state
    BY <1>l, <1>t, <2>2
  <2>4. Batch(s, target)
    BY <2>1
  <2> HIDE DEF target
  <2>5. roster' = roster \/ roster'[a].state = target[a]
    BY <1>3, <1>b, <2>3, <2>4 DEF RelaxStep
  <2>6. target[a] \in {0, 1, 2, 3}
    BY <2>3, LevelsAre
  <2> QED BY <1>3, <1>l, <2>3, <2>5, <2>6 DEF RelaxStep
<1>4. CASE LeadOverride(s)
  <2>1. PICK c \in ActiveLeads :
          IF roster[c].state = HandoffOnly THEN NoBatch(s)
          ELSE Batch(s, [b \in DOMAIN roster |-> IF b = c THEN Tighten(roster[b].state)
                                                 ELSE roster[b].state])
    BY <1>4 DEF LeadOverride
  <2> DEFINE target == [b \in DOMAIN roster |-> IF b = c THEN Tighten(roster[b].state)
                                                ELSE roster[b].state]
  <2>2. \A l \in LogicalState : Tighten(l) \in LogicalState /\ Tighten(l) >= l
    BY LevelsAre DEF Tighten
  <2>3. target \in [DOMAIN roster -> LogicalState] /\ target[a] >= roster[a].state
    BY <1>l, <1>t, <2>2
  <2>4. NoBatch(s) \/ Batch(s, target)
    BY <2>1
  <2> HIDE DEF target
  <2>5. roster' = roster \/ roster'[a].state = target[a]
    BY <1>4, <1>b, <2>3, <2>4 DEF LeadOverride, Danger, NoBatch
  <2>6. target[a] \in {0, 1, 2, 3} /\ s = "lead"
    BY <1>4, <2>3, LevelsAre DEF LeadOverride, Overridden
  <2> QED BY <1>l, <2>3, <2>5, <2>6
<1>5. ASSUME NEW S, TightenStep(s, S), Assess(s)
      PROVE  /\ ~(roster'[a].state < roster[a].state)
             /\ a \notin S => ~(roster'[a].state > roster[a].state)
  <2>1. PICK give \in [DOMAIN roster -> 0..3] :
          /\ \A b \in DOMAIN give : give[b] > 0 => b \in ActiveIn(roster, S)
                                      /\ give[b] <= StepsRemaining(roster[b].state)
          /\ Batch(s, Tightened(give))
    BY <1>5 DEF TightenStep, TightenBatch
  <2>2. ASSUME NEW b \in DOMAIN roster PROVE roster[b].state + give[b] \in LogicalState
    <3>1. roster[b].state \in {0, 1, 2, 3} /\ give[b] \in 0..3
      BY <1>t, LevelsAre
    <3>2. give[b] > 0 => give[b] <= 3 - roster[b].state
      BY <2>1, LevelsAre DEF StepsRemaining
    <3> QED BY <3>1, <3>2, LevelsAre
  <2>3. Tightened(give) \in [DOMAIN roster -> LogicalState]
        /\ Tightened(give)[a] = roster[a].state + give[a]
    BY <2>2 DEF Tightened
  <2>4. roster' = roster \/ roster'[a].state = roster[a].state + give[a]
    BY <1>5, <1>b, <2>1, <2>3
  <2>5. give[a] \in 0..3 /\ (a \notin S => give[a] = 0)
    BY <2>1 DEF ActiveIn
  <2> QED BY <1>l, <2>4, <2>5
<1>6. CASE SubBatch(s)
  <2>1. a \in Leads => a \notin Subs
    BY ContainmentAssumption
  <2> QED BY <1>5, <1>6, <2>1 DEF SubBatch, Danger
<1>7. CASE LeadBatch(s)
  BY <1>5, <1>7 DEF LeadBatch, Danger
<1>8. CASE DangerNothing(s)
  BY <1>8, <1>l DEF DangerNothing, NoBatch
<1> QED BY <1>1, <1>2, <1>3, <1>4, <1>6, <1>7, <1>8 DEF Contain

LEMMA ContainCalm ==
    ASSUME TypeOK, NEW s \in Signals, Contain(s)
    PROVE  /\ sig' = s /\ pc' = "publish"
           /\ quiet' = IF s = "safe" THEN quiet ELSE 0
           /\ s = "safe" => calm' \in {calm, IF calm = NoCalm THEN 0 ELSE calm} /\ missed' = missed
           /\ s # "safe" => calm' = NoCalm \/ (calm' = calm /\ missed')
<1>1. sig' = s /\ pc' = "publish" /\ quiet' = IF s = "safe" THEN quiet ELSE 0
  BY DEF Contain, Skipped, SafeNothing, RelaxStep, LeadOverride, SubBatch, LeadBatch,
         DangerNothing, Danger, Assess
<1>2. \/ Skipped(s)
      \/ s = "safe" /\ calm' \in {calm, IF calm = NoCalm THEN 0 ELSE calm} /\ missed' = missed
      \/ s # "safe" /\ calm' = NoCalm
  BY DEF Contain, SafeNothing, RelaxStep, LeadOverride, SubBatch, LeadBatch,
         DangerNothing, Danger
<1>3. CASE Skipped(s) /\ s = "safe"
  <2>1. missed' = missed
    BY <1>3 DEF Skipped, TypeOK
  <2> QED BY <1>1, <1>3, <2>1 DEF Skipped
<1>4. CASE Skipped(s) /\ s # "safe"
  BY <1>1, <1>4 DEF Skipped
<1> QED BY <1>1, <1>2, <1>3, <1>4

LEMMA BatchInit == Init => BatchInv
<1> SUFFICES ASSUME Init PROVE BatchInv
  OBVIOUS
<1>1. PICK s \in Starts : InitWith(s.running, s.others, s.hooks, s.alarms, s.faults)
  BY DEF Init
<1> DEFINE r == Announced(s.running)
<1>2. /\ roster = r /\ disk = Ledger(r, 0) /\ before = Ledger(NoRoster, 0)
      /\ calm = NoCalm /\ quiet = 0
  BY <1>1 DEF InitWith
<1>3. disk.roster = r /\ DOMAIN before.roster = {}
  BY <1>2, LedgerOf DEF NoRoster
<1>4. \A a \in DOMAIN r : r[a].active
  BY DEF Announced, NewAgent
<1> HIDE DEF r
<1>5. AllStirring
  BY <1>2, <1>3, <1>4 DEF AllStirring, Stirring
<1>6. MaxCalm \in Nat
  BY ContainmentAssumption DEF MaxCalm
<1>7. CalmCounts
  BY <1>2, <1>6 DEF CalmCounts
<1> QED BY <1>5, <1>7, MindInit DEF BatchInv

LEMMA BatchNext == BatchInv /\ [Next]_vars => BatchInv'
<1> SUFFICES ASSUME BatchInv, [Next]_vars PROVE BatchInv'
  OBVIOUS
<1>t. TypeOK /\ TypeOK' /\ MindInv /\ MindInv' /\ AllStirring /\ CalmCounts
  BY MindNext DEF BatchInv, MindInv, EpochInv
<1>g. AllStirring' /\ CalmCounts' => BatchInv'
  BY <1>t DEF BatchInv
<1>m. MaxCalm \in Nat /\ NoCalm = -1
  BY ContainmentAssumption DEF MaxCalm, NoCalm
<1>b. Ledger(NoRoster, 0).roster = NoRoster /\ Stirring(NoRoster)
  BY LedgerOf DEF Stirring, NoRoster
<1>c. ASSUME UNCHANGED <<calm, quiet, missed, sig>>, pc' # "publish" PROVE CalmCounts'
  BY <1>c, <1>t DEF CalmCounts
<1>1. ASSUME NEW a \in Agents, Hook(a) \/ Awake(a) PROVE BatchInv'
  <2>1. UNCHANGED daemonVars
    BY <1>1, <1>t, HookIs
  <2> QED BY <1>g, <1>t, <2>1 DEF daemonVars, drainVars, AllStirring, CalmCounts
<1>2. ASSUME NEW a \in Agents, Prune(a) PROVE BatchInv'
  <2>1. /\ roster' = [b \in DOMAIN roster \ {a} |-> roster[b]] /\ before' = before
        /\ disk' = Ledger(roster', epoch) \/ disk' = disk
    BY <1>2 DEF Prune, drainVars
  <2>2. disk'.roster = roster' \/ disk' = disk
    BY <2>1, LedgerOf
  <2>3. AllStirring'
    BY <1>t, <2>1, <2>2 DEF AllStirring, Stirring
  <2> QED BY <1>2, <1>c, <1>g, <2>3 DEF Prune, containVars
<1>3. CASE TickStart
  <2>1. UNCHANGED <<roster, disk>> /\ before'.roster = roster
    BY <1>3, LedgerOf DEF TickStart
  <2> QED BY <1>3, <1>c, <1>g, <1>t, <2>1 DEF TickStart, containVars, AllStirring
<1>4. CASE DrainOne
  <2>1. PICK o \in unread : /\ Applied(o) /\ o \in Observation
                            /\ Record0(o) \in LogicalAgent(None)
    BY <1>4, <1>t, DrainOneIs
  <2>2. ~Record0(o).idle => Record0(o).active
    BY <1>t DEF Record0, Known, NewAgent, AllStirring, Stirring
  <2> DEFINE s == ApplyObservation(Record0(o), o, epoch, None)
  <2>3. ~s.idle => s.active
    BY <1>t, <2>1, <2>2, ObservedStirs, RosterFacts
  <2>4. \/ UNCHANGED roster
        \/ /\ DOMAIN roster' = DOMAIN roster \union {o.agent} /\ roster'[o.agent] = s
           /\ \A a \in DOMAIN roster : a # o.agent => roster'[a] = roster[a]
    BY <2>1 DEF Applied
  <2> HIDE DEF s
  <2>5. Stirring(roster')
    BY <1>t, <2>3, <2>4 DEF AllStirring, Stirring
  <2>6. UNCHANGED <<disk, before, calm, quiet, missed, sig>> /\ pc' # "publish"
    BY <1>4 DEF DrainOne, containVars
  <2>7. AllStirring'
    BY <1>t, <2>5, <2>6 DEF AllStirring
  <2> QED BY <1>c, <1>g, <2>6, <2>7
<1>5. CASE DrainSaved
  <2>1. UNCHANGED roster /\ before'.roster = NoRoster /\ (disk'.roster = roster \/ disk' = disk)
    BY <1>5, <1>b, LedgerOf DEF DrainSaved
  <2>2. AllStirring'
    BY <1>b, <1>t, <2>1 DEF AllStirring
  <2> QED BY <1>5, <1>c, <1>g, <2>2 DEF DrainSaved, containVars
<1>6. CASE DrainNotSaved
  <2>1. UNCHANGED disk /\ before'.roster = NoRoster /\ roster' = before.roster
    BY <1>6, <1>b DEF DrainNotSaved
  <2>2. AllStirring'
    BY <1>b, <1>t, <2>1 DEF AllStirring
  <2> QED BY <1>6, <1>c, <1>g, <2>2 DEF DrainNotSaved, containVars
<1>7. CASE RemoveFiles
  BY <1>7, <1>c, <1>g, <1>t DEF RemoveFiles, containVars, AllStirring
<1>8. ASSUME NEW s \in Signals, Contain(s) PROVE BatchInv'
  <2>1. UNCHANGED <<roster, epoch, disk>> \/ \E target : Moving(target)
    BY <1>8, <1>t, ContainIs
  <2>2. UNCHANGED before
    BY <1>8, <1>t, ContainIs DEF Assess, drainVars
  <2>3. AllStirring'
    <3>1. CASE UNCHANGED <<roster, epoch, disk>>
      BY <1>t, <2>2, <3>1 DEF AllStirring
    <3>2. ASSUME NEW target, Moving(target) PROVE AllStirring'
      <4>1. Stirring(roster') /\ disk'.roster = roster'
        BY <1>t, <3>2, MovedStirs, LedgerOf DEF Moving, AllStirring
      <4> QED BY <1>t, <2>2, <4>1 DEF AllStirring
    <3> QED BY <2>1, <3>1, <3>2
  <2>4. CalmCounts'
    BY <1>8, <1>m, <1>t, ContainCalm DEF CalmCounts
  <2> QED BY <1>g, <2>3, <2>4
<1>9. CASE Publish
  <2>1. AllStirring'
    BY <1>9, <1>t DEF Publish, drainVars, AllStirring
  <2>2. /\ pc = "publish" /\ pc' = "tick" /\ calm' = Older(calm) /\ missed' = missed
        /\ quiet' = IF sig = "safe" THEN Older(quiet) ELSE 0
    BY <1>9 DEF Publish
  <2>3. \A n \in 0..MaxCalm : Older(n) = IF n = MaxCalm THEN n ELSE n + 1
    BY <1>m DEF Older
  <2>4. Older(NoCalm) = NoCalm
    BY DEF Older
  <2>5. CalmCounts'
    BY <1>m, <1>t, <2>2, <2>3, <2>4 DEF CalmCounts
  <2> QED BY <1>g, <2>1, <2>5
<1>10. CASE Crash
  <2>1. UNCHANGED disk /\ before'.roster = NoRoster /\ roster' = disk.roster
    BY <1>10, <1>b DEF Crash
  <2>2. AllStirring'
    BY <1>b, <1>t, <2>1 DEF AllStirring
  <2>3. CalmCounts'
    BY <1>10, <1>m DEF Crash, CalmCounts
  <2> QED BY <1>g, <2>2, <2>3
<1>11. CASE Restart
  BY <1>11, <1>c, <1>g, <1>t DEF Restart, containVars, drainVars, AllStirring
<1>12. CASE Stale
  <2>1. pc' # "publish"
    BY <1>12 DEF Stale
  <2> QED BY <1>12, <1>c, <1>g, <1>t, <2>1 DEF Stale, containVars, drainVars, AllStirring
<1>13. CASE UNCHANGED vars
  BY <1>13, <1>g, <1>t DEF vars, drainVars, AllStirring, CalmCounts
<1> QED BY <1>1, <1>2, <1>3, <1>4, <1>5, <1>6, <1>7, <1>8, <1>9, <1>10, <1>11, <1>12, <1>13
        DEF Next, Daemon, Drain

(* Only a batch changes a restriction while the daemon contains.             *)
LEMMA OnlyBatch ==
    ASSUME BatchInv, [Next]_vars, pc = "contain", NEW a \in DOMAIN roster,
           roster'[a].state # roster[a].state
    PROVE  \E s \in Signals : Contain(s)
<1>1. TypeOK /\ Kept(roster, epoch)
  BY DEF BatchInv, MindInv, EpochInv, RosterKept
<1>2. ASSUME NEW b \in Agents, Hook(b) \/ Awake(b) PROVE UNCHANGED roster
  BY <1>1, <1>2, HookIs DEF daemonVars
<1>3. Crash => roster'[a] = roster[a]
  BY <1>1 DEF Crash, Kept
<1>4. ASSUME NEW b \in Agents, Prune(b) PROVE FALSE
  BY <1>4 DEF Prune
<1>5. ~TickStart /\ ~Drain /\ ~Publish /\ ~Restart /\ ~Stale
  BY DEF TickStart, Drain, DrainOne, DrainSaved, DrainNotSaved, Drained, RemoveFiles, Publish,
         Restart, Stale
<1> QED BY <1>2, <1>3, <1>4, <1>5 DEF Next, Daemon, vars

LEMMA StepCalmFirst == BatchInv /\ [Next]_vars => CalmFirst
<1> SUFFICES ASSUME BatchInv, [Next]_vars, BatchRelaxed, ~missed
             PROVE  quiet >= 2 * Reaction
  BY DEF CalmFirst
<1>1. PICK a \in DOMAIN roster : pc = "contain" /\ roster'[a].state < roster[a].state
  BY DEF BatchRelaxed
<1>t. TypeOK /\ CalmCounts
  BY DEF BatchInv, MindInv, EpochInv
<1>2. roster'[a].state # roster[a].state
  BY <1>1, <1>t, RosterFacts, LevelsAre
<1>3. PICK s \in Signals : Contain(s)
  BY <1>1, <1>2, OnlyBatch
<1>4. Settled
  BY <1>1, <1>3, <1>t, ContainMoves
<1> QED BY <1>4, <1>t, ContainmentAssumption DEF Settled, CalmCounts

(* Agents are released only when memory has been safe for two reaction       *)
(* times in this life of the daemon, but for a danger that fell into ticks   *)
(* its actuator was not called in.                                           *)
THEOREM ReleasedAfterCalm == Spec => ReopenAfterCalm
BY BatchInit, BatchNext, StepCalmFirst, PTL DEF Spec, ReopenAfterCalm

LEMMA StepSubsFirst == BatchInv /\ [Next]_vars => SubsFirst
<1> SUFFICES ASSUME BatchInv, [Next]_vars, LeadTightened, sig' # "lead",
                    NEW b \in Subs, doing[b] \in Working, b \notin blind,
                    \A o \in queue : o.agent # b
             PROVE  b \in DOMAIN roster /\ roster[b].state = HandoffOnly
  BY DEF SubsFirst
<1>1. PICK a \in Leads \intersect DOMAIN roster : pc = "contain" /\ roster'[a].state > roster[a].state
  BY DEF LeadTightened
<1>t. TypeOK /\ Stirring(roster) /\ AllTell
  BY DEF BatchInv, MindInv, EpochInv, AllStirring
<1>2. roster'[a].state # roster[a].state
  BY <1>1, <1>t, RosterFacts, LevelsAre
<1>3. PICK s \in Signals : Contain(s)
  BY <1>1, <1>2, OnlyBatch
<1>4. SubsExhausted
  BY <1>1, <1>3, <1>t, ContainMoves, ContainCalm
<1>5. Minds(b, roster, queue)
  BY <1>1, <1>t DEF AllTell, Tells, Agents
<1>6. b \in DOMAIN roster /\ roster[b].active
  BY <1>5, <1>t DEF Minds, Awakened, Woken, Of, Stirring
<1> QED BY <1>4, <1>6 DEF SubsExhausted, ActiveSubs, ActiveIn

(* Unless its own growth is the danger, a lead is restricted only when every *)
(* subordinate at work that a hook could announce is down to its hand-off.   *)
THEOREM LeadsLast == Spec => LeadsYieldLast
BY BatchInit, BatchNext, StepSubsFirst, PTL DEF Spec, LeadsYieldLast

=============================================================================
