------------------------ MODULE AppContainment_proofs ------------------------
(***************************************************************************)
(* Theorems about AppContainment, for any agents, tool calls and bounds:   *)
(* a hook of the App, its observation and the drain that applies it carry  *)
(* one reading to the roster, and the last resort looks at that; what was  *)
(* saved is what the daemon has; and the clock of recovery is no older     *)
(* than the calm.                                                          *)
(***************************************************************************)
EXTENDS AppContainment, FiniteSetTheorems, TLAPS

-----------------------------------------------------------------------------
(* Records and observations.                                               *)

\* The ladder, as numbers.
LEMMA LevelsAre == LogicalState = {0, 1, 2, 3} /\ Active = 0 /\ HandoffOnly = 3
  BY DEF LogicalState, Active, HandoffOnly

\* A new record is one of an agent at work that has read nothing.
LEMMA NewAgentType ==
    ASSUME NEW at \in Nat, NEW e \in Nat
    PROVE  /\ NewAgent(at, e, None) \in LogicalAgent(None)
           /\ NewAgent(at, e, None).active /\ NewAgent(at, e, None).receipt = None
  BY LevelsAre DEF NewAgent, LogicalAgent

\* Observations of work that begins.
Wakes(o) == o.event \in {"Start", "Prompt", "PreTool"}

\* What an observation makes of a record.
LEMMA Observed ==
    ASSUME NEW r \in LogicalAgent(None), NEW o \in Observation, NEW e \in Nat
    PROVE  LET s == ApplyObservation(r, o, e, None)
           IN /\ s \in LogicalAgent(None)
              /\ s.active = IF Wakes(o) THEN TRUE
                            ELSE IF o.event = "End" THEN FALSE ELSE r.active
              /\ o.receipt # None => s.receipt = o.receipt
              /\ o.receipt = None => s.receipt = IF o.event = "Start" THEN None ELSE r.receipt
<1> DEFINE t == Seen(r, o, None)
           u == AfterEvent(t, o)
           s == ApplyObservation(r, o, e, None)
<1>0. /\ o.event \in {"Start", "End", "Prompt", "PreTool", "PostTool", "Stop"}
      /\ o.weight \in Weights \union {NoTool} /\ o.at \in Nat
      /\ o.receipt \in Receipts \union {None} /\ o.blocked \in BOOLEAN
  BY DEF Observation, HookEvents, Reading, Receipts
<1>1. t \in LogicalAgent(None) /\ t.active = r.active
      /\ t.receipt = IF o.receipt = None THEN r.receipt ELSE o.receipt
  <2> DEFINE c == IF o.receipt = None THEN r.receipt ELSE o.receipt
  <2>1. c \in Receipts \union {None}
    BY <1>0 DEF LogicalAgent
  <2>2. t = [r EXCEPT !.seen = o.at, !.receipt = c]
    BY DEF Seen
  <2> HIDE DEF c, t
  <2>3. t \in LogicalAgent(None) /\ t.active = r.active /\ t.receipt = c
    BY <1>0, <2>1, <2>2 DEF LogicalAgent
  <2> QED BY <2>3 DEF c
<1> HIDE DEF t
<1>2. /\ u \in LogicalAgent(None)
      /\ u.active = IF Wakes(o) THEN TRUE ELSE IF o.event = "End" THEN FALSE ELSE r.active
      /\ u.receipt = IF o.event = "Start" THEN o.receipt ELSE t.receipt
  <2>1. CASE o.event = "Start"
    BY <1>0, <1>1, <2>1, LevelsAre DEF AfterEvent, LogicalAgent, Wakes
  <2>2. CASE o.event = "End"
    BY <1>0, <1>1, <2>2, LevelsAre DEF AfterEvent, LogicalAgent, Wakes
  <2>3. CASE o.event = "Prompt"
    BY <1>0, <1>1, <2>3 DEF AfterEvent, LogicalAgent, Wakes
  <2>4. CASE o.event = "PreTool"
    BY <1>0, <1>1, <2>4 DEF AfterEvent, LogicalAgent, Wakes
  <2>5. CASE o.event = "PostTool"
    BY <1>0, <1>1, <2>5 DEF AfterEvent, LogicalAgent, Wakes
  <2>6. CASE o.event = "Stop"
    BY <1>0, <1>1, <2>6 DEF AfterEvent, LogicalAgent, Wakes
  <2> QED BY <1>0, <2>1, <2>2, <2>3, <2>4, <2>5, <2>6
<1> HIDE DEF u
<1>3. s = IF OpensEpoch(r, o) THEN [u EXCEPT !.epoch = e + 1] ELSE u
  BY DEF s, u, t, ApplyObservation
<1> HIDE DEF s
<1>4. s \in LogicalAgent(None) /\ s.active = u.active /\ s.receipt = u.receipt
  <2>1. CASE OpensEpoch(r, o)
    <3>1. s = [u EXCEPT !.epoch = e + 1] /\ e + 1 \in Nat
      BY <1>3, <2>1
    <3> QED BY <1>2, <3>1 DEF LogicalAgent
  <2>2. CASE ~OpensEpoch(r, o)
    BY <1>2, <1>3, <2>2
  <2> QED BY <2>1, <2>2
<1> QED BY <1>1, <1>2, <1>4 DEF s

\* Every tool call has a class.
LEMMA ClassesAre == AppContainmentAssumption => Classes \subseteq ToolClass
<1> SUFFICES ASSUME NEW call \in Calls PROVE ClassifyTool(call) \in ToolClass
  BY DEF Classes, AppContainmentAssumption
<1>1. CASE call \in [tool : ToolClass]
  BY <1>1 DEF ClassifyTool
<1>2. CASE call \in [broad : BOOLEAN]
  BY <1>2 DEF ClassifyTool, ToolClass
<1>3. CASE call \in [background : BOOLEAN, segments : SUBSET SegmentClass]
  BY <1>3 DEF ClassifyTool, ShellClass, ToolClass
<1> QED BY <1>1, <1>2, <1>3 DEF Calls

-----------------------------------------------------------------------------
(* Types.                                                                  *)

IsRoster(r) == IsSome(r, LogicalAgent(None))
Works == {"absent", "away", "idle"} \union AtWork

HookTypes ==
    /\ doing \in [Agents -> Works]
    /\ held \in [Agents -> [class : ToolClass, read : Reading \union {None}] \union {None}]
    /\ clock \in Nat /\ queue \subseteq Observation /\ IsFiniteSet(queue)
    /\ saw \in [Agents -> Reading \union {None}] /\ blind \subseteq Agents

LedgerTypes ==
    /\ IsRoster(roster) /\ epoch \in Nat /\ ctl \in Control /\ since \in [Agents -> Nat]
    /\ IsLedger(disk)

RestTypes ==
    /\ pub = [fresh |-> pub.fresh, gate |-> pub.gate, agents |-> pub.agents]
    /\ pub.fresh \in BOOLEAN /\ pub.gate \in BOOLEAN /\ IsSome(pub.agents, Reading)
    /\ pc \in {"tick", "contain", "pause", "publish", "down"}
    /\ sig \in Findings /\ paused \in BOOLEAN
    /\ left \in [alarms : Nat, faults : Nat]
    /\ quiet \in Nat /\ unseen \in BOOLEAN /\ unsaved \in BOOLEAN

TypeInv == HookTypes /\ LedgerTypes /\ RestTypes

\* A ledger is its four parts.
LEMMA LedgerIs ==
    ASSUME NEW r, NEW e, NEW c, NEW s
    PROVE  /\ Ledger(r, e, c, s).roster = r /\ Ledger(r, e, c, s).epoch = e
           /\ Ledger(r, e, c, s).ctl = c /\ Ledger(r, e, c, s).since = s
           /\ IsLedger(Ledger(r, e, c, s)) <=>
                IsRoster(r) /\ e \in Nat /\ c \in Control /\ s \in [Agents -> Nat]
  BY DEF IsLedger, Ledger, IsRoster

\* What is proved of the types is all that is promised of them.
LEMMA TypeParts == TypeInv => AppTypeOK
<1> SUFFICES ASSUME TypeInv PROVE AppTypeOK
  OBVIOUS
<1>1. IsLedger(Ledger(roster, epoch, ctl, since))
  BY LedgerIs DEF TypeInv, LedgerTypes
<1> QED BY <1>1 DEF TypeInv, HookTypes, LedgerTypes, RestTypes, AppTypeOK, Works

\* What is published of a roster names its agents.
LEMMA ViewType ==
    ASSUME NEW r, IsRoster(r)
    PROVE  IsSome(View(r), Reading) /\ DOMAIN View(r) = DOMAIN r
  BY LevelsAre DEF IsRoster, IsSome, View, Reading, LogicalAgent

\* What is published has the type of state.json.
LEMMA StateType ==
    ASSUME NEW r, IsRoster(r), NEW c \in Control, pub' = State(r, c)
    PROVE  /\ pub' = [fresh |-> pub'.fresh, gate |-> pub'.gate, agents |-> pub'.agents]
           /\ pub'.fresh \in BOOLEAN /\ pub'.gate \in BOOLEAN
           /\ IsSome(pub'.agents, Reading) /\ DOMAIN pub'.agents = DOMAIN r
<1>1. pub'.fresh = TRUE /\ pub'.gate = c.gate /\ pub'.agents = View(r)
      /\ pub' = [fresh |-> TRUE, gate |-> c.gate, agents |-> View(r)]
  BY DEF State
<1> QED BY <1>1, ViewType DEF Control

\* The types hold at the start.
LEMMA InitType ==
    ASSUME AppContainmentAssumption, Init
    PROVE  TypeInv
<1>1. PICK s \in Starts : InitWith(s.running, s.others, s.hooks, s.alarms, s.faults)
  BY DEF Init
<1>2. /\ s.running \subseteq Agents /\ s.others \subseteq Agents /\ s.hooks \in 0..MaxHooks
      /\ s.alarms \in Nat /\ s.faults \in Nat /\ MaxHooks \in Nat
      /\ Reaction \in Nat
  BY DEF AppContainmentAssumption
<1> DEFINE r == [a \in s.running |-> NewAgent(0, 0, None)]
           c == [gate |-> FALSE, recovery |-> None, acted |-> Reaction]
           w == [a \in Agents |-> Reaction]
<1>3. IsRoster(r)
  BY <1>2, NewAgentType DEF IsRoster, IsSome
<1>4. c \in Control /\ w \in [Agents -> Nat]
  BY <1>2 DEF Control
<1>5. /\ doing = [a \in Agents |-> IF a \in s.running THEN "working"
                               ELSE IF a \in s.others THEN "away" ELSE "absent"]
      /\ held = [a \in Agents |-> None]
      /\ clock = MaxHooks - s.hooks /\ queue = {}
      /\ roster = r /\ epoch = 0 /\ ctl = c /\ since = w
      /\ disk = Ledger(roster, epoch, ctl, since) /\ pub = State(roster, ctl)
      /\ pc = "tick" /\ sig = "safe" /\ paused = FALSE
      /\ left = [alarms |-> s.alarms, faults |-> s.faults]
      /\ saw = [a \in Agents |-> None] /\ blind = {}
      /\ quiet = 0 /\ unseen = FALSE /\ unsaved = FALSE
  BY <1>1 DEF InitWith
<1> HIDE DEF r, c, w
<1>6. HookTypes
  BY <1>2, <1>5, FS_EmptySet DEF HookTypes, Works, AtWork
<1>7. LedgerTypes
  BY <1>3, <1>4, <1>5, LedgerIs DEF LedgerTypes
<1>8. RestTypes
  <2>1. pub = [fresh |-> TRUE, gate |-> c.gate, agents |-> View(r)]
    BY <1>5 DEF State
  <2>2. pub.fresh = TRUE /\ pub.gate = c.gate /\ pub.agents = View(r)
    BY <2>1
  <2>3. IsSome(pub.agents, Reading) /\ pub.gate \in BOOLEAN
    BY <1>3, <1>4, <2>2, ViewType DEF Control
  <2> QED BY <1>2, <1>5, <2>1, <2>2, <2>3 DEF RestTypes, Findings
<1> QED BY <1>6, <1>7, <1>8 DEF TypeInv

-----------------------------------------------------------------------------
(* Hooks.                                                                  *)

Unbound(read) == read = None \/ read.state # HandoffOnly

\* A receipt and what a waiting hook keeps of its reading.
LEMMA ReadingsAre ==
    ASSUME AppContainmentAssumption, NEW read \in Reading \union {None}
    PROVE  /\ Receipt(read) \in Reading \union {None} /\ Heard(read) \in Reading \union {None}
           /\ Receipt(read) = None <=> read = None
           /\ Heard(read) = None <=> read = None
           /\ Unbound(read) => Unbound(Receipt(read))
<1>1. None \notin Reading
  BY DEF AppContainmentAssumption, Receipts, Reading
<1>2. CASE read = None
  BY <1>1, <1>2 DEF Receipt, Heard, Unbound
<1>3. CASE read \in Reading
  <2>1. [state |-> Active, epoch |-> 0] \in Reading /\ [read EXCEPT !.epoch = 0] \in Reading
    BY <1>3, LevelsAre DEF Reading
  <2>2. Receipt(read) \in Reading /\ Heard(read) \in Reading
    BY <1>3, <2>1 DEF Receipt, Heard
  <2>3. Unbound(read) => Unbound(Receipt(read))
    BY <1>1, <1>3, LevelsAre DEF Receipt, Unbound
  <2> QED BY <1>1, <1>3, <2>2, <2>3
<1> QED BY <1>2, <1>3

\* A hook reads of its agent what state.json shows, if it shows it.
LEMMA ToldIs ==
    ASSUME AppContainmentAssumption, RestTypes, NEW a
    PROVE  /\ Told(a) \in Reading \union {None}
           /\ Told(a) = None <=> a \notin DOMAIN pub.agents
  BY DEF Told, RestTypes, IsSome, AppContainmentAssumption, Receipts, Reading

\* A hook that has read `read` leaves an observation, or none if ~fresh, and
\* its agent goes on as `next`.
Observes(a, event, blocked, fresh, read, next) ==
    /\ Record(a, event, blocked, fresh, read)
    /\ doing' = [doing EXCEPT ![a] = next]
    /\ \/ /\ held' = held /\ read = Told(a)
          /\ held[a] = None \/ doing[a] \in {"away", "idle"}
       \/ held' = held /\ ~fresh /\ held[a] = None
       \/ /\ held[a] # None /\ held' = [held EXCEPT ![a] = None]
          /\ fresh /\ read = held[a].read
    /\ next \in AtWork =>
         event # "End" /\ (event \in {"Start", "Prompt", "PreTool"} \/ doing[a] \in AtWork)
    /\ next = "heavy" => ~fresh \/ Unbound(read) \/ (held[a] # None /\ doing[a] = "heavy")

\* The hooks of prompts and turns.
LEMMA PlainIs ==
    ASSUME RestTypes, NEW a \in Agents, NEW event, NEW next \in {"away", "idle", "working"},
           Plain(a, event, next),
           held[a] = None \/ doing[a] \in {"away", "idle"},
           next \in AtWork =>
             event # "End" /\ (event \in {"Start", "Prompt", "PreTool"} \/ doing[a] \in AtWork)
    PROVE  Observes(a, event, FALSE, pub.fresh, Told(a), next)
  BY DEF Plain, Observes, AtWork

\* The hooks of tools that do not wait: heavy work begins under no hand-off.
LEMMA DecideIs ==
    ASSUME HookTypes, NEW a \in Agents, NEW class \in ToolClass,
           NEW read \in Reading \union {None}, Decide(a, class, read),
           \/ held' = held /\ read = Told(a) /\ held[a] = None /\ doing[a] = "working"
           \/ held[a] # None /\ held' = [held EXCEPT ![a] = None] /\ read = held[a].read
    PROVE  \E blocked \in BOOLEAN, next \in Works : Observes(a, "PreTool", blocked, TRUE, read, next)
<1> DEFINE state == IF read = None THEN Active ELSE read.state
           allowed == AllowedIn(class, state)
<1>1. /\ doing' = IF allowed THEN [doing EXCEPT ![a] = WorkOf(class)] ELSE doing
      /\ Record(a, "PreTool", ~allowed, TRUE, read)
  BY DEF Decide
<1>2. CASE allowed
  <2>1. WorkOf(class) \in Works
    BY DEF WorkOf, Works, AtWork
  <2>2. WorkOf(class) = "heavy" => Unbound(read)
    BY <1>2, LevelsAre DEF WorkOf, Heavy, AllowedIn, Unbound, NoExpansion, LightWorkOnly
  <2>3. Observes(a, "PreTool", FALSE, TRUE, read, WorkOf(class))
    BY <1>1, <1>2, <2>2 DEF Observes
  <2> QED BY <2>1, <2>3
<1>3. CASE ~allowed
  <2>1. doing' = [doing EXCEPT ![a] = doing[a]] /\ doing[a] \in Works
    BY <1>1, <1>3 DEF HookTypes
  <2>2. Observes(a, "PreTool", TRUE, TRUE, read, doing[a])
    BY <1>1, <1>3, <2>1 DEF Observes
  <2> QED BY <2>1, <2>2
<1> QED BY <1>2, <1>3

\* A hook begins to wait at the gate.
Waits(a) ==
    /\ doing[a] = "working" /\ held[a] = None /\ Mayhook(a) /\ clock' = clock + 1
    /\ \E class \in ToolClass :
         held' = [held EXCEPT ![a] = [class |-> class, read |-> Heard(Told(a))]]
    /\ UNCHANGED <<doing, queue, saw, blind>>

\* Every hook waits at the gate or leaves an observation, and moves nothing of
\* the daemon.
LEMMA HookIs ==
    ASSUME AppContainmentAssumption, TypeInv, NEW a \in Agents, Hook(a)
    PROVE  /\ UNCHANGED <<ledgerVars, disk, pub, pc, sig, paused, left, historyVars>>
           /\ \/ Waits(a)
              \/ \E event \in HookEvents, blocked, fresh \in BOOLEAN,
                    read \in Reading \union {None}, next \in Works :
                      Observes(a, event, blocked, fresh, read, next)
<1> DEFINE Still == UNCHANGED <<ledgerVars, disk, pub, pc, sig, paused, left, historyVars>>
           Seen1 == \E event \in HookEvents, blocked, fresh \in BOOLEAN,
                      read \in Reading \union {None}, next \in Works :
                        Observes(a, event, blocked, fresh, read, next)
<1>1. /\ Told(a) \in Reading \union {None} /\ pub.fresh \in BOOLEAN
      /\ held[a] \in [class : ToolClass, read : Reading \union {None}] \union {None}
      /\ doing[a] \in Works
  BY ToldIs DEF TypeInv, RestTypes, HookTypes
<1>2. {"Start", "Prompt", "PreTool", "PostTool", "Stop", "End"} \subseteq HookEvents
      /\ {"away", "idle", "working"} \subseteq Works /\ "heavy" \in Works
  BY DEF HookEvents, Works, AtWork
<1>3. ASSUME NEW event \in HookEvents, NEW next \in {"away", "idle", "working"},
             Plain(a, event, next),
             held[a] = None \/ doing[a] \in {"away", "idle"},
             next \in AtWork =>
               event # "End" /\ (event \in {"Start", "Prompt", "PreTool"} \/ doing[a] \in AtWork)
      PROVE  Still /\ Seen1
  <2>1. Still
    BY <1>3 DEF Plain, Record
  <2>2. Observes(a, event, FALSE, pub.fresh, Told(a), next)
    BY <1>3, PlainIs DEF TypeInv
  <2> QED BY <1>1, <1>2, <2>1, <2>2
<1> HIDE DEF Seen1
<1>4. CASE HookStart(a)
  <2>1. doing[a] = "away" /\ Plain(a, "Start", IF a \in Subs THEN "working" ELSE "idle")
    BY <1>4 DEF HookStart
  <2> QED BY <1>2, <1>3, <2>1 DEF Seen1
<1>5. CASE HookPrompt(a)
  <2>1. doing[a] = "idle" /\ Plain(a, "Prompt", "working")
    BY <1>5 DEF HookPrompt
  <2> QED BY <1>2, <1>3, <2>1 DEF Seen1
<1>6. CASE HookPostTool(a)
  <2>1. doing[a] \in AtWork /\ held[a] = None /\ Plain(a, "PostTool", "working")
    BY <1>6 DEF HookPostTool
  <2> QED BY <1>2, <1>3, <2>1 DEF Seen1
<1>7. CASE HookStop(a)
  <2>1. held[a] = None /\ Plain(a, "Stop", "idle") /\ "idle" \notin AtWork
    BY <1>7 DEF HookStop, AtWork
  <2> QED BY <1>2, <1>3, <2>1 DEF Seen1
<1>8. CASE HookEnd(a)
  <2>1. held[a] = None /\ Plain(a, "End", "away") /\ "away" \notin AtWork
    BY <1>8 DEF HookEnd, AtWork
  <2> QED BY <1>2, <1>3, <2>1 DEF Seen1
<1>9. CASE HookResume(a)
  <2>1. /\ held[a] # None /\ Decide(a, held[a].class, held[a].read)
        /\ held' = [held EXCEPT ![a] = None]
    BY <1>9 DEF HookResume
  <2>2. held[a].class \in ToolClass /\ held[a].read \in Reading \union {None}
    BY <1>1, <2>1
  <2>3. \E blocked \in BOOLEAN, next \in Works :
          Observes(a, "PreTool", blocked, TRUE, held[a].read, next)
    BY <2>1, <2>2, DecideIs DEF TypeInv
  <2>4. Still
    BY <2>1 DEF Decide, Record
  <2> QED BY <1>2, <2>2, <2>3, <2>4 DEF Seen1
<1>10. CASE HookTimeout(a)
  <2>1. /\ held[a] # None /\ Record(a, "PreTool", TRUE, TRUE, held[a].read)
        /\ held' = [held EXCEPT ![a] = None] /\ UNCHANGED doing
    BY <1>10 DEF HookTimeout
  <2>2. held[a].read \in Reading \union {None} /\ doing' = [doing EXCEPT ![a] = doing[a]]
    BY <1>1, <2>1 DEF TypeInv, HookTypes
  <2>3. Observes(a, "PreTool", TRUE, TRUE, held[a].read, doing[a])
    BY <2>1, <2>2 DEF Observes
  <2>4. Still
    BY <2>1 DEF Record
  <2> QED BY <1>1, <1>2, <2>2, <2>3, <2>4 DEF Seen1
<1>11. ASSUME NEW class \in Classes,
              HookPreTool(a, class) \/ HookUnseen(a, class) \/ HookWait(a, class)
       PROVE  Still /\ (Waits(a) \/ Seen1)
  <2>1. class \in ToolClass
    BY ClassesAre
  <2>2. CASE HookPreTool(a, class)
    <3>1. Decide(a, class, Told(a)) /\ held' = held /\ held[a] = None /\ doing[a] = "working"
      BY <2>2 DEF HookPreTool
    <3>2. \E blocked \in BOOLEAN, next \in Works :
            Observes(a, "PreTool", blocked, TRUE, Told(a), next)
      BY <1>1, <2>1, <3>1, DecideIs DEF TypeInv
    <3>3. Still
      BY <3>1 DEF Decide, Record
    <3> QED BY <1>1, <1>2, <3>2, <3>3 DEF Seen1
  <2>3. CASE HookUnseen(a, class)
    <3>1. /\ doing' = [doing EXCEPT ![a] = WorkOf(class)] /\ held' = held /\ held[a] = None
          /\ Record(a, "PreTool", FALSE, FALSE, None)
      BY <2>3 DEF HookUnseen
    <3>2. Observes(a, "PreTool", FALSE, FALSE, None, WorkOf(class))
      BY <3>1 DEF Observes
    <3>3. Still
      BY <3>1 DEF Record
    <3>4. WorkOf(class) \in Works
      BY <1>2 DEF WorkOf
    <3> QED BY <1>2, <3>2, <3>3, <3>4 DEF Seen1
  <2>4. CASE HookWait(a, class)
    BY <2>1, <2>4 DEF HookWait, Waits, ledgerVars, historyVars
  <2> QED BY <1>11, <2>2, <2>3, <2>4
<1> QED BY <1>4, <1>5, <1>6, <1>7, <1>8, <1>9, <1>10, <1>11 DEF Hook, Seen1

-----------------------------------------------------------------------------
(* The control state.                                                      *)

\* None is none of what it stands for the absence of.
LEMMA NoneIs == AppContainmentAssumption =>
                  None \notin Nat /\ Reaction \in Nat /\ Reaction > 0 /\ None \notin Receipts
                  /\ None \notin Agents
  BY DEF AppContainmentAssumption

\* Clocks grow and the gate stays.
LEMMA OlderIs ==
    ASSUME AppContainmentAssumption, NEW c \in Control, NEW s \in [Agents -> Nat]
    PROVE  /\ OlderCtl(c) \in Control /\ OlderCtl(c).gate = c.gate
           /\ OlderCtl(c).recovery = Older(c.recovery, 2 * Reaction)
           /\ OlderSince(s) \in [Agents -> Nat]
<1>1. /\ Older(c.recovery, 2 * Reaction) \in Nat \union {None}
      /\ Older(c.acted, Reaction) \in Nat
  BY NoneIs DEF Older, Control
<1>2. OlderSince(s) \in [Agents -> Nat]
  BY NoneIs DEF OlderSince, Older
<1> QED BY <1>1, <1>2 DEF OlderCtl, Control

\* The control state of a pass over calm, and over danger.
LEMMA ControlsAre ==
    ASSUME AppContainmentAssumption, ctl \in Control
    PROVE  /\ Recovering \in Control /\ Recovering.gate = ctl.gate
           /\ Recovering.recovery = IF ctl.recovery = None THEN 0 ELSE ctl.recovery
           /\ Alarmed \in Control /\ Alarmed.gate = ctl.gate /\ Alarmed.recovery = None
           /\ Alarmed = [ctl EXCEPT !.recovery = None]
  BY NoneIs DEF Recovering, Alarmed, Control

\* The control state with its stamps.
LEMMA StampedIs ==
    ASSUME NEW c \in Control, NEW on \in BOOLEAN
    PROVE  /\ [c EXCEPT !.acted = 0] \in Control
           /\ [c EXCEPT !.acted = 0].gate = c.gate
           /\ [c EXCEPT !.acted = 0].recovery = c.recovery
           /\ [c EXCEPT !.gate = on, !.acted = 0] \in Control
           /\ [c EXCEPT !.gate = on, !.acted = 0].gate = on
           /\ [c EXCEPT !.gate = on, !.acted = 0].recovery = c.recovery
  BY DEF Control

-----------------------------------------------------------------------------
(* manage_codex_app_containment: what one pass of it does.                 *)

\* The control state that a pass with the finding s goes on with.
Base(s) == IF s = "safe" THEN Recovering ELSE Alarmed

\* Nothing is released or opened, or it may be.
Holds(s, n) ==
    \/ Only(Base(s))
    \/ s # "safe" /\ SetGate(Base(s), TRUE)
    \/ /\ s = "safe" /\ MayReopen /\ (Limited = {} \/ unsaved')
       /\ SetGate(Base(s), FALSE)
    \/ \E target \in [DOMAIN roster -> LogicalState] :
         /\ Batch(target, Base(s), [Base(s) EXCEPT !.acted = 0], n)
         /\ \/ s = "safe" /\ MayReopen
            \/ \A a \in DOMAIN roster : target[a] >= roster[a].state

Turns(s) == /\ unseen' = IF s = "safe" THEN unseen ELSE FALSE
            /\ unsaved' \in BOOLEAN

\* The finding s of a pass, and what it moves beside the ledger.
Found(s) ==
    /\ pc = "contain" /\ sig' = s /\ pc' \in {"pause", "publish"}
    /\ left' \in [alarms : Nat, faults : Nat]
    /\ quiet' = IF s = "safe" THEN quiet ELSE 0
    /\ UNCHANGED <<hookVars, pub, paused>>

\* What is left of the alarms and faults.
LEMMA LeftIs ==
    ASSUME RestTypes, NEW s, NEW n \in 0..2, n <= left.faults, Alarm(s) => left.alarms > 0
    PROVE  [alarms |-> left.alarms - IF Alarm(s) THEN 1 ELSE 0, faults |-> left.faults - n]
             \in [alarms : Nat, faults : Nat]
  BY DEF RestTypes

\* A tick that could not list the processes finds something and does nothing.
LEMMA SkippedIs ==
    ASSUME TypeInv, NEW s \in Findings, Skipped(s)
    PROVE  /\ Found(s) /\ UNCHANGED <<ledgerVars, disk, unsaved>>
           /\ unseen' = (unseen \/ (s # "safe" /\ ctl.recovery # None))
           /\ unseen' \in BOOLEAN
<1>1. /\ 1 \in 0..2 /\ 1 <= left.faults /\ (Alarm(s) => left.alarms > 0)
      /\ left' = [alarms |-> left.alarms - IF Alarm(s) THEN 1 ELSE 0,
                  faults |-> left.faults - 1]
  BY DEF Skipped, Assess
<1>2. left' \in [alarms : Nat, faults : Nat]
  BY <1>1, LeftIs DEF TypeInv
<1>3. Found(s)
  BY <1>2 DEF Skipped, Assess, Found
<1> QED BY <1>3 DEF Skipped, Only, ledgerVars

\* Every pass finds something, and holds, closes or releases accordingly.
LEMMA ContainIs ==
    ASSUME AppContainmentAssumption, TypeInv, Contain
    PROVE  \/ SafeOpen
           \/ \E s \in Findings : Skipped(s)
           \/ \E s \in Findings, m \in 0..2 :
                Found(s) /\ Holds(s, m) /\ Turns(s)
<1>0. RestTypes
  BY DEF TypeInv
<1>1. /\ {"safe", "unsafe", "due"} \subseteq Findings /\ unsaved \in BOOLEAN
      /\ ctl.gate \in BOOLEAN /\ left.alarms \in Nat /\ left.faults \in Nat
  BY DEF TypeInv, RestTypes, LedgerTypes, Findings, Control
<1> DEFINE Goal == \E s \in Findings, m \in 0..2 :
                     Found(s) /\ Holds(s, m) /\ Turns(s)
<1> HIDE DEF Goal
<1>2. CASE SafeOpen
  BY <1>2
<1>11. CASE \E s \in Findings : Skipped(s)
  BY <1>11
<1>3. ASSUME SafeWait PROVE Goal
  <2>1. Found("safe") /\ Turns("safe") /\ Only(Recovering)
    BY <1>0, <1>1, LeftIs, <1>3 DEF SafeWait, Turns, Assess, Found
  <2>2. Holds("safe", 0)
    BY <2>1 DEF Holds, Base
  <2> QED BY <1>1, <2>1, <2>2 DEF Goal
<1>4. ASSUME GateNotOpened PROVE Goal
  <2>1. Found("safe") /\ Turns("safe")
        /\ Only(Recovering)
    BY <1>0, <1>1, LeftIs, <1>4 DEF GateNotOpened, Turns, Assess, Found
  <2>2. Holds("safe", 0)
    BY <2>1 DEF Holds, Base
  <2> QED BY <1>1, <2>1, <2>2 DEF Goal
<1>5. ASSUME CloseGate PROVE Goal
  <2>1. /\ 0 \in 0..2 /\ 0 <= left.faults /\ (Alarm("due") => left.alarms > 0)
        /\ left' = [alarms |-> left.alarms - IF Alarm("due") THEN 1 ELSE 0,
                    faults |-> left.faults - 0]
    BY <1>5 DEF CloseGate, Assess
  <2>2. left' \in [alarms : Nat, faults : Nat]
    BY <1>0, <2>1, LeftIs
  <2>3. Found("due") /\ Turns("due") /\ SetGate(Alarmed, TRUE)
    BY <1>1, <2>2, <1>5 DEF CloseGate, Turns, Assess, Found
  <2>4. Holds("due", 0)
    BY <2>3 DEF Holds, Base
  <2> QED BY <1>1, <2>3, <2>4 DEF Goal
<1>6. ASSUME NEW n \in 1..2, NotBraked(n) PROVE Goal
  <2>1. /\ n \in 0..2 /\ n <= left.faults /\ (Alarm("due") => left.alarms > 0)
        /\ left' = [alarms |-> left.alarms - IF Alarm("due") THEN 1 ELSE 0,
                    faults |-> left.faults - n]
    BY <1>6 DEF NotBraked, Assess
  <2>2. left' \in [alarms : Nat, faults : Nat]
    BY <1>0, <2>1, LeftIs
  <2>3. Found("due") /\ Turns("due") /\ Only(Alarmed)
    BY <1>1, <2>2, <1>6 DEF NotBraked, Turns, Assess, Found
  <2>4. Holds("due", 0)
    BY <2>3 DEF Holds, Base
  <2> QED BY <1>1, <2>3, <2>4 DEF Goal
<1>7. ASSUME NEW s \in Findings, UnsafeNothing(s) PROVE Goal
  <2>1. /\ 0 \in 0..2 /\ 0 <= left.faults /\ (Alarm(s) => left.alarms > 0)
        /\ left' = [alarms |-> left.alarms - IF Alarm(s) THEN 1 ELSE 0,
                    faults |-> left.faults - 0]
    BY <1>7 DEF UnsafeNothing, Assess
  <2>2. left' \in [alarms : Nat, faults : Nat]
    BY <1>0, <2>1, LeftIs
  <2>3. Found(s) /\ Turns(s) /\ Only(Alarmed)
    BY <1>1, <2>2, <1>7 DEF UnsafeNothing, Turns, Assess, Found
  <2>4. Holds(s, 0)
    BY <1>7, <2>3 DEF Holds, Base, UnsafeNothing
  <2> QED BY <1>7, <2>3, <2>4 DEF Goal
<1>8. ASSUME NEW n \in 0..1, OpenGate(n) PROVE Goal
  <2>1. /\ n \in 0..2 /\ n <= left.faults /\ (Alarm("safe") => left.alarms > 0)
        /\ left' = [alarms |-> left.alarms - IF Alarm("safe") THEN 1 ELSE 0,
                    faults |-> left.faults - n]
    BY <1>8 DEF OpenGate, Assess
  <2>2. left' \in [alarms : Nat, faults : Nat]
    BY <1>0, <2>1, LeftIs
  <2>3. Found("safe") /\ MayReopen /\ (Limited # {} <=> n = 1)
        /\ unsaved' = (n = 1) /\ UNCHANGED unseen
        /\ IF ctl.gate THEN SetGate(Recovering, FALSE) ELSE Only(Recovering)
    BY <1>1, <2>2, <1>8 DEF OpenGate, Assess, Found
  <2>4. Found("safe") /\ Turns("safe")
    BY <2>3 DEF Turns
  <2>5. Holds("safe", 0)
    BY <2>3 DEF Holds, Base
  <2> QED BY <1>1, <2>4, <2>5 DEF Goal
<1>9. ASSUME NEW n \in 0..1, NEW a \in Agents, Reopen(a, n) PROVE Goal
  <2> DEFINE target == [b \in DOMAIN roster |-> IF b = a THEN Relax(roster[b].state)
                                                ELSE roster[b].state]
  <2>1. Found("safe") /\ Turns("safe") /\ MayReopen
        /\ Batch(target, Recovering, [Recovering EXCEPT !.acted = 0], n)
    BY <1>0, <1>1, LeftIs, <1>9 DEF Reopen, Turns, Assess, Found
  <2>2. \A b \in DOMAIN roster : roster[b].state \in LogicalState
    BY DEF TypeInv, LedgerTypes, IsRoster, IsSome, LogicalAgent
  <2>3. target \in [DOMAIN roster -> LogicalState]
    BY <2>2, LevelsAre DEF Relax
  <2> HIDE DEF target
  <2>4. Holds("safe", n)
    BY <2>1, <2>3 DEF Holds, Base
  <2> QED BY <1>1, <2>1, <2>4 DEF Goal
<1>10. ASSUME NEW T \in SUBSET Lowerable, NEW blindShare \in BOOLEAN, NEW emergency \in BOOLEAN,
              NEW n \in 0..1, Brake(T, blindShare, emergency, n)
       PROVE  Goal
  <2> DEFINE failed == IF blindShare /\ ~ctl.gate THEN 1 ELSE 0
             target == Lowered(T, emergency)
  <2>0. n + failed \in 0..2
    OBVIOUS
  <2>1. Found("due") /\ Turns("due")
        /\ Batch(target, Alarmed, [Alarmed EXCEPT !.acted = 0], n)
    BY <1>0, <1>1, <2>0, LeftIs, <1>10 DEF Brake, Turns, Assess, Found
  <2>2. \A b \in DOMAIN roster : roster[b].state \in LogicalState
    BY DEF TypeInv, LedgerTypes, IsRoster, IsSome, LogicalAgent
  <2>3. target \in [DOMAIN roster -> LogicalState]
        /\ \A b \in DOMAIN roster : target[b] >= roster[b].state
    BY <2>2, LevelsAre DEF Tighten, Lowered
  <2> HIDE DEF target, failed
  <2>4. Holds("due", n)
    BY <2>1, <2>3 DEF Holds, Base
  <2> QED BY <1>1, <2>1, <2>4 DEF Goal
<1> QED BY <1>2, <1>3, <1>4, <1>5, <1>6, <1>7, <1>8, <1>9, <1>10, <1>11 DEF Contain, Goal

\* A batch moves restrictions and nothing else.
LEMMA MovedIs ==
    ASSUME IsRoster(roster), epoch \in Nat, since \in [Agents -> Nat],
           NEW target \in [DOMAIN roster -> LogicalState]
    PROVE  /\ IsRoster(Moved(target)) /\ DOMAIN Moved(target) = DOMAIN roster
           /\ \A a \in DOMAIN roster :
                /\ Moved(target)[a].state = target[a]
                /\ Moved(target)[a].active = roster[a].active
                /\ Moved(target)[a].receipt = roster[a].receipt
           /\ MovedSince(target) \in [Agents -> Nat]
<1>1. DOMAIN Moved(target) = DOMAIN roster /\ DOMAIN roster \subseteq Agents
  BY DEF Moved, IsRoster, IsSome
<1>2. ASSUME NEW a \in DOMAIN roster
      PROVE  /\ Moved(target)[a] \in LogicalAgent(None)
             /\ Moved(target)[a].state = target[a]
             /\ Moved(target)[a].active = roster[a].active
             /\ Moved(target)[a].receipt = roster[a].receipt
  <2>1. roster[a] \in LogicalAgent(None) /\ target[a] \in LogicalState /\ epoch + 1 \in Nat
    BY <1>2 DEF IsRoster, IsSome
  <2>2. CASE target[a] = roster[a].state
    <3>1. Moved(target)[a] = roster[a]
      BY <2>2 DEF Moved
    <3> QED BY <2>1, <2>2, <3>1
  <2>3. CASE target[a] # roster[a].state
    <3> DEFINE t == target[a]
               r == roster[a]
    <3>1. Moved(target)[a] = [r EXCEPT !.state = t, !.epoch = epoch + 1]
      BY <2>3 DEF Moved
    <3> HIDE DEF t, r
    <3>2. /\ [r EXCEPT !.state = t, !.epoch = epoch + 1] \in LogicalAgent(None)
          /\ [r EXCEPT !.state = t, !.epoch = epoch + 1].state = t
          /\ [r EXCEPT !.state = t, !.epoch = epoch + 1].active = r.active
          /\ [r EXCEPT !.state = t, !.epoch = epoch + 1].receipt = r.receipt
      BY <2>1 DEF LogicalAgent, t, r
    <3> QED BY <3>1, <3>2 DEF t, r
  <2> QED BY <2>2, <2>3
<1>3. IsRoster(Moved(target))
  <2>1. Moved(target) = [a \in DOMAIN roster |-> Moved(target)[a]]
    BY DEF Moved
  <2> QED BY <1>1, <1>2, <2>1 DEF IsRoster, IsSome
<1>4. MovedSince(target) \in [Agents -> Nat]
  BY DEF MovedSince
<1> QED BY <1>1, <1>2, <1>3, <1>4

\* What a pass does to the ledger and the file: they part in clocks alone, and
\* only a calm pass lowers a restriction or opens the gate, the gate last.
LEMMA HoldsIs ==
    ASSUME AppContainmentAssumption, LedgerTypes, NEW s, NEW n, Holds(s, n)
    PROVE  /\ LedgerTypes'
           /\ ctl'.recovery = Base(s).recovery
           /\ \/ /\ UNCHANGED <<roster, epoch>>
                 /\ disk'.roster = disk.roster /\ disk'.epoch = disk.epoch
              \/ disk'.roster = roster' /\ disk'.epoch = epoch'
           /\ \/ ctl'.gate = ctl.gate /\ disk'.ctl.gate = disk.ctl.gate
              \/ disk'.ctl.gate = ctl'.gate
           /\ DOMAIN roster' = DOMAIN roster
           /\ \A a \in DOMAIN roster : /\ roster'[a].active = roster[a].active
                                       /\ roster'[a].receipt = roster[a].receipt
           /\ \/ s = "safe" /\ MayReopen
              \/ /\ ctl.gate => ctl'.gate
                 /\ \A a \in DOMAIN roster : roster'[a].state >= roster[a].state
           /\ ctl.gate /\ ~ctl'.gate => UNCHANGED roster /\ (Limited = {} \/ unsaved')
<1> DEFINE c == Base(s)
<1>1. c \in Control /\ c.gate = ctl.gate
  BY ControlsAre DEF Base, LedgerTypes
<1>2. /\ DOMAIN roster \subseteq Agents
      /\ \A a \in DOMAIN roster : roster[a].state \in Nat /\ roster[a].state >= roster[a].state
  BY LevelsAre DEF LedgerTypes, IsRoster, IsSome, LogicalAgent
<1>3. CASE Only(c)
  BY <1>1, <1>2, <1>3 DEF Only, LedgerTypes
<1>4. ASSUME NEW on \in BOOLEAN, SetGate(c, on)
      PROVE  /\ LedgerTypes' /\ ctl'.gate = on /\ ctl'.recovery = c.recovery
             /\ UNCHANGED <<roster, epoch>>
             /\ disk'.roster = roster' /\ disk'.epoch = epoch' /\ disk'.ctl = ctl'
  <2>1. /\ ctl' = [c EXCEPT !.gate = on, !.acted = 0]
        /\ disk' = Ledger(roster, epoch, ctl', since) /\ UNCHANGED <<roster, epoch, since>>
    BY <1>4 DEF SetGate
  <2>2. ctl' \in Control /\ ctl'.gate = on /\ ctl'.recovery = c.recovery
    BY <1>1, <2>1, StampedIs
  <2>3. IsLedger(disk') /\ disk'.roster = roster /\ disk'.epoch = epoch /\ disk'.ctl = ctl'
    BY <2>1, <2>2, LedgerIs DEF LedgerTypes
  <2> QED BY <2>1, <2>2, <2>3 DEF LedgerTypes
<1>5. CASE s # "safe" /\ SetGate(c, TRUE)
  BY <1>1, <1>2, <1>4, <1>5
<1>6. CASE s = "safe" /\ MayReopen /\ (Limited = {} \/ unsaved') /\ SetGate(c, FALSE)
  BY <1>1, <1>2, <1>4, <1>6
<1>7. ASSUME NEW target \in [DOMAIN roster -> LogicalState],
             Batch(target, c, [c EXCEPT !.acted = 0], n)
      PROVE  /\ LedgerTypes' /\ ctl'.gate = ctl.gate /\ ctl'.recovery = c.recovery
             /\ disk'.roster = roster' /\ disk'.epoch = epoch' /\ disk'.ctl.gate = ctl'.gate
             /\ DOMAIN roster' = DOMAIN roster
             /\ \A a \in DOMAIN roster : /\ roster'[a].active = roster[a].active
                                         /\ roster'[a].receipt = roster[a].receipt
                                         /\ roster'[a].state = target[a]
  <2> DEFINE d == [c EXCEPT !.acted = 0]
  <2>1. /\ roster' = Moved(target) /\ epoch' = epoch + 1
        /\ since' = MovedSince(target) /\ ctl' = d
        /\ disk' = Ledger(roster', epoch', IF n = 0 THEN d ELSE c, since')
    BY <1>7 DEF Batch
  <2>2. d \in Control /\ d.gate = ctl.gate /\ d.recovery = c.recovery
    BY <1>1, StampedIs
  <2> DEFINE e == IF n = 0 THEN d ELSE c
  <2>3. e \in Control /\ e.gate = ctl.gate
    BY <1>1, <2>2
  <2> HIDE DEF d, e
  <2>4. /\ IsRoster(roster') /\ epoch' \in Nat /\ since' \in [Agents -> Nat]
        /\ DOMAIN roster' = DOMAIN roster
        /\ \A a \in DOMAIN roster : /\ roster'[a].active = roster[a].active
                                    /\ roster'[a].receipt = roster[a].receipt
                                    /\ roster'[a].state = target[a]
    BY <2>1, MovedIs DEF LedgerTypes
  <2>5. disk' = Ledger(roster', epoch', e, since')
    BY <2>1 DEF e
  <2>6. IsLedger(disk') /\ disk'.roster = roster' /\ disk'.epoch = epoch' /\ disk'.ctl = e
    BY <2>3, <2>4, <2>5, LedgerIs
  <2> QED BY <2>1, <2>2, <2>3, <2>4, <2>6 DEF LedgerTypes
<1>8. ASSUME NEW target \in [DOMAIN roster -> LogicalState],
             Batch(target, c, [c EXCEPT !.acted = 0], n),
             \/ s = "safe" /\ MayReopen
             \/ \A a \in DOMAIN roster : target[a] >= roster[a].state
      PROVE  /\ LedgerTypes' /\ ctl'.gate = ctl.gate /\ ctl'.recovery = c.recovery
             /\ disk'.roster = roster' /\ disk'.epoch = epoch' /\ disk'.ctl.gate = ctl'.gate
             /\ DOMAIN roster' = DOMAIN roster
             /\ \A a \in DOMAIN roster : /\ roster'[a].active = roster[a].active
                                         /\ roster'[a].receipt = roster[a].receipt
             /\ \/ s = "safe" /\ MayReopen
                \/ \A a \in DOMAIN roster : roster'[a].state >= roster[a].state
  BY <1>7, <1>8
<1> HIDE DEF c
<1>9. CASE \E target \in [DOMAIN roster -> LogicalState] :
              /\ Batch(target, c, [c EXCEPT !.acted = 0], n)
              /\ \/ s = "safe" /\ MayReopen
                 \/ \A a \in DOMAIN roster : target[a] >= roster[a].state
  BY <1>8, <1>9 DEF c
<1> QED BY <1>3, <1>5, <1>6, <1>9, Zenon DEF Holds, c

-----------------------------------------------------------------------------
(* drain_hook_observations: what it makes of the roster.                   *)

\* Epochs of a drain.
LEMMA EpochsAre ==
    ASSUME TypeInv
    PROVE  /\ \A o \in queue : EpochAt(o) \in Nat
           /\ epoch + Cardinality(Opening) \in Nat
           /\ queue = {} => Cardinality(Opening) = 0
<1>1. IsFiniteSet(queue) /\ epoch \in Nat
  BY DEF TypeInv, HookTypes, LedgerTypes
<1>2. IsFiniteSet(Opening) /\ Cardinality(Opening) \in Nat
  <2>1. Opening \subseteq queue
    BY DEF Opening
  <2> QED BY <1>1, <2>1, FS_Subset, FS_CardinalityType
<1>3. ASSUME NEW o \in queue PROVE EpochAt(o) \in Nat
  <2> DEFINE before == {p \in Opening : p.at < o.at}
  <2>1. IsFiniteSet(before)
    BY <1>2, FS_Subset
  <2>2. Cardinality(before) \in Nat
    BY <2>1, FS_CardinalityType
  <2> QED BY <1>1, <2>2 DEF EpochAt
<1>4. queue = {} => Opening = {}
  BY DEF Opening
<1> QED BY <1>1, <1>2, <1>3, <1>4, FS_EmptySet

\* What the observation o makes of the agent a.
TakenFrom(a, o) ==
    \E r \in LogicalAgent(None), e \in Nat :
        /\ Applied[a] = ApplyObservation(r, o, e, None)
        /\ IF a \in DOMAIN roster THEN r = roster[a] ELSE r.active /\ r.receipt = None

\* A drain takes each agent's record from its observation, or leaves it.
LEMMA AppliedIs ==
    ASSUME TypeInv
    PROVE  /\ IsRoster(Applied)
           /\ DOMAIN Applied = DOMAIN roster \union {o.agent : o \in queue}
           /\ \A a \in DOMAIN Applied :
                \/ \E o \in queue : o.agent = a /\ TakenFrom(a, o)
                \/ /\ \A o \in queue : o.agent # a
                   /\ a \in DOMAIN roster /\ Applied[a] = roster[a]
<1>1. /\ IsRoster(roster) /\ queue \subseteq Observation /\ epoch \in Nat
      /\ DOMAIN Applied = DOMAIN roster \union {o.agent : o \in queue}
  BY DEF TypeInv, LedgerTypes, HookTypes, Applied
<1>2. ASSUME NEW a \in DOMAIN Applied
      PROVE  /\ Applied[a] \in LogicalAgent(None)
             /\ \/ \E o \in queue : o.agent = a /\ TakenFrom(a, o)
                \/ /\ \A o \in queue : o.agent # a
                   /\ a \in DOMAIN roster /\ Applied[a] = roster[a]
  <2>1. CASE \E o \in queue : o.agent = a
    <3> DEFINE o == CHOOSE p \in queue : p.agent = a
               r == IF a \in DOMAIN roster THEN roster[a] ELSE NewAgent(o.at, EpochAt(o), None)
    <3>1. o \in queue /\ o.agent = a
      BY <2>1
    <3>2. o \in Observation /\ o.at \in Nat /\ EpochAt(o) \in Nat
      BY <1>1, <3>1, EpochsAre DEF Observation
    <3>3. Applied[a] = ApplyObservation(r, o, EpochAt(o), None)
      BY <1>1, <1>2, <2>1 DEF Applied
    <3> HIDE DEF o
    <3>4. r \in LogicalAgent(None)
          /\ IF a \in DOMAIN roster THEN r = roster[a] ELSE r.active /\ r.receipt = None
      BY <1>1, <3>2, NewAgentType DEF IsRoster, IsSome
    <3> HIDE DEF r
    <3>5. Applied[a] \in LogicalAgent(None)
      BY <3>2, <3>3, <3>4, Observed
    <3>6. TakenFrom(a, o)
      BY <3>2, <3>3, <3>4 DEF TakenFrom
    <3> QED BY <3>1, <3>5, <3>6
  <2>2. CASE ~\E o \in queue : o.agent = a
    <3>1. a \in DOMAIN roster /\ Applied[a] = roster[a]
      BY <1>1, <1>2, <2>2 DEF Applied
    <3> QED BY <1>1, <2>2, <3>1 DEF IsRoster, IsSome
  <2> QED BY <2>1, <2>2
<1>3. Applied = [a \in DOMAIN Applied |-> Applied[a]]
  BY DEF Applied
<1>4. DOMAIN Applied \subseteq Agents
  BY <1>1 DEF IsRoster, IsSome, Observation
<1> QED BY <1>1, <1>2, <1>3, <1>4 DEF IsRoster, IsSome

-----------------------------------------------------------------------------
(* Every step keeps the types.                                             *)

\* Hooks keep the types.
LEMMA HookTypeStep ==
    ASSUME AppContainmentAssumption, TypeInv, NEW a \in Agents, Hook(a)
    PROVE  TypeInv'
<1>1. /\ UNCHANGED <<ledgerVars, disk, pub, pc, sig, paused, left, historyVars>>
      /\ \/ Waits(a)
         \/ \E event \in HookEvents, blocked, fresh \in BOOLEAN,
               read \in Reading \union {None}, next \in Works :
                 Observes(a, event, blocked, fresh, read, next)
  BY HookIs
<1>2. LedgerTypes' /\ RestTypes'
  BY <1>1 DEF TypeInv, LedgerTypes, RestTypes, ledgerVars, historyVars, IsLedger
<1>3. HookTypes /\ RestTypes
  BY DEF TypeInv
<1>4. CASE Waits(a)
  <2>1. PICK class \in ToolClass :
          held' = [held EXCEPT ![a] = [class |-> class, read |-> Heard(Told(a))]]
    BY <1>4 DEF Waits
  <2>2. Heard(Told(a)) \in Reading \union {None}
    BY <1>3, ToldIs, ReadingsAre
  <2>3. held' \in [Agents -> [class : ToolClass, read : Reading \union {None}] \union {None}]
    BY <1>3, <2>1, <2>2 DEF HookTypes
  <2>4. HookTypes'
    BY <1>3, <1>4, <2>3 DEF HookTypes, Waits
  <2> QED BY <1>2, <2>4 DEF TypeInv
<1>5. ASSUME NEW event \in HookEvents, NEW blocked \in BOOLEAN, NEW fresh \in BOOLEAN,
             NEW read \in Reading \union {None}, NEW next \in Works,
             Observes(a, event, blocked, fresh, read, next)
      PROVE  HookTypes'
  <2>1. Record(a, event, blocked, fresh, read) /\ doing' = [doing EXCEPT ![a] = next]
        /\ (held' = held \/ held' = [held EXCEPT ![a] = None])
    BY <1>5 DEF Observes
  <2> DEFINE o == [agent |-> a, event |-> event, weight |-> NoTool, blocked |-> blocked,
                   at |-> clock + 1, receipt |-> Receipt(read)]
  <2>2. Receipt(read) \in Reading \union {None} /\ clock + 1 \in Nat
    BY <1>3, ReadingsAre DEF HookTypes
  <2>3. o \in Observation
    BY <2>2 DEF Observation
  <2>4. clock' = clock + 1 /\ queue' = (IF fresh THEN queue \union {o} ELSE queue)
        /\ saw' = [saw EXCEPT ![a] = IF fresh THEN Receipt(read) ELSE None]
        /\ blind' \subseteq blind \union {a}
    BY <2>1 DEF Record
  <2> HIDE DEF o
  <2>5. queue' \subseteq Observation /\ IsFiniteSet(queue')
    BY <1>3, <2>3, <2>4, FS_AddElement DEF HookTypes
  <2>6. saw' \in [Agents -> Reading \union {None}]
    BY <1>3, <2>2, <2>4 DEF HookTypes
  <2>7. /\ doing' \in [Agents -> Works]
        /\ held' \in [Agents -> [class : ToolClass, read : Reading \union {None}] \union {None}]
    BY <1>3, <2>1 DEF HookTypes
  <2> QED BY <1>3, <2>2, <2>4, <2>5, <2>6, <2>7 DEF HookTypes
<1> QED BY <1>1, <1>2, <1>4, <1>5 DEF TypeInv

\* A drain keeps the types.
LEMMA DrainedTypeStep ==
    ASSUME AppContainmentAssumption, TypeInv, Drained
    PROVE  TypeInv'
<1>1. IsRoster(Applied) /\ epoch + Cardinality(Opening) \in Nat
  BY AppliedIs, EpochsAre
<1>2. HookTypes /\ LedgerTypes /\ RestTypes
  BY DEF TypeInv
<1>3. roster' = Applied /\ epoch' = epoch + Cardinality(Opening) /\ ctl' = ctl
      /\ since' = [a \in Agents |->
                     IF \E o \in queue : o.agent = a /\ o.event \in Lifecycle
                     THEN 0 ELSE since[a]]
      /\ disk' = IF queue = {} THEN disk ELSE Ledger(roster', epoch', ctl, since')
  BY DEF Drained
<1>4. since' \in [Agents -> Nat]
  BY <1>2, <1>3 DEF LedgerTypes
<1>5. IsLedger(disk')
  BY <1>1, <1>2, <1>3, <1>4, LedgerIs DEF LedgerTypes
<1>6. LedgerTypes'
  BY <1>1, <1>2, <1>3, <1>4, <1>5 DEF LedgerTypes
<1>7. HookTypes' /\ RestTypes'
  BY <1>2, FS_EmptySet DEF Drained, HookTypes, RestTypes
<1> QED BY <1>6, <1>7 DEF TypeInv

\* A pass keeps the types.
LEMMA ContainTypeStep ==
    ASSUME AppContainmentAssumption, TypeInv, Contain
    PROVE  TypeInv'
<1>1. HookTypes /\ LedgerTypes /\ RestTypes
  BY DEF TypeInv
<1>2. CASE SafeOpen
  <2>1. ctl' = [ctl EXCEPT !.recovery = None] /\ UNCHANGED <<roster, epoch, since, disk>>
        /\ Found("safe") /\ unseen' = FALSE /\ unsaved' = unsaved
    <3>1. 0 \in 0..2 /\ 0 <= left.faults /\ (Alarm("safe") => left.alarms > 0)
        /\ left' = [alarms |-> left.alarms - IF Alarm("safe") THEN 1 ELSE 0,
                    faults |-> left.faults - 0]
      BY <1>2 DEF SafeOpen, Assess
    <3>2. left' \in [alarms : Nat, faults : Nat]
      BY <1>1, <3>1, LeftIs
    <3> QED BY <1>2, <3>2 DEF SafeOpen, Assess, Only, Found
  <2>2. ctl' \in Control
    BY <1>1, <2>1, ControlsAre DEF LedgerTypes
  <2>3. LedgerTypes'
    BY <1>1, <2>1, <2>2 DEF LedgerTypes
  <2>4. HookTypes' /\ RestTypes'
    BY <1>1, <2>1 DEF Found, HookTypes, RestTypes, hookVars, Findings
  <2> QED BY <2>3, <2>4 DEF TypeInv
<1>3. ASSUME NEW s \in Findings, NEW m \in 0..2, Found(s), Holds(s, m), Turns(s)
      PROVE  TypeInv'
  <2>1. LedgerTypes'
    BY <1>1, <1>3, HoldsIs
  <2>2. HookTypes' /\ RestTypes'
    BY <1>1, <1>3 DEF Found, Turns, HookTypes, RestTypes, hookVars
  <2> QED BY <2>1, <2>2 DEF TypeInv
<1>4. ASSUME NEW s \in Findings, Skipped(s) PROVE TypeInv'
  <2>1. Found(s) /\ UNCHANGED <<ledgerVars, disk, unsaved>> /\ unseen' \in BOOLEAN
    BY <1>4, SkippedIs
  <2>2. LedgerTypes'
    BY <1>1, <2>1 DEF LedgerTypes, ledgerVars
  <2>3. HookTypes' /\ RestTypes'
    BY <1>1, <2>1 DEF Found, HookTypes, RestTypes, hookVars
  <2> QED BY <2>2, <2>3 DEF TypeInv
<1> QED BY <1>2, <1>3, <1>4, ContainIs

\* A new generation of the server: its agents are forgotten, and it is saved.
LEMMA ReplacedIs ==
    ASSUME AppContainmentAssumption, TypeInv, Replaced
    PROVE  /\ LedgerTypes' /\ HookTypes' /\ RestTypes'
           /\ DOMAIN roster' = DOMAIN roster
           /\ \A a \in DOMAIN roster :
                ~roster'[a].active /\ roster'[a].receipt = None /\ roster'[a].state = Active
           /\ ctl'.gate = ctl.gate /\ ctl'.recovery = 0
           /\ disk' = Ledger(roster', epoch', ctl', since') /\ epoch' = epoch
<1>1. HookTypes /\ LedgerTypes /\ RestTypes
  BY DEF TypeInv
<1>2. /\ roster' = [a \in DOMAIN roster |->
                     [roster[a] EXCEPT !.active = FALSE, !.state = Active, !.flight = NoTool,
                                      !.idle = TRUE, !.receipt = None]]
      /\ since' = [a \in Agents |-> IF a \in DOMAIN roster THEN 0 ELSE since[a]]
      /\ ctl' = [ctl EXCEPT !.acted = 0, !.recovery = 0]
      /\ disk' = Ledger(roster', epoch, ctl', since') /\ epoch' = epoch
  BY DEF Replaced
<1>3. ASSUME NEW a \in DOMAIN roster
      PROVE  /\ roster'[a] \in LogicalAgent(None) /\ ~roster'[a].active
             /\ roster'[a].receipt = None /\ roster'[a].state = Active
  <2> DEFINE r == roster[a]
  <2>1. roster'[a] = [r EXCEPT !.active = FALSE, !.state = Active, !.flight = NoTool,
                               !.idle = TRUE, !.receipt = None]
    BY <1>2
  <2>2. r \in LogicalAgent(None)
    BY <1>1, <1>3 DEF LedgerTypes, IsRoster, IsSome
  <2> HIDE DEF r
  <2> QED BY <2>1, <2>2, LevelsAre DEF LogicalAgent
<1>4. DOMAIN roster' = DOMAIN roster /\ IsRoster(roster')
  <2>1. DOMAIN roster' = DOMAIN roster /\ DOMAIN roster \subseteq Agents
        /\ roster' = [a \in DOMAIN roster' |-> roster'[a]]
    BY <1>1, <1>2 DEF LedgerTypes, IsRoster, IsSome
  <2> QED BY <1>3, <2>1 DEF IsRoster, IsSome
<1>5. ctl' \in Control /\ ctl'.gate = ctl.gate /\ ctl'.recovery = 0
  BY <1>1, <1>2 DEF LedgerTypes, Control
<1>6. since' \in [Agents -> Nat] /\ epoch' \in Nat
  BY <1>1, <1>2 DEF LedgerTypes
<1>7. IsLedger(disk')
  BY <1>2, <1>4, <1>5, <1>6, LedgerIs
<1>8. LedgerTypes'
  BY <1>4, <1>5, <1>6, <1>7 DEF LedgerTypes
<1>9. left' \in [alarms : Nat, faults : Nat]
  <2>1. Fault
    BY DEF Replaced
  <2> QED BY <1>1, <2>1 DEF Fault, RestTypes
<1>10. RestTypes'
  BY <1>1, <1>9 DEF Replaced, RestTypes
<1>11. HookTypes'
  BY <1>1 DEF Replaced, HookTypes, Works
<1> QED BY <1>2, <1>3, <1>4, <1>5, <1>8, <1>10, <1>11

\* The rest of the daemon's steps keep the types.
LEMMA DaemonTypeStep ==
    ASSUME AppContainmentAssumption, TypeInv,
           NotDrained \/ Pause \/ Resume \/ Publish \/ Crash \/ Downtime \/ Restart
    PROVE  TypeInv'
<1>1. HookTypes /\ LedgerTypes /\ RestTypes
  BY DEF TypeInv
<1>2. ASSUME Fault PROVE left' \in [alarms : Nat, faults : Nat]
  BY <1>1, <1>2 DEF Fault, RestTypes
<1>3. ASSUME UNCHANGED hookVars PROVE HookTypes'
  BY <1>1, <1>3 DEF HookTypes, hookVars
<1>4. ASSUME UNCHANGED <<ledgerVars, disk>> PROVE LedgerTypes'
  BY <1>1, <1>4 DEF LedgerTypes, ledgerVars
<1>5. CASE NotDrained
  BY <1>1, <1>2, <1>3, <1>4, <1>5 DEF NotDrained, TypeInv, RestTypes
<1>6. CASE Pause
  BY <1>1, <1>3, <1>4, <1>6 DEF Pause, TypeInv, RestTypes, historyVars
<1>7. CASE Resume
  BY <1>1, <1>3, <1>4, <1>7 DEF Resume, TypeInv, RestTypes, historyVars
<1>8. CASE Restart
  BY <1>1, <1>3, <1>4, <1>8 DEF Restart, TypeInv, RestTypes, historyVars
<1>9. ASSUME ctl' = OlderCtl(ctl), since' = OlderSince(since), UNCHANGED <<roster, epoch>>,
             disk' = [disk EXCEPT !.ctl = OlderCtl(disk.ctl), !.since = OlderSince(disk.since)]
      PROVE  LedgerTypes'
  <2> DEFINE c == OlderCtl(disk.ctl)
             s == OlderSince(disk.since)
  <2>1. /\ disk = Ledger(disk.roster, disk.epoch, disk.ctl, disk.since)
        /\ IsRoster(disk.roster) /\ disk.epoch \in Nat
        /\ disk.ctl \in Control /\ disk.since \in [Agents -> Nat]
    BY <1>1 DEF LedgerTypes, IsLedger, IsRoster
  <2>2. c \in Control /\ s \in [Agents -> Nat]
    BY <2>1, OlderIs
  <2>3. OlderCtl(ctl) \in Control /\ OlderSince(since) \in [Agents -> Nat]
    BY <1>1, OlderIs DEF LedgerTypes
  <2>4. disk' = [disk EXCEPT !.ctl = c, !.since = s]
    BY <1>9
  <2> HIDE DEF c, s
  <2>5. disk' = Ledger(disk.roster, disk.epoch, c, s)
    BY <2>1, <2>4 DEF Ledger
  <2>6. IsLedger(disk')
    BY <2>1, <2>2, <2>5, LedgerIs
  <2> QED BY <1>1, <1>9, <2>3, <2>6 DEF LedgerTypes
<1>10. CASE Publish
  <2>1. LedgerTypes'
    BY <1>9, <1>10 DEF Publish
  <2>2. /\ pub' = [fresh |-> pub'.fresh, gate |-> pub'.gate, agents |-> pub'.agents]
        /\ pub'.fresh \in BOOLEAN /\ pub'.gate \in BOOLEAN /\ IsSome(pub'.agents, Reading)
    BY <1>1, <1>10, StateType DEF Publish, LedgerTypes
  <2>3. quiet' \in Nat
    BY <1>1, <1>10, NoneIs DEF Publish, RestTypes, Older
  <2>4. RestTypes'
    BY <1>1, <1>10, <2>2, <2>3 DEF Publish, RestTypes
  <2> QED BY <1>3, <1>10, <2>1, <2>4 DEF Publish, TypeInv
<1>11. CASE Downtime
  <2>1. LedgerTypes'
    BY <1>9, <1>11 DEF Downtime
  <2>2. /\ pub' = [fresh |-> pub'.fresh, gate |-> pub'.gate, agents |-> pub'.agents]
        /\ pub'.fresh \in BOOLEAN /\ pub'.gate \in BOOLEAN /\ IsSome(pub'.agents, Reading)
    BY <1>1, <1>11 DEF Downtime, RestTypes
  <2>3. RestTypes'
    BY <1>1, <1>11, <2>2 DEF Downtime, RestTypes
  <2> QED BY <1>3, <1>11, <2>1, <2>3 DEF Downtime, TypeInv
<1>12. CASE Crash
  <2>1. LedgerTypes'
    BY <1>1, <1>12 DEF Crash, LedgerTypes, IsLedger, IsRoster
  <2>2. RestTypes'
    BY <1>1, <1>2, <1>12 DEF Crash, RestTypes
  <2> QED BY <1>3, <1>12, <2>1, <2>2 DEF Crash, TypeInv
<1> QED BY <1>5, <1>6, <1>7, <1>8, <1>10, <1>11, <1>12

\* Every step keeps the types.
LEMMA TypeStep ==
    ASSUME AppContainmentAssumption, TypeInv, [Next]_vars
    PROVE  TypeInv'
<1>1. CASE UNCHANGED vars
  BY <1>1 DEF vars, hookVars, ledgerVars, historyVars, TypeInv, HookTypes, LedgerTypes,
              RestTypes
<1>2. CASE Next
  BY <1>2, HookTypeStep, DrainedTypeStep, ContainTypeStep, ReplacedIs, DaemonTypeStep
     DEF Next, Daemon, TypeInv
<1> QED BY <1>1, <1>2

(* Every variable has its type, whatever the hooks, the findings, the        *)
(* faults and the crashes.                                                   *)
THEOREM TypeCorrect == ASSUME AppContainmentAssumption PROVE Spec => []AppTypeOK
<1>1. Init => TypeInv
  BY InitType
<1>2. TypeInv /\ [Next]_vars => TypeInv'
  BY TypeStep
<1>3. TypeInv => AppTypeOK
  BY TypeParts
<1> QED BY <1>1, <1>2, <1>3, PTL DEF Spec

-----------------------------------------------------------------------------
(* The gate opens last, and nothing is released before memory was calm.    *)

\* What the daemon would start from is the roster it has.
SavedInv ==
    roster = disk.roster /\ epoch = disk.epoch /\ ctl.gate = disk.ctl.gate

\* recovery_since is no older than the calm, unless it outlived a crash or a
\* danger nobody looked at.
CalmInv ==
    /\ ctl.recovery # None => unseen \/ quiet >= ctl.recovery
    /\ pc \in {"pause", "publish"} /\ sig # "safe" => ctl.recovery = None \/ unseen
    /\ pc = "down" /\ ctl.recovery # None => unseen

CalmSavedInv == TypeInv /\ SavedInv /\ CalmInv

\* A step that changes neither the ledger nor the file.
LEMMA LedgerStill ==
    ASSUME CalmSavedInv, UNCHANGED <<ledgerVars, disk, quiet, unseen>>,
           pc' \in {"pause", "publish"} => pc' = pc \/ pc \in {"pause", "publish"},
           sig' = sig, pc' = "down" => pc = "down"
    PROVE  SavedInv' /\ CalmInv' /\ GateLast /\ AppCalmFirst
<1>1. ~Released
  <2>1. \A a \in AppActive : roster[a].state \in Nat
    BY LevelsAre DEF CalmSavedInv, TypeInv, LedgerTypes, IsRoster, IsSome, LogicalAgent,
                     AppActive, ActiveIn
  <2> QED BY <2>1 DEF Released, ledgerVars
<1> QED BY <1>1 DEF CalmSavedInv, SavedInv, CalmInv, GateLast, AppCalmFirst, ledgerVars

\* A pass: what was saved is what it has, and it releases only after calm.
LEMMA ContainCalm ==
    ASSUME AppContainmentAssumption, CalmSavedInv, Contain
    PROVE  SavedInv' /\ CalmInv' /\ GateLast /\ AppCalmFirst
<1>1. LedgerTypes /\ SavedInv /\ CalmInv /\ ctl \in Control /\ quiet \in Nat
  BY DEF CalmSavedInv, TypeInv, LedgerTypes, RestTypes
<1>2. \A a \in AppActive : a \in DOMAIN roster /\ roster[a].state \in Nat
  BY <1>1, LevelsAre DEF LedgerTypes, IsRoster, IsSome, LogicalAgent, AppActive, ActiveIn
<1>3. CASE SafeOpen
  <2>1. /\ ctl' = [ctl EXCEPT !.recovery = None] /\ UNCHANGED <<roster, epoch, since, disk>>
        /\ ~ctl.gate /\ pc' = "pause" /\ sig' = "safe"
    BY <1>3 DEF SafeOpen, Only, Assess
  <2>2. ctl'.gate = ctl.gate /\ ctl'.recovery = None
    BY <1>1, <2>1 DEF Control
  <2> QED BY <1>1, <1>2, <2>1, <2>2
          DEF SavedInv, CalmInv, GateLast, AppCalmFirst, Released
<1>4. ASSUME NEW s \in Findings, NEW m \in 0..2, Found(s), Holds(s, m), Turns(s)
      PROVE  SavedInv' /\ CalmInv' /\ GateLast /\ AppCalmFirst
  <2>1. /\ ctl'.recovery = Base(s).recovery
        /\ \/ /\ UNCHANGED <<roster, epoch>>
              /\ disk'.roster = disk.roster /\ disk'.epoch = disk.epoch
           \/ disk'.roster = roster' /\ disk'.epoch = epoch'
        /\ \/ ctl'.gate = ctl.gate /\ disk'.ctl.gate = disk.ctl.gate
           \/ disk'.ctl.gate = ctl'.gate
        /\ \/ s = "safe" /\ MayReopen
           \/ /\ ctl.gate => ctl'.gate
              /\ \A a \in DOMAIN roster : roster'[a].state >= roster[a].state
        /\ ctl.gate /\ ~ctl'.gate => UNCHANGED roster /\ (Limited = {} \/ unsaved')
        /\ LedgerTypes' /\ DOMAIN roster' = DOMAIN roster
    BY <1>1, <1>4, HoldsIs
  <2>2. SavedInv'
    BY <1>1, <2>1 DEF SavedInv
  <2>3. CalmInv'
    BY <1>1, <1>4, <2>1, ControlsAre, NoneIs DEF CalmInv, Found, Turns, Base
  <2>4. GateLast
    BY <2>1 DEF GateLast, Limited
  <2>5. CASE s = "safe" /\ MayReopen
    <3>1. ~paused /\ (quiet >= 2 * Reaction \/ unseen)
      BY <1>1, <2>5, ControlsAre, NoneIs DEF MayReopen, CalmInv, Control
    <3> QED BY <2>2, <2>3, <2>4, <3>1 DEF AppCalmFirst
  <2>6. CASE /\ ctl.gate => ctl'.gate
             /\ \A a \in DOMAIN roster : roster'[a].state >= roster[a].state
    <3>1. \A a \in DOMAIN roster : roster'[a].state \in Nat
      BY <2>1, LevelsAre DEF LedgerTypes, IsRoster, IsSome, LogicalAgent
    <3>2. ~Released
      BY <1>2, <2>6, <3>1 DEF Released
    <3> QED BY <2>2, <2>3, <2>4, <3>2 DEF AppCalmFirst
  <2> QED BY <2>1, <2>5, <2>6
<1>5. ASSUME NEW s \in Findings, Skipped(s)
      PROVE  SavedInv' /\ CalmInv' /\ GateLast /\ AppCalmFirst
  <2>1. /\ Found(s) /\ UNCHANGED <<ledgerVars, disk, unsaved>>
        /\ unseen' = (unseen \/ (s # "safe" /\ ctl.recovery # None))
    BY <1>5, SkippedIs DEF CalmSavedInv
  <2>2. SavedInv'
    BY <1>1, <2>1 DEF SavedInv, ledgerVars
  <2>3. ASSUME s = "safe" PROVE CalmInv'
    <3>1. sig' = "safe" /\ quiet' = quiet /\ pc' # "down" /\ ctl' = ctl
      BY <2>1, <2>3 DEF Found, ledgerVars
    <3>2. unseen => unseen'
      BY <2>1
    <3> QED BY <1>1, <3>1, <3>2 DEF CalmInv
  <2>4. ASSUME s # "safe" PROVE CalmInv'
    <3>1. pc' # "down" /\ ctl' = ctl
      BY <2>1 DEF Found, ledgerVars
    <3>2. ctl.recovery = None \/ unseen'
      BY <2>1, <2>4
    <3> QED BY <3>1, <3>2 DEF CalmInv
  <2>5. ~Released
    BY <1>2, <2>1 DEF Released, ledgerVars
  <2>6. GateLast /\ AppCalmFirst
    BY <2>1, <2>5 DEF GateLast, AppCalmFirst, ledgerVars
  <2> QED BY <2>2, <2>3, <2>4, <2>6
<1> QED BY <1>3, <1>4, <1>5, ContainIs DEF CalmSavedInv

\* Every step keeps the file and the clocks, and releases only after calm.
LEMMA CalmStep ==
    ASSUME AppContainmentAssumption, CalmSavedInv, [Next]_vars
    PROVE  SavedInv' /\ CalmInv' /\ (UNCHANGED vars \/ (GateLast /\ AppCalmFirst))
<1> DEFINE Goal == SavedInv' /\ CalmInv' /\ GateLast /\ AppCalmFirst
<1>1. /\ LedgerTypes /\ SavedInv /\ CalmInv /\ TypeInv
      /\ ctl \in Control /\ quiet \in Nat /\ since \in [Agents -> Nat]
      /\ disk.ctl \in Control /\ disk.since \in [Agents -> Nat] /\ Reaction \in Nat
      /\ None \notin Nat
  BY NoneIs DEF CalmSavedInv, TypeInv, LedgerTypes, RestTypes, IsLedger
<1>2. ~\E a \in AppActive : roster[a].state < roster[a].state
  BY <1>1, LevelsAre DEF LedgerTypes, IsRoster, IsSome, LogicalAgent, AppActive, ActiveIn
<1>3. CASE UNCHANGED vars
  BY <1>1, <1>3 DEF vars, ledgerVars, historyVars, SavedInv, CalmInv
<1>4. ASSUME NEW a \in Agents, Hook(a) PROVE Goal
  <2>1. UNCHANGED <<ledgerVars, disk, pub, pc, sig, paused, left, historyVars>>
    BY <1>1, <1>4, HookIs
  <2> QED BY <2>1, LedgerStill DEF historyVars
<1>5. ASSUME NotDrained PROVE Goal
  BY <1>5, LedgerStill DEF NotDrained
<1>6. ASSUME Pause PROVE Goal
  BY <1>6, LedgerStill DEF Pause, historyVars
<1>7. ASSUME Resume PROVE Goal
  BY <1>7, LedgerStill DEF Resume, historyVars
<1>8. ASSUME Restart PROVE Goal
  BY <1>8, LedgerStill DEF Restart, historyVars
<1>9. ASSUME Contain PROVE Goal
  BY <1>9, ContainCalm
<1>10. ASSUME Drained PROVE Goal
  <2>1. /\ pc = "tick" /\ pc' = "contain" /\ roster' = Applied
        /\ epoch' = epoch + Cardinality(Opening)
        /\ UNCHANGED <<ctl, sig, quiet, unseen>>
        /\ disk' = IF queue = {} THEN disk ELSE Ledger(roster', epoch', ctl, since')
    BY <1>10 DEF Drained
  <2>2. CASE queue = {}
    <3>1. roster' = roster
      <4>1. roster' = [a \in DOMAIN roster |-> roster[a]]
        BY <2>1, <2>2 DEF Applied
      <4> QED BY <1>1, <4>1 DEF LedgerTypes, IsRoster, IsSome
    <3>2. epoch' = epoch
      BY <1>1, <2>1, <2>2, EpochsAre DEF LedgerTypes
    <3> QED BY <1>1, <2>1, <2>2, <3>1, <3>2 DEF SavedInv, CalmInv, GateLast, AppCalmFirst
  <2>3. CASE queue # {}
    <3>1. disk'.roster = roster' /\ disk'.epoch = epoch' /\ disk'.ctl = ctl
      BY <2>1, <2>3, LedgerIs
    <3> QED BY <1>1, <2>1, <3>1 DEF SavedInv, CalmInv, GateLast, AppCalmFirst
  <2> QED BY <2>2, <2>3
<1>11. ASSUME Replaced PROVE Goal
  <2>1. /\ DOMAIN roster' = DOMAIN roster
        /\ \A a \in DOMAIN roster : ~roster'[a].active
        /\ ctl'.gate = ctl.gate /\ ctl'.recovery = 0
        /\ disk' = Ledger(roster', epoch', ctl', since')
    BY <1>1, <1>11, ReplacedIs
  <2>2. disk'.roster = roster' /\ disk'.epoch = epoch' /\ disk'.ctl = ctl'
    BY <2>1, LedgerIs
  <2>3. pc = "contain" /\ pc' = pc /\ quiet' = 0
    BY <1>11 DEF Replaced
  <2>4. AppActive \subseteq DOMAIN roster
    BY DEF AppActive, ActiveIn
  <2> QED BY <2>1, <2>2, <2>3, <2>4
          DEF SavedInv, CalmInv, GateLast, AppCalmFirst, Released
<1>12. ASSUME ctl' = OlderCtl(ctl), UNCHANGED <<roster, epoch>>,
              disk' = [disk EXCEPT !.ctl = OlderCtl(disk.ctl), !.since = OlderSince(disk.since)]
       PROVE  /\ SavedInv' /\ ctl'.gate = ctl.gate
              /\ ctl'.recovery = Older(ctl.recovery, 2 * Reaction)
  <2> DEFINE c == OlderCtl(disk.ctl)
             s == OlderSince(disk.since)
  <2>1. disk = Ledger(disk.roster, disk.epoch, disk.ctl, disk.since)
    BY <1>1 DEF LedgerTypes, IsLedger
  <2>2. c.gate = disk.ctl.gate /\ ctl'.gate = ctl.gate
        /\ ctl'.recovery = Older(ctl.recovery, 2 * Reaction)
    BY <1>1, <1>12, OlderIs
  <2>3. disk' = [disk EXCEPT !.ctl = c, !.since = s]
    BY <1>12
  <2> HIDE DEF c, s
  <2>4. disk'.roster = disk.roster /\ disk'.epoch = disk.epoch /\ disk'.ctl = c
    BY <2>1, <2>3 DEF Ledger
  <2> QED BY <1>1, <1>12, <2>2, <2>4 DEF SavedInv
<1>13. ASSUME Publish PROVE Goal
  <2>1. /\ pc \in {"pause", "publish"} /\ pc' = "tick" /\ UNCHANGED <<roster, sig, unseen>>
        /\ quiet' = IF sig = "safe" THEN Older(quiet, 2 * Reaction) ELSE 0
    BY <1>13 DEF Publish
  <2>2. /\ SavedInv' /\ ctl'.gate = ctl.gate
        /\ ctl'.recovery = Older(ctl.recovery, 2 * Reaction)
    BY <1>12, <1>13 DEF Publish
  <2>3. ctl.recovery \in Nat \union {None}
    BY <1>1 DEF Control
  <2>4. CalmInv'
    BY <1>1, <2>1, <2>2, <2>3 DEF CalmInv, Older
  <2> QED BY <2>1, <2>2, <2>4 DEF GateLast, AppCalmFirst
<1>14. ASSUME Downtime PROVE Goal
  <2>1. /\ pc = "down" /\ pc' = "down" /\ UNCHANGED <<roster, sig, unseen, quiet>>
    BY <1>14 DEF Downtime
  <2>2. /\ SavedInv' /\ ctl'.gate = ctl.gate
        /\ ctl'.recovery = Older(ctl.recovery, 2 * Reaction)
    BY <1>12, <1>14 DEF Downtime
  <2>3. CalmInv'
    BY <1>1, <2>1, <2>2 DEF CalmInv, Older
  <2> QED BY <2>1, <2>2, <2>3 DEF GateLast, AppCalmFirst
<1>15. ASSUME Crash PROVE Goal
  <2>1. /\ roster' = disk.roster /\ epoch' = disk.epoch /\ ctl' = disk.ctl
        /\ unseen' = (disk.ctl.recovery # None) /\ disk' = disk /\ pc' = "down"
    BY <1>15 DEF Crash
  <2>2. SavedInv' /\ CalmInv' /\ roster' = roster /\ ctl'.gate = ctl.gate
    BY <1>1, <2>1 DEF SavedInv, CalmInv
  <2> QED BY <1>2, <2>2 DEF GateLast, AppCalmFirst, Released
<1>16. CASE Next
  BY <1>4, <1>5, <1>6, <1>7, <1>8, <1>9, <1>10, <1>11, <1>13, <1>14, <1>15, <1>16
     DEF Next, Daemon
<1> QED BY <1>3, <1>16

\* The daemon begins with what is saved.
LEMMA CalmInitially ==
    ASSUME AppContainmentAssumption, Init
    PROVE  CalmSavedInv
<1>1. PICK s \in Starts : InitWith(s.running, s.others, s.hooks, s.alarms, s.faults)
  BY DEF Init
<1>2. /\ disk = Ledger(roster, epoch, ctl, since) /\ pc = "tick"
      /\ ctl = [gate |-> FALSE, recovery |-> None, acted |-> Reaction]
  BY <1>1 DEF InitWith
<1>3. ctl.recovery = None
  BY <1>2
<1>4. disk.roster = roster /\ disk.epoch = epoch /\ disk.ctl = ctl
  BY <1>2, LedgerIs
<1> QED BY <1>2, <1>3, <1>4, InitType DEF CalmSavedInv, SavedInv, CalmInv

\* The inductive invariant of the gate and the clocks holds throughout.
LEMMA CalmSavedAlways == ASSUME AppContainmentAssumption PROVE Spec => []CalmSavedInv
<1>1. Init => CalmSavedInv
  BY CalmInitially
<1>2. CalmSavedInv /\ [Next]_vars => CalmSavedInv'
  BY CalmStep, TypeStep DEF CalmSavedInv
<1> QED BY <1>1, <1>2, PTL DEF Spec

(* No step of any run opens the surface gate over an agent that is still     *)
(* restricted, but for the release that could not be saved.                  *)
THEOREM GateIsLast == ASSUME AppContainmentAssumption PROVE Spec => GateOpensLast
<1>1. CalmSavedInv /\ [Next]_vars => [GateLast]_vars
  BY CalmStep
<1> QED BY <1>1, CalmSavedAlways, PTL DEF Spec, GateOpensLast

(* No step of any run releases an agent or opens the gate before the memory  *)
(* was safe for two reaction times, but for a recovery older than a crash or *)
(* than a danger in ticks that could not list the processes.                 *)
THEOREM CalmComesFirst == ASSUME AppContainmentAssumption PROVE Spec => AppReopensAfterCalm
<1>1. CalmSavedInv /\ [Next]_vars => [AppCalmFirst]_vars
  BY CalmStep
<1> QED BY <1>1, CalmSavedAlways, PTL DEF Spec, AppReopensAfterCalm

-----------------------------------------------------------------------------
(* The last resort: what the daemon knows of an agent is what its hook had *)
(* read.                                                                   *)

\* What an observation of a means to the record of a: it wakes it, if it
\* sleeps, and nothing it left out is in it.
Continues(a, o) ==
    /\ o.receipt = saw[a] /\ o.event # "End"
    /\ Wakes(o) \/ (a \in DOMAIN roster /\ roster[a].active)
    /\ o.receipt = None /\ a \in DOMAIN roster => roster[a].receipt = None

\* The roster, or the observation under way to it, tells of an agent at work
\* what its last hook had read.
Informed(a) ==
    doing[a] \in AtWork /\ a \notin blind =>
        /\ (\A o \in queue : o.agent # a) =>
              a \in DOMAIN roster /\ roster[a].active /\ roster[a].receipt = saw[a]
        /\ \A o \in queue : o.agent = a => Continues(a, o)
        /\ doing[a] = "heavy" => Unbound(saw[a])

\* A hook that waits at the gate is the only one of its agent, and had read
\* at least what the record of the agent says of it.
WaitInv(a) ==
    held[a] # None =>
        /\ doing[a] = "working" /\ \A o \in queue : o.agent # a
        /\ held[a].read = None /\ a \in DOMAIN roster => roster[a].receipt = None
        /\ held[a].read # None => a \in DOMAIN pub.agents

\* An agent that has read its state is one that state.json shows.
ShownInv ==
    /\ DOMAIN pub.agents \subseteq DOMAIN roster
    /\ \A a \in DOMAIN roster : roster[a].receipt # None => a \in DOMAIN pub.agents
    /\ \A o \in queue : o.receipt # None => o.agent \in DOMAIN pub.agents

QueueInv == \A o, p \in queue : o.agent = p.agent => o = p

HandoffInv ==
    /\ CalmSavedInv /\ QueueInv /\ ShownInv
    /\ \A a \in Agents : Informed(a) /\ WaitInv(a)

\* At the start nobody has read anything.
LEMMA HandoffInitially ==
    ASSUME AppContainmentAssumption, Init
    PROVE  HandoffInv
<1>1. PICK s \in Starts : InitWith(s.running, s.others, s.hooks, s.alarms, s.faults)
  BY DEF Init
<1> DEFINE r == [a \in s.running |-> NewAgent(0, 0, None)]
<1>2. /\ doing = [a \in Agents |-> IF a \in s.running THEN "working"
                               ELSE IF a \in s.others THEN "away" ELSE "absent"]
      /\ held = [a \in Agents |-> None] /\ queue = {}
      /\ roster = r /\ pub = State(roster, ctl) /\ saw = [a \in Agents |-> None]
  BY <1>1 DEF InitWith
<1>3. \A a \in DOMAIN roster : roster[a].active /\ roster[a].receipt = None
  BY <1>2, NewAgentType
<1>4. pub.agents = View(roster) /\ DOMAIN View(roster) = DOMAIN roster
  BY <1>2 DEF State, View
<1>5. DOMAIN roster = s.running
  BY <1>2
<1> HIDE DEF r
<1>6. QueueInv /\ ShownInv
  BY <1>2, <1>3, <1>4 DEF QueueInv, ShownInv
<1>7. ASSUME NEW a \in Agents PROVE Informed(a) /\ WaitInv(a)
  BY <1>2, <1>3, <1>5, <1>7 DEF Informed, WaitInv, AtWork, Unbound
<1> QED BY <1>6, <1>7, CalmInitially DEF HandoffInv

\* Steps that leave the hooks and who is known and told alone.
LEMMA HandoffStill ==
    ASSUME HandoffInv, UNCHANGED hookVars, DOMAIN roster' = DOMAIN roster,
           \A a \in DOMAIN roster : /\ roster'[a].active = roster[a].active
                                    /\ roster'[a].receipt = roster[a].receipt,
           DOMAIN pub.agents \subseteq DOMAIN pub'.agents,
           DOMAIN pub'.agents \subseteq DOMAIN roster
    PROVE  QueueInv' /\ ShownInv' /\ \A a \in Agents : Informed(a)' /\ WaitInv(a)'
<1>1. QueueInv' /\ ShownInv'
  BY DEF HandoffInv, QueueInv, ShownInv, hookVars
<1>2. ASSUME NEW a \in Agents PROVE Informed(a)' /\ WaitInv(a)'
  BY <1>2 DEF HandoffInv, Informed, Continues, WaitInv, hookVars
<1> QED BY <1>1, <1>2

\* In a new generation of the server nobody is at work.
LEMMA HandoffReplaced ==
    ASSUME AppContainmentAssumption, HandoffInv, Replaced
    PROVE  QueueInv' /\ ShownInv' /\ \A a \in Agents : Informed(a)' /\ WaitInv(a)'
<1>1. /\ DOMAIN roster' = DOMAIN roster
      /\ \A a \in DOMAIN roster : roster'[a].receipt = None
  BY ReplacedIs DEF HandoffInv, CalmSavedInv
<1>2. /\ doing' = [a \in Agents |-> IF doing[a] = "absent" THEN "absent" ELSE "away"]
      /\ held' = [a \in Agents |-> None] /\ UNCHANGED <<queue, pub>>
  BY DEF Replaced
<1>3. \A a \in Agents : held'[a] = None /\ doing'[a] \notin AtWork
  BY <1>2 DEF AtWork
<1> QED BY <1>1, <1>2, <1>3 DEF HandoffInv, QueueInv, ShownInv, Informed, WaitInv

\* A drain carries to the roster what the hooks had read.
LEMMA HandoffDrained ==
    ASSUME AppContainmentAssumption, HandoffInv, Drained
    PROVE  QueueInv' /\ ShownInv' /\ \A a \in Agents : Informed(a)' /\ WaitInv(a)'
<1>1. /\ roster' = Applied /\ queue' = {} /\ UNCHANGED <<doing, held, saw, blind, pub>>
  BY DEF Drained
<1>2. /\ DOMAIN Applied = DOMAIN roster \union {o.agent : o \in queue}
      /\ \A a \in DOMAIN Applied :
            \/ \E o \in queue : o.agent = a /\ TakenFrom(a, o)
            \/ /\ \A o \in queue : o.agent # a
               /\ a \in DOMAIN roster /\ Applied[a] = roster[a]
  BY AppliedIs DEF HandoffInv, CalmSavedInv
<1>3. /\ queue \subseteq Observation /\ DOMAIN roster \subseteq Agents
      /\ QueueInv /\ ShownInv /\ \A a \in Agents : Informed(a) /\ WaitInv(a)
  BY DEF HandoffInv, CalmSavedInv, TypeInv, HookTypes, LedgerTypes, IsRoster, IsSome
<1>4. ASSUME NEW a \in DOMAIN Applied, NEW o \in queue, o.agent = a, TakenFrom(a, o)
      PROVE  /\ Applied[a].active = IF Wakes(o) THEN TRUE
                                   ELSE IF o.event = "End" THEN FALSE
                                   ELSE a \in DOMAIN roster => roster[a].active
             /\ o.receipt # None => Applied[a].receipt = o.receipt
             /\ o.receipt = None =>
                  \/ Applied[a].receipt = None
                  \/ a \in DOMAIN roster /\ Applied[a].receipt = roster[a].receipt
  <2>1. PICK r \in LogicalAgent(None), e \in Nat :
          /\ Applied[a] = ApplyObservation(r, o, e, None)
          /\ IF a \in DOMAIN roster THEN r = roster[a] ELSE r.active /\ r.receipt = None
    BY <1>4 DEF TakenFrom
  <2>2. o \in Observation /\ r.active \in BOOLEAN
    BY <1>3 DEF LogicalAgent
  <2>3. /\ Applied[a].active = IF Wakes(o) THEN TRUE
                               ELSE IF o.event = "End" THEN FALSE ELSE r.active
        /\ o.receipt # None => Applied[a].receipt = o.receipt
        /\ o.receipt = None =>
             Applied[a].receipt = IF o.event = "Start" THEN None ELSE r.receipt
    <3> DEFINE s == ApplyObservation(r, o, e, None)
    <3>1. /\ s.active = IF Wakes(o) THEN TRUE
                        ELSE IF o.event = "End" THEN FALSE ELSE r.active
          /\ o.receipt # None => s.receipt = o.receipt
          /\ o.receipt = None => s.receipt = IF o.event = "Start" THEN None ELSE r.receipt
      BY <2>2, Observed
    <3>2. Applied[a] = s
      BY <2>1
    <3> HIDE DEF s
    <3> QED BY <3>1, <3>2
  <2> QED BY <2>1, <2>2, <2>3
<1>5. QueueInv' /\ ShownInv'
  <2>1. ASSUME NEW a \in DOMAIN Applied, Applied[a].receipt # None
        PROVE  a \in DOMAIN pub.agents
    <3>1. CASE \E o \in queue : o.agent = a /\ TakenFrom(a, o)
      BY <1>3, <1>4, <2>1, <3>1 DEF ShownInv
    <3>2. CASE a \in DOMAIN roster /\ Applied[a] = roster[a]
      BY <1>3, <2>1, <3>2 DEF ShownInv
    <3> QED BY <1>2, <3>1, <3>2
  <2> QED BY <1>1, <1>2, <1>3, <2>1 DEF QueueInv, ShownInv
<1>6. ASSUME NEW a \in Agents PROVE WaitInv(a)'
  <2> SUFFICES ASSUME held[a] # None PROVE WaitInv(a)'
    BY <1>1 DEF WaitInv
  <2>1. \A o \in queue : o.agent # a
    BY <1>3 DEF WaitInv
  <2>2. a \in DOMAIN Applied => a \in DOMAIN roster /\ Applied[a] = roster[a]
    BY <1>2, <2>1
  <2> QED BY <1>1, <1>3, <2>2 DEF WaitInv
<1>7. ASSUME NEW a \in Agents PROVE Informed(a)'
  <2> SUFFICES ASSUME doing[a] \in AtWork, a \notin blind
               PROVE  /\ a \in DOMAIN Applied /\ Applied[a].active /\ Applied[a].receipt = saw[a]
                      /\ doing[a] = "heavy" => Unbound(saw[a])
    BY <1>1 DEF Informed, Unbound
  <2>1. CASE \A o \in queue : o.agent # a
    BY <1>2, <1>3, <2>1 DEF Informed
  <2>2. CASE \E o \in queue : o.agent = a
    <3>1. PICK o \in queue : o.agent = a /\ TakenFrom(a, o)
      BY <1>2, <2>2
    <3>2. Continues(a, o) /\ (doing[a] = "heavy" => Unbound(saw[a]))
      BY <1>3, <3>1 DEF Informed
    <3>3. a \in DOMAIN Applied
      BY <1>2, <3>1
    <3> QED BY <1>4, <3>1, <3>2, <3>3 DEF Continues
  <2> QED BY <2>1, <2>2
<1> QED BY <1>5, <1>6, <1>7

\* A hook that begins to wait keeps what it has read.
LEMMA HandoffWaits ==
    ASSUME AppContainmentAssumption, HandoffInv, NEW a \in Agents, Waits(a),
           UNCHANGED <<ledgerVars, disk, pub, pc, sig, paused, left, historyVars>>
    PROVE  QueueInv' /\ ShownInv' /\ \A b \in Agents : Informed(b)' /\ WaitInv(b)'
<1>1. PICK class \in ToolClass :
        held' = [held EXCEPT ![a] = [class |-> class, read |-> Heard(Told(a))]]
  BY DEF Waits
<1>2. /\ doing[a] = "working" /\ (\A o \in queue : o.agent # a)
      /\ UNCHANGED <<doing, queue, saw, blind, roster, pub>>
  BY DEF Waits, Mayhook, ledgerVars
<1>3. Told(a) \in Reading \union {None} /\ (Told(a) = None <=> a \notin DOMAIN pub.agents)
  BY ToldIs DEF HandoffInv, CalmSavedInv, TypeInv
<1>4. Heard(Told(a)) = None <=> a \notin DOMAIN pub.agents
  BY <1>3, ReadingsAre
<1>5. QueueInv' /\ ShownInv' /\ \A b \in Agents : Informed(b)'
  BY <1>2 DEF HandoffInv, QueueInv, ShownInv, Informed, Continues
<1>6. held \in [Agents -> [class : ToolClass, read : Reading \union {None}] \union {None}]
  BY DEF HandoffInv, CalmSavedInv, TypeInv, HookTypes
<1>7. ASSUME NEW b \in Agents PROVE WaitInv(b)'
  <2>1. CASE b = a
    <3>1. held'[a].read = Heard(Told(a))
      BY <1>1, <1>6
    <3> QED BY <1>2, <1>4, <2>1, <3>1 DEF HandoffInv, ShownInv, WaitInv
  <2>2. CASE b # a
    <3>1. held'[b] = held[b]
      BY <1>1, <1>6, <2>2
    <3> QED BY <1>2, <3>1 DEF HandoffInv, WaitInv
  <2> QED BY <2>1, <2>2
<1> QED BY <1>5, <1>7

\* A hook leaves as its receipt what it heeds.
LEMMA HandoffObserves ==
    ASSUME AppContainmentAssumption, HandoffInv, NEW a \in Agents, NEW event \in HookEvents,
           NEW blocked \in BOOLEAN, NEW fresh \in BOOLEAN, NEW read \in Reading \union {None},
           NEW next \in Works, Observes(a, event, blocked, fresh, read, next)
    PROVE  QueueInv' /\ ShownInv' /\ \A b \in Agents : Informed(b)' /\ WaitInv(b)'
<1>0. PICK o : o = [agent |-> a, event |-> event, weight |-> NoTool, blocked |-> blocked,
                    at |-> clock + 1, receipt |-> Receipt(read)]
  OBVIOUS
<1>1. /\ Mayhook(a) /\ queue' = (IF fresh THEN queue \union {o} ELSE queue)
      /\ saw' = [saw EXCEPT ![a] = IF fresh THEN Receipt(read) ELSE None]
      /\ blind' = IF ~fresh THEN blind \union {a}
                  ELSE IF event \in {"Start", "Prompt", "PreTool"} THEN blind \ {a} ELSE blind
      /\ doing' = [doing EXCEPT ![a] = next] /\ UNCHANGED <<roster, pub>>
  BY <1>0 DEF Observes, Record, ledgerVars
<1>2. o.agent = a /\ o.event = event /\ o.receipt = Receipt(read)
  BY <1>0
<1>3. /\ QueueInv /\ ShownInv /\ \A b \in Agents : Informed(b) /\ WaitInv(b)
      /\ doing \in [Agents -> Works] /\ saw \in [Agents -> Reading \union {None}]
      /\ held \in [Agents -> [class : ToolClass, read : Reading \union {None}] \union {None}]
      /\ \A p \in queue : p.agent # a
  BY <1>1 DEF HandoffInv, CalmSavedInv, TypeInv, HookTypes, Mayhook
<1>4. /\ Told(a) = None <=> a \notin DOMAIN pub.agents
      /\ Receipt(read) = None <=> read = None
      /\ Unbound(read) => Unbound(Receipt(read))
  BY ToldIs, ReadingsAre DEF HandoffInv, CalmSavedInv, TypeInv
\* What was read is no older than what state.json and the roster tell.
<1>5. fresh => /\ read # None => a \in DOMAIN pub.agents
               /\ read = None /\ a \in DOMAIN roster => roster[a].receipt = None
  <2>1. CASE read = Told(a)
    BY <1>3, <1>4, <2>1 DEF ShownInv
  <2>2. CASE held[a] # None /\ read = held[a].read
    BY <1>3, <2>2 DEF WaitInv
  <2> QED BY <2>1, <2>2 DEF Observes
<1>6. QueueInv' /\ ShownInv'
  BY <1>1, <1>2, <1>3, <1>4, <1>5 DEF QueueInv, ShownInv
<1>7. ASSUME NEW b \in Agents, b # a PROVE Informed(b)' /\ WaitInv(b)'
  <2>1. /\ doing'[b] = doing[b] /\ saw'[b] = saw[b] /\ (b \in blind' <=> b \in blind)
        /\ held'[b] = held[b] /\ \A p \in queue' : p.agent = b => p \in queue
        /\ queue \subseteq queue'
    BY <1>1, <1>2, <1>3, <1>7 DEF Observes
  <2>2. Informed(b)'
    BY <1>1, <1>3, <2>1 DEF Informed, Continues
  <2>3. WaitInv(b)'
    BY <1>1, <1>3, <2>1 DEF WaitInv
  <2> QED BY <2>2, <2>3
<1>8. WaitInv(a)'
  <2> SUFFICES held'[a] = None
    BY DEF WaitInv
  <2>1. held' = held => held[a] = None
    BY <1>3 DEF Observes, WaitInv
  <2>2. held' = held \/ held' = [held EXCEPT ![a] = None]
    BY DEF Observes
  <2> QED BY <1>3, <2>1, <2>2
<1>9. Informed(a)'
  <2> SUFFICES ASSUME next \in AtWork, a \notin blind', fresh
               PROVE  /\ Continues(a, o)'
                      /\ next = "heavy" => Unbound(Receipt(read))
    <3>1. doing'[a] = next /\ (fresh => saw'[a] = Receipt(read) /\ o \in queue')
          /\ \A p \in queue' : p.agent = a => p = o
      BY <1>1, <1>2, <1>3
    <3>2. a \notin blind' => fresh
      BY <1>1
    <3> QED BY <1>1, <1>2, <3>1, <3>2 DEF Informed, Unbound
  <2>1. saw'[a] = Receipt(read)
    BY <1>1, <1>3
  <2>2. event # "End" /\ (Wakes(o) \/ (doing[a] \in AtWork /\ a \notin blind))
    BY <1>1, <1>2 DEF Observes, Wakes
  <2>3. Wakes(o) \/ (a \in DOMAIN roster /\ roster[a].active)
    BY <1>3, <2>2 DEF Informed
  <2>4. next = "heavy" => Unbound(Receipt(read))
    BY <1>3, <1>4 DEF Observes, WaitInv
  <2> QED BY <1>1, <1>2, <1>4, <1>5, <2>1, <2>2, <2>3, <2>4 DEF Continues, Wakes
<1> QED BY <1>6, <1>7, <1>8, <1>9

\* Every step keeps what the daemon knows of its agents true.
LEMMA HandoffStep ==
    ASSUME AppContainmentAssumption, HandoffInv, [Next]_vars
    PROVE  HandoffInv'
<1> DEFINE Goal == QueueInv' /\ ShownInv' /\ \A a \in Agents : Informed(a)' /\ WaitInv(a)'
<1>1. CalmSavedInv /\ CalmSavedInv'
  BY CalmStep, TypeStep DEF HandoffInv, CalmSavedInv
<1>2. /\ TypeInv /\ LedgerTypes /\ ShownInv
      /\ roster = disk.roster /\ ctl \in Control
  BY <1>1 DEF HandoffInv, CalmSavedInv, TypeInv, LedgerTypes, SavedInv
<1>3. ASSUME UNCHANGED <<hookVars, roster, pub>> PROVE Goal
  BY <1>2, <1>3, HandoffStill DEF ShownInv
<1>4. ASSUME NEW a \in Agents, Hook(a) PROVE Goal
  <2>1. /\ UNCHANGED <<ledgerVars, disk, pub, pc, sig, paused, left, historyVars>>
        /\ \/ Waits(a)
           \/ \E event \in HookEvents, blocked, fresh \in BOOLEAN,
                 read \in Reading \union {None}, next \in Works :
                   Observes(a, event, blocked, fresh, read, next)
    BY <1>2, <1>4, HookIs
  <2>2. CASE Waits(a)
    BY <2>1, <2>2, HandoffWaits
  <2>3. CASE \E event \in HookEvents, blocked, fresh \in BOOLEAN,
                 read \in Reading \union {None}, next \in Works :
                   Observes(a, event, blocked, fresh, read, next)
    BY <2>3, HandoffObserves
  <2> QED BY <2>1, <2>2, <2>3
<1>5. ASSUME Drained PROVE Goal
  BY <1>5, HandoffDrained
<1>6. ASSUME Replaced PROVE Goal
  BY <1>6, HandoffReplaced
<1>7. ASSUME Contain PROVE Goal
  <2>1. CASE SafeOpen
    BY <1>3, <2>1 DEF SafeOpen, Assess, Only
  <2>2. ASSUME NEW s \in Findings, NEW m \in 0..2, Found(s), Holds(s, m), Turns(s)
        PROVE  Goal
    <3>1. /\ DOMAIN roster' = DOMAIN roster
          /\ \A a \in DOMAIN roster : /\ roster'[a].active = roster[a].active
                                      /\ roster'[a].receipt = roster[a].receipt
      BY <1>2, <2>2, HoldsIs
    <3>2. UNCHANGED <<hookVars, pub>>
      BY <2>2 DEF Found
    <3> QED BY <1>2, <3>1, <3>2, HandoffStill DEF ShownInv
  <2>3. ASSUME NEW s \in Findings, Skipped(s) PROVE Goal
    <3>1. UNCHANGED <<hookVars, pub, roster>>
      BY <1>2, <2>3, SkippedIs DEF Found, ledgerVars
    <3> QED BY <1>2, <1>3, <3>1
  <2> QED BY <1>2, <1>7, <2>1, <2>2, <2>3, ContainIs
<1>8. ASSUME Publish PROVE Goal
  <2>1. UNCHANGED <<hookVars, roster>> /\ DOMAIN pub'.agents = DOMAIN roster
    BY <1>2, <1>8, StateType DEF Publish, LedgerTypes
  <2> QED BY <1>2, <2>1, HandoffStill DEF ShownInv
<1>9. ASSUME Downtime PROVE Goal
  <2>1. UNCHANGED <<hookVars, roster>> /\ pub'.agents = pub.agents
    BY <1>2, <1>9 DEF Downtime, TypeInv, RestTypes
  <2> QED BY <1>2, <2>1, HandoffStill DEF ShownInv
<1>10. ASSUME Crash PROVE Goal
  BY <1>2, <1>3, <1>10 DEF Crash
<1>11. ASSUME UNCHANGED vars \/ NotDrained \/ Pause \/ Resume \/ Restart PROVE Goal
  <2>1. UNCHANGED <<hookVars, roster, pub>>
    BY <1>11 DEF vars, ledgerVars, NotDrained, Pause, Resume, Restart
  <2> QED BY <1>3, <2>1
<1>12. Goal
  BY <1>3, <1>4, <1>5, <1>6, <1>7, <1>8, <1>9, <1>10, <1>11 DEF Next, Daemon
<1> QED BY <1>1, <1>12 DEF HandoffInv

\* The last resort looks at what is known, and so at what was read.
LEMMA PauseInformed ==
    ASSUME AppContainmentAssumption, HandoffInv, Pause
    PROVE  AllInformed
<1> SUFFICES ASSUME NEW a \in Agents, doing[a] \in AtWork, a \notin blind,
                    \A o \in queue : o.agent # a
             PROVE  /\ doing[a] # "heavy" /\ a \in DOMAIN roster
                    /\ saw[a] = [state |-> HandoffOnly, epoch |-> roster[a].epoch]
  BY DEF AllInformed
<1>1. /\ a \in DOMAIN roster /\ roster[a].active /\ roster[a].receipt = saw[a]
      /\ doing[a] = "heavy" => Unbound(saw[a])
  BY DEF HandoffInv, Informed
<1>2. HandoffObserved(a)
  BY <1>1 DEF Pause, AppActive, ActiveIn
<1>3. saw[a] = [state |-> HandoffOnly, epoch |-> roster[a].epoch]
  BY <1>1, <1>2 DEF HandoffObserved, ReceiptCurrent
<1>4. saw[a] # None /\ saw[a].state = HandoffOnly
  <2>1. saw[a] \in Receipts
    <3>1. roster[a].epoch \in Nat
      BY <1>1 DEF HandoffInv, CalmSavedInv, TypeInv, LedgerTypes, IsRoster, IsSome, LogicalAgent
    <3> QED BY <1>3, <3>1, LevelsAre DEF Receipts
  <2> QED BY <1>3, <2>1, NoneIs
<1> QED BY <1>1, <1>3, <1>4 DEF Unbound

(* The server is never stopped over an agent that has not acknowledged the   *)
(* restriction in force, or that has begun heavy work since, whatever the    *)
(* order of hooks, drains, stale states, failed writes and crashes.          *)
THEOREM InformedFirst == ASSUME AppContainmentAssumption PROVE Spec => HandoffBeforePause
<1>1. Init => HandoffInv
  BY HandoffInitially
<1>2. HandoffInv /\ [Next]_vars => HandoffInv'
  BY HandoffStep
<1>3. HandoffInv /\ [Next]_vars => [PausedInformed]_vars
  <2> SUFFICES ASSUME HandoffInv, Next, ~paused, paused' PROVE AllInformed
    BY DEF PausedInformed
  <2>1. TypeInv
    BY DEF HandoffInv, CalmSavedInv
  <2>2. ASSUME NEW a \in Agents, Hook(a) PROVE FALSE
    BY <2>1, <2>2, HookIs
  <2>3. ASSUME Contain PROVE FALSE
    <3>1. paused' = paused
      BY <2>1, <2>3, ContainIs DEF Found, SafeOpen, Skipped, Assess
    <3> QED BY <3>1
  <2>4. Pause
    BY <2>2, <2>3
       DEF Next, Daemon, Drained, NotDrained, Publish, Restart, Resume, Replaced, Crash, Downtime
  <2> QED BY <2>4, PauseInformed
<1> QED BY <1>1, <1>2, <1>3, PTL DEF Spec, HandoffBeforePause

=============================================================================
