---------------------------- MODULE LogicalRoster ----------------------------
(***************************************************************************)
(* The logical agents of Calando and their restriction ladder: what a      *)
(* tool call counts as, which classes each rung lets through, what one     *)
(* hook observation does to the record of its agent, and which agents a    *)
(* control batch moves.  Every operator here is a function of its          *)
(* arguments; the modules that hold the roster say when each is applied.   *)
(***************************************************************************)
EXTENDS Naturals, FiniteSets, FiniteSetsExt

(* The ladder.                                                             *)

Active == 0
NoExpansion == 1
LightWorkOnly == 2
HandoffOnly == 3
LogicalState == Active..HandoffOnly

Tighten(s) == IF s = HandoffOnly THEN s ELSE s + 1
Relax(s) == IF s = Active THEN s ELSE s - 1
StepsRemaining(s) == HandoffOnly - s

-----------------------------------------------------------------------------
(* Tool calls.  A shell command is the set of the classes its segments     *)
(* have, a search is broad or not; any other tool has its class by name.   *)

ToolClass == {"expansion", "high_memory_start", "edit", "small_read",
              "handoff", "ordinary"}
SegmentClass == {"handoff", "ordinary", "high_memory_start"}

\* A compound command has the class of its strongest segment, and a command
\* sent to the background counts as a high-memory start.
ShellClass(background, segments) ==
    IF background \/ "high_memory_start" \in segments THEN "high_memory_start"
    ELSE IF "ordinary" \in segments \/ segments = {} THEN "ordinary"
    ELSE "handoff"

Calls == [tool : ToolClass] \union [broad : BOOLEAN] \union
         [background : BOOLEAN, segments : SUBSET SegmentClass]

ClassifyTool(call) ==
    IF "tool" \in DOMAIN call THEN call.tool
    ELSE IF "broad" \in DOMAIN call
    THEN IF call.broad THEN "high_memory_start" ELSE "small_read"
    ELSE ShellClass(call.background, call.segments)

AllowedIn(class, s) ==
    \/ s = Active
    \/ s = NoExpansion /\ class # "expansion"
    \/ s = LightWorkOnly /\ class \notin {"expansion", "high_memory_start"}
    \/ s = HandoffOnly /\ class \in {"handoff", "small_read"}

Heavy(class) == class \in {"expansion", "high_memory_start"}

-----------------------------------------------------------------------------
(* Records.  A weight stands for the class of a call as the roster uses    *)
(* it: whether it is heavy.                                                *)

NoTool == "none"
Weights == {"heavy", "light"}
Weight(class) == IF Heavy(class) THEN "heavy" ELSE "light"

HookEvents == {"Start", "End", "Prompt", "PreTool", "PostTool", "Stop"}
Lifecycle == {"Start", "End"}

\* What an App hook read of its agent; a CLI hook reports nothing.
Receipts == [epoch : Nat, state : LogicalState]

LogicalAgent(NoReceipt) ==
    [active : BOOLEAN, state : LogicalState, epoch : Nat, seen : Nat,
     idle : BOOLEAN, flight : Weights \union {NoTool},
     last : Weights \union {NoTool}, receipt : Receipts \union {NoReceipt}]

\* The record a first observation makes, before the event is applied.
NewAgent(at, epoch, NoReceipt) ==
    [active |-> TRUE, state |-> Active, epoch |-> epoch, seen |-> at,
     idle |-> FALSE, flight |-> NoTool, last |-> NoTool, receipt |-> NoReceipt]

\* The agent's record with its time and, from an App hook, its receipt.
Seen(r, o, NoReceipt) ==
    [r EXCEPT !.seen = o.at,
              !.receipt = IF o.receipt = NoReceipt THEN r.receipt ELSE o.receipt]

AfterEvent(r, o) ==
    CASE o.event = "Start" ->
           [r EXCEPT !.active = TRUE, !.state = Active, !.idle = FALSE,
                     !.flight = NoTool, !.receipt = o.receipt]
      [] o.event = "End" ->
           [r EXCEPT !.active = FALSE, !.state = Active, !.idle = TRUE,
                     !.flight = NoTool]
      [] o.event = "Prompt" -> [r EXCEPT !.active = TRUE, !.idle = FALSE]
      [] o.event = "PreTool" ->
           [r EXCEPT !.active = TRUE, !.idle = FALSE, !.last = o.weight,
                     !.flight = IF o.blocked THEN NoTool ELSE o.weight]
      [] o.event = "PostTool" ->
           [r EXCEPT !.last = o.weight, !.flight = NoTool]
      [] o.event = "Stop" -> [r EXCEPT !.idle = TRUE, !.flight = NoTool]

\* An observation older than the last one the record has seen is dropped.
Late(r, o) == o.at < r.seen

\* A start or an end that takes a restriction away opens a new epoch.
OpensEpoch(r, o) == o.event \in Lifecycle /\ r.state # Active

ApplyObservation(r, o, epoch, NoReceipt) ==
    LET after == AfterEvent(Seen(r, o, NoReceipt), o)
    IN IF OpensEpoch(r, o) THEN [after EXCEPT !.epoch = epoch + 1] ELSE after

-----------------------------------------------------------------------------
(* Batches.  `roster` maps the agents the daemon knows to their records.   *)

ActiveIn(roster, S) == {a \in S \intersect DOMAIN roster : roster[a].active}
Restricted(roster, S) == {a \in ActiveIn(roster, S) : roster[a].state # Active}
StepsOf(roster, S) ==
    MapThenSumSet(LAMBDA a : StepsRemaining(roster[a].state), S)

CeilDiv(n, d) == (n + d - 1) \div d

\* The least number of steps now for all of them to be done in `ticks`.
BatchBudget(steps, ticks) == CeilDiv(steps, ticks)

HeavyAgent(r) == (IF r.flight # NoTool THEN r.flight ELSE r.last) = "heavy"

\* a is restricted before b: verified growth first, then heavy work, then
\* the one already further down.  Equals are taken in any order.
Riskier(roster, verified, a, b) ==
    LET va == a \in verified
        vb == b \in verified
        ha == HeavyAgent(roster[a])
        hb == HeavyAgent(roster[b])
    IN \/ va /\ ~vb
       \/ va = vb /\ ha /\ ~hb
       \/ va = vb /\ ha = hb /\ roster[a].state > roster[b].state

\* give[a] steps for a: the whole budget, the riskiest agents first, each
\* taken to the end of its ladder before the next is touched.
TightenBatch(roster, S, budget, verified, give) ==
    LET cands == {a \in ActiveIn(roster, S) : roster[a].state # HandoffOnly}
        full(a) == give[a] = StepsRemaining(roster[a].state)
    IN /\ \A a \in DOMAIN give :
            give[a] > 0 => a \in cands /\ give[a] <= StepsRemaining(roster[a].state)
       /\ MapThenSumSet(LAMBDA a : give[a], DOMAIN give)
            = Min({budget, StepsOf(roster, cands)})
       /\ \A a, b \in cands : give[b] > 0 /\ Riskier(roster, verified, a, b) => full(a)
       /\ \A a, b \in cands :
            a # b /\ give[a] > 0 /\ give[b] > 0 => full(a) \/ full(b)

\* a is released before b: leads first, then the most restricted.
ReleasedBefore(roster, leads, a, b) ==
    \/ a \in leads /\ b \notin leads
    \/ (a \in leads) = (b \in leads) /\ roster[a].state > roster[b].state

RelaxBatch(roster, S, leads, budget, who) ==
    LET cands == Restricted(roster, S)
    IN /\ who \subseteq cands
       /\ Cardinality(who) = Min({budget, Cardinality(cands)})
       /\ \A a \in cands \ who, b \in who : ~ReleasedBefore(roster, leads, a, b)

\* Growth of a process counts as unexplained when none of the agents in it
\* is at work, as far as the roster knows.
WorkMismatch(roster) ==
    /\ DOMAIN roster # {}
    /\ \A a \in DOMAIN roster :
         /\ roster[a].flight = NoTool
         /\ roster[a].idle

=============================================================================
