------------------------- MODULE NotificationOutbox -------------------------
(***************************************************************************)
(* From a pressure episode to a notification.                              *)
(*                                                                         *)
(* update_pressure_episode turns the edges of an episode into events.  An  *)
(* event is a file in notification-events/pending, here `queue`, until     *)
(* drain_notification_events has taken it into the ledger and the ledger   *)
(* is on disk; then a dispatcher process is started for it, once, and its  *)
(* answer, a file again, is merged into the ledger by a later tick.  Hooks *)
(* answer for themselves.  Every write may fail, the daemon may crash      *)
(* between any two of them, and dispatchers live on when it does.          *)
(***************************************************************************)
EXTENDS Naturals, FiniteSets, SequencesExt

CONSTANTS
    Alerts,          \* the other events of a run: pauses, failures
    MaxEpisodes,     \* bound: episodes begun, those rolled back included
    Channels,        \* whether OS, Discord or Telegram is configured
    MaxLedger,       \* the number of events the ledger keeps (128)
    MaxWriteFails,   \* bound: failed writes of runtime.json
    MaxQueueFails,   \* bound: failed writes of an event file
    MaxSpawnFails,   \* bound: dispatchers that cannot be started
    MaxCrashes,      \* bound: crashes of the daemon
    MaxFaults,       \* bound: all of these together
    MaxHooks,        \* bound: answers given by hooks
    MayDegrade,      \* whether another handler may set runtime_error
    None             \* no event is owed

VARIABLES
    mem,           \* the daemon's ledger
    disk,          \* runtime.json
    runtimeError,  \* Supervisor.runtime_error is set
    pc,            \* the next step of the daemon
    queue,         \* the event files, in the order of their creation
    answers,       \* the answer files of dispatchers and hooks
    consumed,      \* the files that a drain has yet to remove
    dirty,         \* the drain's dispatch_changed
    running,       \* dispatchers at work
    late,          \* events whose dispatch began 30 s ago or earlier
    clock,         \* the number of the last episode begun
    faults,        \* faults injected and answers given by hooks so far
    told,          \* history: episode edges, in the order they were first queued
    raised,        \* history: alerts emitted, and whether a file came of it
    sent           \* history: how often each event was given to a dispatcher

daemonVars == <<mem, runtimeError, pc, consumed, dirty>>
vars == <<mem, disk, runtimeError, pc, queue, answers, consumed, dirty, running,
          late, clock, faults, told, raised, sent>>

-----------------------------------------------------------------------------
Edges == [kind : {"active", "ended"}, episode : 1..MaxEpisodes]
Events == Edges \union Alerts

ASSUME OutboxAssumption ==
    /\ {MaxEpisodes, MaxWriteFails, MaxQueueFails, MaxSpawnFails, MaxCrashes, MaxFaults,
        MaxHooks} \subseteq Nat
    /\ MaxLedger \in Nat \ {0}
    /\ {Channels, MayDegrade} \subseteq BOOLEAN
    /\ Alerts \intersect Edges = {} /\ None \notin Edges

Transports == {"remote", "hook"}
Statuses == {"pending", "delivered", "failed", "skipped"}
Records == [event : Events, delivery : [Transports -> Statuses], dispatched : BOOLEAN]
Ledgers == [started : 0..MaxEpisodes, owed : Edges \union {None}, events : Seq(Records)]
Answers == [event : Events, transport : Transports, status : {"delivered", "failed"}]

EmptyLedger == [started |-> 0, owed |-> None, events |-> <<>>]

Known(l) == {l.events[i].event : i \in DOMAIN l.events}

\* What s has at the positions S, in their order.
Pick(s, S) ==
    [k \in 1..Cardinality(S) |->
       s[CHOOSE i \in S : Cardinality({j \in S : j <= i}) = k]]

FaultsLeft ==
    faults.write + faults.queue + faults.spawn + faults.crash < MaxFaults

Saved(l) ==
    /\ ~runtimeError
    /\ mem' = l
    /\ disk' = l
    /\ UNCHANGED faults

NotSaved(l) ==
    /\ mem' = l
    /\ UNCHANGED disk
    /\ IF runtimeError
         THEN UNCHANGED faults
         ELSE /\ faults.write < MaxWriteFails /\ FaultsLeft
              /\ faults' = [faults EXCEPT !.write = @ + 1]

Init ==
    /\ mem = EmptyLedger
    /\ disk = EmptyLedger
    /\ runtimeError = FALSE
    /\ pc = "drain"
    /\ queue = <<>>
    /\ answers = {}
    /\ consumed = [events |-> <<>>, answers |-> {}]
    /\ dirty = FALSE
    /\ running = {}
    /\ late = {}
    /\ clock = 0
    /\ faults = [write |-> 0, queue |-> 0, spawn |-> 0, crash |-> 0, hook |-> 0]
    /\ told = <<>>
    /\ raised = {}
    /\ sent = [e \in Events |-> 0]

-----------------------------------------------------------------------------
(* drain_notification_events: merge, persist, remove, dispatch.            *)

(* Mutant: takes a file again whose event it knows. *)
ArrivedAgain == Pick(queue, DOMAIN queue)

Arrived == Pick(queue, {i \in DOMAIN queue : queue[i] \notin Known(mem)})

(* Mutant: the last answer wins. *)
MergedLast(r) ==
    LET given(t) == {a.status : a \in {b \in answers : b.event = r.event
                                                      /\ b.transport = t}}
    IN  [r EXCEPT !.delivery =
           [t \in Transports |->
              CASE "failed" \in given(t) -> "failed"
                [] given(t) = {"delivered"} -> "delivered"
                [] OTHER -> r.delivery[t]]]

(* A delivery is never overwritten by a worse answer. *)
Merged(r) ==
    LET given(t) == {a.status : a \in {b \in answers : b.event = r.event
                                                      /\ b.transport = t}}
    IN  [r EXCEPT !.delivery =
           [t \in Transports |->
              CASE "delivered" \in given(t) \union {r.delivery[t]} -> "delivered"
                [] given(t) = {"failed"} /\ r.delivery[t] # "delivered" -> "failed"
                [] OTHER -> r.delivery[t]]]

(* Mutant: only an answer settles an event. *)
OverdueNever(r) == r.dispatched /\ r.event \in late /\ r.delivery["remote"] = "none"

Overdue(r) == r.dispatched /\ r.event \in late /\ r.delivery["remote"] = "pending"
Expired(r) == IF Overdue(r) THEN [r EXCEPT !.delivery["remote"] = "failed"] ELSE r

Taken(e) ==
    [event |-> e,
     delivery |-> [remote |-> IF Channels THEN "pending" ELSE "skipped",
                   hook |-> "pending"],
     dispatched |-> FALSE]

Latest(s) == SubSeq(s, (IF Len(s) > MaxLedger THEN Len(s) - MaxLedger ELSE 0) + 1, Len(s))

Drained ==
    LET all == mem.events \o [i \in DOMAIN Arrived |-> Taken(Arrived[i])]
    IN  Latest([i \in DOMAIN all |-> Expired(Merged(all[i]))])

ToConsume ==
    [events |-> Arrived,
     answers |-> {a \in answers : a.event \in Known(mem) \union Range(Arrived)}]

Nothing == [events |-> <<>>, answers |-> {}]

(* Mutant: removes the files although the ledger was not written. *)
DrainUnchecked ==
    /\ pc = "drain"
    /\ LET l == [mem EXCEPT !.events = Drained]
       IN  \/ /\ ToConsume = Nothing /\ l = mem
              /\ pc' = "dispatch"
              /\ UNCHANGED <<mem, disk, faults, consumed>>
           \/ /\ ToConsume # Nothing \/ l # mem
              /\ Saved(l) \/ NotSaved(l)
              /\ consumed' = ToConsume
              /\ pc' = "remove"
    /\ UNCHANGED <<runtimeError, queue, answers, dirty, running, late, clock,
                   told, raised, sent>>

(* A drain that cannot be saved gives back what it took, and ends there. *)
Drain ==
    /\ pc = "drain"
    /\ LET l == [mem EXCEPT !.events = Drained]
           known == Pick(Drained, {i \in DOMAIN Drained :
                                     Drained[i].event \notin Range(Arrived)})
       IN  \/ /\ ToConsume = Nothing /\ l = mem
              /\ pc' = "dispatch"
              /\ UNCHANGED <<mem, disk, faults, consumed>>
           \/ /\ ToConsume # Nothing \/ l # mem
              /\ Saved(l)
              /\ consumed' = ToConsume
              /\ pc' = "remove"
           \/ /\ ToConsume # Nothing \/ l # mem
              /\ NotSaved([mem EXCEPT !.events = known])
              /\ pc' = "work"
              /\ UNCHANGED consumed
    /\ UNCHANGED <<runtimeError, queue, answers, dirty, running, late, clock,
                   told, raised, sent>>

(* The files go one by one, those of the events first. *)
RemoveFiles ==
    /\ pc = "remove"
    /\ \/ /\ consumed.events # <<>>
          /\ queue' = Pick(queue, {i \in DOMAIN queue :
                                      queue[i] # Head(consumed.events)})
          /\ consumed' = [consumed EXCEPT !.events = Tail(@)]
          /\ UNCHANGED <<answers, pc>>
       \/ /\ consumed.events = <<>>
          /\ \E a \in consumed.answers :
               /\ answers' = answers \ {a}
               /\ consumed' = [consumed EXCEPT !.answers = @ \ {a}]
          /\ UNCHANGED <<queue, pc>>
       \/ /\ consumed = Nothing
          /\ pc' = "dispatch"
          /\ UNCHANGED <<queue, answers, consumed>>
    /\ UNCHANGED <<mem, disk, runtimeError, dirty, running, late, clock, faults,
                   told, raised, sent>>

Undispatched == {i \in DOMAIN mem.events : /\ mem.events[i].delivery["remote"] = "pending"
                                           /\ ~mem.events[i].dispatched}

(* Mutant: does not note that the dispatcher was started. *)
DispatchUnmarked ==
    /\ pc = "dispatch"
    /\ Undispatched # {}
    /\ LET i == Min(Undispatched)
           e == mem.events[i].event
       IN  /\ sent' = [sent EXCEPT ![e] = @ + 1]
           /\ sent[e] < 2 + faults.crash
           /\ running' = running \union {e}
    /\ dirty' = TRUE
    /\ UNCHANGED <<mem, disk, runtimeError, pc, queue, answers, consumed, late,
                   clock, faults, told, raised>>

Dispatch ==
    /\ pc = "dispatch"
    /\ Undispatched # {}
    /\ LET i == Min(Undispatched)
           e == mem.events[i].event
       IN  \/ /\ mem' = [mem EXCEPT !.events[i].dispatched = TRUE]
              /\ sent' = [sent EXCEPT ![e] = @ + 1]
              /\ running' = running \union {e}
              /\ late' = late \ {e}
              /\ UNCHANGED faults
           \/ /\ faults.spawn < MaxSpawnFails /\ FaultsLeft
              /\ faults' = [faults EXCEPT !.spawn = @ + 1]
              /\ mem' = [mem EXCEPT !.events[i].delivery["remote"] = "failed"]
              /\ UNCHANGED <<sent, running, late>>
    /\ dirty' = TRUE
    /\ UNCHANGED <<disk, runtimeError, pc, queue, answers, consumed, clock,
                   told, raised>>

Dispatched ==
    /\ pc = "dispatch"
    /\ Undispatched = {}
    /\ \/ ~dirty /\ UNCHANGED <<mem, disk, faults>>
       \/ dirty /\ (Saved(mem) \/ NotSaved(mem))
    /\ dirty' = FALSE
    /\ pc' = "work"
    /\ UNCHANGED <<runtimeError, queue, answers, consumed, running, late, clock,
                   told, raised, sent>>

-----------------------------------------------------------------------------
(* The rest of the tick, up to update_pressure_episode.                    *)

(* queue_event: an event that is known or queued is not written again. *)
Queued(e) ==
    IF e \in Known(mem) \union Range(queue) THEN queue ELSE Append(queue, e)

QueueFails(e) ==
    /\ e \notin Known(mem) \union Range(queue)
    /\ faults.queue < MaxQueueFails /\ FaultsLeft
    /\ faults' = [faults EXCEPT !.queue = @ + 1]

(* emit_event: an alert whose file cannot be written is gone. *)
Emit(a) ==
    /\ pc = "work"
    /\ a \notin {r.alert : r \in raised}
    /\ \/ /\ queue' = Queued(a)
          /\ raised' = raised \union {[alert |-> a, queued |-> TRUE]}
          /\ UNCHANGED faults
       \/ /\ QueueFails(a)
          /\ raised' = raised \union {[alert |-> a, queued |-> FALSE]}
          /\ UNCHANGED queue
    /\ UNCHANGED <<mem, disk, runtimeError, pc, answers, consumed, dirty,
                   running, late, clock, told, sent>>

(* One of the handlers of PauseLedger finds the runtime degraded. *)
Degrade ==
    /\ pc = "work"
    /\ MayDegrade
    /\ ~runtimeError
    /\ runtimeError' = TRUE
    /\ UNCHANGED <<mem, disk, pc, queue, answers, consumed, dirty, running,
                   late, clock, faults, told, raised, sent>>

WorkDone ==
    /\ pc = "work"
    /\ pc' = "flush"
    /\ UNCHANGED <<mem, disk, runtimeError, queue, answers, consumed, dirty,
                   running, late, clock, faults, told, raised, sent>>

-----------------------------------------------------------------------------
(* update_pressure_episode.                                                *)

FlushNothing ==
    /\ pc \in {"flush", "reflush"}
    /\ mem.owed = None
    /\ pc' = IF pc = "flush" THEN "edge" ELSE "drain"
    /\ UNCHANGED <<mem, disk, runtimeError, queue, answers, consumed, dirty,
                   running, late, clock, faults, told, raised, sent>>

(* Mutant: forgets what it owes before it is queued. *)
FlushQueueLost ==
    /\ pc \in {"flush", "reflush"}
    /\ mem.owed # None
    /\ \/ /\ queue' = Queued(mem.owed)
          /\ told' = IF queue' = queue THEN told ELSE Append(told, mem.owed)
          /\ UNCHANGED faults
       \/ QueueFails(mem.owed) /\ UNCHANGED <<queue, told>>
    /\ pc' = IF pc = "flush" THEN "flush_save" ELSE "reflush_save"
    /\ UNCHANGED <<mem, disk, runtimeError, answers, consumed, dirty, running,
                   late, clock, raised, sent>>

FlushQueue ==
    /\ pc \in {"flush", "reflush"}
    /\ mem.owed # None
    /\ \/ /\ queue' = Queued(mem.owed)
          /\ told' = IF queue' = queue THEN told ELSE Append(told, mem.owed)
          /\ pc' = IF pc = "flush" THEN "flush_save" ELSE "reflush_save"
          /\ UNCHANGED faults
       \/ /\ QueueFails(mem.owed)
          /\ pc' = "drain"
          /\ UNCHANGED <<queue, told>>
    /\ UNCHANGED <<mem, disk, runtimeError, answers, consumed, dirty, running,
                   late, clock, raised, sent>>

FlushSave ==
    /\ pc \in {"flush_save", "reflush_save"}
    /\ \/ /\ Saved([mem EXCEPT !.owed = None])
          /\ pc' = IF pc = "flush_save" THEN "edge" ELSE "drain"
       \/ /\ NotSaved(mem)
          /\ pc' = "drain"
    /\ UNCHANGED <<runtimeError, queue, answers, consumed, dirty, running, late,
                   clock, told, raised, sent>>

(* Whether protection is active is read off the rest of the ledger. *)
NoEdge ==
    /\ pc = "edge"
    /\ pc' = "drain"
    /\ UNCHANGED <<mem, disk, runtimeError, queue, answers, consumed, dirty,
                   running, late, clock, faults, told, raised, sent>>

(* Mutant: an edge that could not be saved is not rolled back. *)
EpisodeEdgeKept ==
    /\ pc = "edge"
    /\ LET active == mem.started = 0
           n == IF active THEN clock + 1 ELSE mem.started
           l == [mem EXCEPT !.started = IF active THEN n ELSE 0,
                            !.owed = [kind |-> IF active THEN "active" ELSE "ended",
                                      episode |-> n]]
       IN  /\ n <= MaxEpisodes
           /\ clock' = IF active THEN n ELSE clock
           /\ \/ Saved(l) /\ pc' = "reflush"
              \/ NotSaved(l) /\ pc' = "reflush"
    /\ UNCHANGED <<runtimeError, queue, answers, consumed, dirty, running, late,
                   told, raised, sent>>

EpisodeEdge ==
    /\ pc = "edge"
    /\ LET active == mem.started = 0
           n == IF active THEN clock + 1 ELSE mem.started
           l == [mem EXCEPT !.started = IF active THEN n ELSE 0,
                            !.owed = [kind |-> IF active THEN "active" ELSE "ended",
                                      episode |-> n]]
       IN  /\ n <= MaxEpisodes
           /\ clock' = IF active THEN n ELSE clock
           /\ \/ Saved(l) /\ pc' = "reflush"
              \/ NotSaved(mem) /\ pc' = "drain"
    /\ UNCHANGED <<runtimeError, queue, answers, consumed, dirty, running, late,
                   told, raised, sent>>

-----------------------------------------------------------------------------
(* Dispatchers, hooks, time, and the end of the daemon.                    *)

Answer(e, t, status) ==
    answers' = {a \in answers : ~(a.event = e /\ a.transport = t /\ t = "remote")}
                 \union {[event |-> e, transport |-> t, status |-> status]}

(* run_notify: the dispatcher writes its answer, or dies before it does. *)
Dispatcher(e) ==
    /\ e \in running
    /\ running' = running \ {e}
    /\ \/ \E status \in {"delivered", "failed"} : Answer(e, "remote", status)
       \/ UNCHANGED answers
    /\ UNCHANGED <<daemonVars, disk, queue, late, clock, faults, told, raised, sent>>

(* A hook shows the events of the published ledger to its session, or finds *)
(* that it cannot; every session answers, whatever the others answered.     *)
Hook(e) ==
    /\ e \in Known(disk)
    /\ faults.hook < MaxHooks
    /\ faults' = [faults EXCEPT !.hook = @ + 1]
    /\ \E status \in {"delivered", "failed"} : Answer(e, "hook", status)
    /\ UNCHANGED <<daemonVars, disk, queue, running, late, clock, told, raised,
                   sent>>

(* 30 s have passed since the dispatch: the drain reads its time once. *)
Late(e) ==
    /\ pc = "drain"
    /\ e \notin late
    /\ \E i \in DOMAIN mem.events :
         /\ mem.events[i].event = e
         /\ mem.events[i].dispatched
         /\ mem.events[i].delivery["remote"] = "pending"
    /\ late' = late \union {e}
    /\ UNCHANGED <<daemonVars, disk, queue, answers, running, clock, faults,
                   told, raised, sent>>

Crash ==
    /\ pc # "down"
    /\ faults.crash < MaxCrashes /\ FaultsLeft
    /\ faults' = [faults EXCEPT !.crash = @ + 1]
    /\ pc' = "down"
    /\ mem' = EmptyLedger
    /\ runtimeError' = FALSE
    /\ consumed' = Nothing
    /\ dirty' = FALSE
    /\ UNCHANGED <<disk, queue, answers, running, late, clock, told, raised, sent>>

Restart ==
    /\ pc = "down"
    /\ mem' = disk
    /\ pc' = "drain"
    /\ UNCHANGED <<disk, runtimeError, queue, answers, consumed, dirty, running,
                   late, clock, faults, told, raised, sent>>

-----------------------------------------------------------------------------
Tick ==
    \/ Drain \/ RemoveFiles \/ Dispatch \/ Dispatched
    \/ WorkDone
    \/ FlushNothing \/ FlushQueue \/ FlushSave \/ NoEdge \/ EpisodeEdge

Handlers == (\E a \in Alerts : Emit(a)) \/ Degrade

Environment == \E e \in Events : Dispatcher(e) \/ Hook(e) \/ Late(e)

Next == Tick \/ Handlers \/ Environment \/ Crash \/ Restart

Spec == Init /\ [][Next]_vars

(* run_daemon ticks for ever and the service manager restarts it.  30 s     *)
(* pass whatever the daemon does; it looks at the time when a drain starts. *)
Fairness ==
    /\ WF_vars(Tick)
    /\ WF_vars(Restart)
    /\ \A e \in Events : SF_vars(Late(e))

FairSpec == Spec /\ Fairness

-----------------------------------------------------------------------------
Steps == {"drain", "remove", "dispatch", "work", "flush", "flush_save", "edge",
          "reflush", "reflush_save", "down"}

Published(l) == \A i, j \in DOMAIN l.events : l.events[i].event = l.events[j].event => i = j

(* Both ledgers are well formed and hold an event once (events.rs,         *)
(* pending_events; the ledger's notification_events).                      *)
TypeOK ==
    /\ mem \in Ledgers /\ disk \in Ledgers
    /\ Published(mem) /\ Published(disk)
    /\ Len(mem.events) <= MaxLedger /\ Len(disk.events) <= MaxLedger
    /\ runtimeError \in BOOLEAN /\ dirty \in BOOLEAN
    /\ pc \in Steps
    /\ queue \in Seq(Events) /\ Cardinality(Range(queue)) = Len(queue)
    /\ answers \subseteq Answers
    /\ consumed.events \in Seq(Events) /\ consumed.answers \subseteq Answers
    /\ running \subseteq Events /\ late \subseteq Events
    /\ clock \in 0..MaxEpisodes
    /\ told \in Seq(Edges)
    /\ raised \subseteq [alert : Alerts, queued : BOOLEAN]

(* An event whose file was written is in the queue or in runtime.json,     *)
(* whatever fails and whenever the daemon crashes: drain removes the file  *)
(* only after the ledger that holds the event has been written.            *)
QueuedKept ==
    /\ \A r \in raised : r.queued => r.alert \in Range(queue) \union Known(disk)
    /\ \A i \in DOMAIN told : told[i] \in Range(queue) \union Known(disk)

(* No event is given to a dispatcher twice, although ledgers go unsaved and *)
(* dispatchers answer late or never; once more after a crash that hit       *)
(* between the start of the dispatcher and the note of it.                  *)
SentOnce == \A e \in DOMAIN sent : sent[e] <= 1 + faults.crash

(* A delivery that was recorded stays recorded: neither the answer of      *)
(* another session, nor the time limit, nor a second dispatch takes it     *)
(* back, across unsaved ledgers and crashes (supervisor.rs, the merges of  *)
(* drain_notification_events).                                             *)
DeliveriesStand ==
    \A i \in DOMAIN disk.events, t \in Transports :
        disk.events[i].delivery[t] = "delivered" =>
            \A j \in DOMAIN disk'.events :
                disk'.events[j].event = disk.events[i].event =>
                    disk'.events[j].delivery[t] = "delivered"

DeliveredKept == [][DeliveriesStand]_vars

(* The edges of protection episodes reach the queue as EpisodeEdges says:  *)
(* in turn, each once, none taken while one is owed, whatever fails        *)
(* between the ledger and the queue (update_pressure_episode).             *)
Promise ==
    INSTANCE EpisodeEdges WITH
        Episodes <- 1..MaxEpisodes,
        episode <- disk.started,
        owed <- IF disk.owed \in Range(told) THEN None ELSE disk.owed,
        told <- told

EdgesPromised == Promise!EdgesSpec

(* An edge that was taken is announced in the end, whatever fails.         *)
EdgesAnnounced ==
    \A e \in Edges : disk.owed = e ~> e \in Range(told)

(* Every event that was queued is settled in the end: a dispatcher was     *)
(* started and has answered or run out of time, or none could be started.  *)
(* It is the daemon's ledger that is meant, which state.json publishes: a  *)
(* settlement that could not be saved reaches runtime.json with the next   *)
(* write only, whoever makes it.                                           *)
EventsSettled ==
    \A e \in Events :
      e \in Range(queue) ~> \E i \in DOMAIN mem.events :
                               /\ mem.events[i].event = e
                               /\ mem.events[i].delivery["remote"] # "pending"

=============================================================================
