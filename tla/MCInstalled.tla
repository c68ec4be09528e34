----------------------------- MODULE MCInstalled -----------------------------
(* What is installed beside the Codex App, for TLC: AppGuard under one of   *)
(* three bounds, two pauses with a fault, two pauses with an owner who asks *)
(* for something, or one pause with all of that and a second fault;         *)
(* HookInstall; InstallNames.  A behaviour exercises one of the five,       *)
(* `part`, chosen at the start; what it does not exercise stays as it was.  *)
EXTENDS AppGuard, HookInstall, InstallNames

CONSTANTS p1, w1, d1, h1, h2

VARIABLE part

(* HookInstall: scripts of both sides and a daemon on Windows. *)

WindowsSide == [a \in {p1, w1, d1} |-> IF a = p1 THEN "posix" ELSE "windows"]

Ours(posix, windows) ==
    [shape |-> "object", before |-> {h1}, own |-> [posix |-> posix, windows |-> windows],
     mixed |-> {}, after |-> {}, twin |-> FALSE]
Connect(p, f, answers, who, edits) ==
    [provider |-> p, hooks |-> f, cli |-> [posix |-> answers, windows |-> {"supported"}],
     approved |-> TRUE, absent |-> {p1, w1, d1} \ who, edits |-> edits, faults |-> 1]
NotOurs == {NoHooks} \union {[NoHooks EXCEPT !.shape = s] : s \in Shapes \ {"none"}}

HookCases ==
    {Connect("codex", Ours("old", "new"), {"supported"}, {p1, d1}, 1),
     Connect("codex", Ours("old", "new"), {"supported"}, {p1, w1, d1}, 0),
     Connect("codex", Ours("none", "none"), {"supported"}, {d1}, 1),
     Connect("claude", Ours("new", "new"), {"supported"}, {p1, w1}, 1)}
    \union {Connect(p, f, answers, {p1, d1}, 0) :
              p \in Providers, f \in NotOurs, answers \in {{}, {"older", "supported"}}}

(* InstallNames: the pointer to the cache and the cache, the pointer to the *)
(* federation and its directory, or the settings, wherever they may be.     *)

Dirs(ps) == [p \in Places |-> IF p \in ps THEN [is |-> "data", from |-> p] ELSE Nothing]
PointerAt(ps, d, place) ==
    [p \in Places |-> IF p \in ps
                      THEN [is |-> "pointer", to |-> [dir |-> d, place |-> place]]
                      ELSE Nothing]
SettingsAt(ps, current, outdated, legacy) ==
    [p \in Places |-> IF p \in ps
                      THEN [is |-> "settings",
                            key |-> [k \in Keys |-> CASE k = "current" -> current
                                                      [] k = "outdated" -> outdated
                                                      [] k = "legacy" -> legacy
                                                      [] OTHER -> "b"]]
                      ELSE Nothing]
MalformedAt(ps) == [p \in Places |-> IF p \in ps THEN Malformed ELSE Nothing]

Earlier ==
    [k \in Kinds |-> CASE k = "state-dir" -> PointerAt({"governor"}, "cache", "governor")
                       [] k = "federation-dir" -> PointerAt({}, "instances", "cmg")
                       [] k = "cache" -> Dirs({"governor"})
                       [] k = "config" -> SettingsAt({"cmg"}, "none", "b", "c")
                       [] OTHER -> Dirs({"cmg"})]
PointedAt == {{"governor"}, {"cmg"}, {"governor", "new"}}

NameCases ==
    {[store |-> s, faults |-> 2] : s \in
        {[Earlier EXCEPT !["state-dir"] = PointerAt(ps, "cache", place), !["cache"] = Dirs(ds)] :
           ps \in PointedAt, place \in Places, ds \in SUBSET Places}
        \union
        {[Earlier EXCEPT !["federation-dir"] = PointerAt(ps, d, place), ![d] = Dirs(ds)] :
           ps \in PointedAt, d \in Names("federation-dir"), place \in Legacy,
           ds \in SUBSET Places}
        \union
        {[Earlier EXCEPT !["config"] = c] : c \in
           {SettingsAt(ps, now, "b", legacy) :
              ps \in PointedAt, now \in {"none", "a"}, legacy \in {"none", "c"}}
           \union {MalformedAt(ps) : ps \in PointedAt}}}

-----------------------------------------------------------------------------
(* The five parts. *)

Asked == INSTANCE AppGuard WITH MaxRequests <- 1, MaxFaults <- 0
Once == INSTANCE AppGuard WITH MaxEpisodes <- 1, MaxRequests <- 1, MaxFaults <- 2

all == <<part, vars, hooksVars, namesVars>>

GuardPart == UNCHANGED <<part, hooksVars, namesVars>>
HooksPart == part = "hooks" /\ UNCHANGED <<part, vars, namesVars>>
NamesPart == part = "names" /\ UNCHANGED <<part, vars, hooksVars>>

HooksIdle == HooksInitWith(Connect("claude", NoHooks, {}, {}, 0))
NamesIdle == NamesInitWith([store |-> Earlier, faults |-> 0])

MCInit ==
    \/ part = "twice" /\ Init /\ HooksIdle /\ NamesIdle
    \/ part = "asked" /\ Asked!Init /\ HooksIdle /\ NamesIdle
    \/ part = "once" /\ Once!Init /\ HooksIdle /\ NamesIdle
    \/ part = "hooks" /\ Init /\ HooksInit /\ NamesIdle
    \/ part = "names" /\ Init /\ HooksIdle /\ NamesInit

MCNext ==
    \/ part = "twice" /\ GuardPart /\ Next
    \/ part = "asked" /\ GuardPart /\ Asked!Next
    \/ part = "once" /\ GuardPart /\ Once!Next
    \/ HooksPart /\ HooksNext
    \/ NamesPart /\ NamesNext

MCSpec == MCInit /\ [][MCNext]_all

=============================================================================
