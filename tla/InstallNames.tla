----------------------------- MODULE InstallNames -----------------------------
(***************************************************************************)
(* Taking over the files of earlier releases (migrate_install_names).  An  *)
(* install renames what has a name of the Governor or of CMG, unless the   *)
(* new name is taken, across devices by a copy that is put in place before *)
(* its source is removed.  Then it rewrites the two pointers that name a   *)
(* directory, and the keys of the settings.  A run may fail or be killed   *)
(* at every step; the next install begins anew, with what is there then.   *)
(*                                                                         *)
(* A directory holds one value, where it came from; the directories of the *)
(* settings stand for the files in them, which are moved one by one.       *)
(***************************************************************************)
EXTENDS Integers, Sequences

CONSTANT NameStarts   \* what is where at the start, and how many runs fail

Pointers == {"state-dir", "federation-dir"}
Directories == {"cache", "instances", "volume"}
Kinds == Pointers \union Directories \union {"config"}

\* The legacy names and the current one; "volume" is a federation elsewhere.
Legacy == {"governor", "cmg"}
Places == Legacy \union {"new"}
Targets == [dir: Directories, place: Places]
Names(k) == IF k = "state-dir" THEN {"cache"} ELSE {"instances", "volume"}

Keys == {"current", "outdated", "legacy", "dead", "other"}
Values == {"none", "a", "b", "c"}

Nothing == [is |-> "nothing"]
Empty == [is |-> "empty"]
Malformed == [is |-> "malformed"]
Data == [is: {"data"}, from: Places]
PointerFiles == [is: {"pointer"}, to: Targets]
Settings == [is: {"settings"}, key: [Keys -> Values]]
Contents == {Nothing, Empty, Malformed} \union Data \union PointerFiles \union Settings

ASSUME NameAssumption ==
    \A start \in NameStarts :
        /\ start \in [store: [Kinds -> [Places -> Contents]], faults: Nat]
        /\ \A k \in Directories, p \in Places :
              start.store[k][p] \in {Nothing, [is |-> "data", from |-> p]}
        /\ \A k \in Pointers, p \in Places :
              \/ start.store[k][p] = Nothing
              \/ start.store[k][p] \in PointerFiles /\ start.store[k][p].to.dir \in Names(k)
        /\ \A p \in Places :
              start.store["config"][p] \in {Nothing, Malformed} \union Settings

\* The order of migrate_install_names.
MoveStep(k, p) == [do |-> "move", kind |-> k, from |-> p]
Plan == <<MoveStep("state-dir", "governor"), MoveStep("federation-dir", "governor"),
          MoveStep("instances", "governor"), MoveStep("state-dir", "cmg"),
          MoveStep("federation-dir", "cmg"), MoveStep("instances", "cmg"),
          MoveStep("cache", "governor"), MoveStep("cache", "cmg"),
          [do |-> "follow", kind |-> "state-dir", from |-> "new"],
          [do |-> "follow", kind |-> "federation-dir", from |-> "new"],
          MoveStep("config", "governor"), MoveStep("config", "cmg"),
          [do |-> "rewrite", kind |-> "config", from |-> "new"]>>
Finished == Len(Plan) + 1

VARIABLES
    store,      \* what is at each place
    pos,        \* the step of the plan; 0 before a run and after one that failed
    doing,      \* what the step is in the middle of
    nameLeft,   \* faults still to come
    begun       \* history: what was where at the start

namesVars == <<store, pos, doing, nameLeft, begun>>

Doings == {"look", "rename", "publish", "clean", "make", "point"}

-----------------------------------------------------------------------------
Exists(k, p) == store[k][p] # Nothing
Movable(k, p) == Exists(k, p) /\ ~Exists(k, "new")

NamesInitWith(start) ==
    /\ store = start.store
    /\ pos = 0
    /\ doing = "look"
    /\ nameLeft = start.faults
    /\ begun = start.store

NamesInit == \E start \in NameStarts : NamesInitWith(start)

Begin ==
    /\ pos \in {0, Finished}
    /\ pos' = 1 /\ doing' = "look"
    /\ UNCHANGED <<store, nameLeft, begun>>

Running == pos \in 1..Len(Plan)
Job == Plan[pos]
Then(d) == doing' = d /\ UNCHANGED pos
Advance == pos' = pos + 1 /\ doing' = "look"

\* rewrite_pointer: the legacy directory that a pointer names.
Pointed == store[Job.kind]["new"].to
Outdated(c) == c.is = "pointer" /\ c.to.place \in Legacy

\* What the step moves: the file itself, or the directory its pointer names.
Kind == IF Job.do = "follow" THEN Pointed.dir ELSE Job.kind
From == IF Job.do = "follow" THEN Pointed.place ELSE Job.from
Moved == IF Job.do = "follow" THEN Then("make") ELSE Advance

-----------------------------------------------------------------------------
(* move_if_absent. *)

Look ==
    /\ Running /\ doing = "look" /\ Job.do # "rewrite"
    /\ \/ /\ Job.do = "follow" /\ ~Outdated(store[Job.kind]["new"])
          /\ Advance
       \/ /\ Job.do = "follow" => Outdated(store[Job.kind]["new"])
          /\ IF Movable(Kind, From) THEN Then("rename") ELSE Moved
    /\ UNCHANGED <<store, nameLeft, begun>>

\* One rename, or, across devices, a complete copy under a temporary name.
Rename ==
    /\ Running /\ doing = "rename"
    /\ \/ /\ store' = [store EXCEPT ![Kind]["new"] = store[Kind][From],
                                    ![Kind][From] = Nothing]
          /\ Moved
       \/ Then("publish") /\ UNCHANGED store
    /\ UNCHANGED <<nameLeft, begun>>

(* Mutant: the source is removed before the copy is in place. *)
CleanFirst ==
    /\ Running /\ doing = "publish"
    /\ store' = [store EXCEPT ![Kind][From] = Nothing]
    /\ Then("clean")
    /\ UNCHANGED <<nameLeft, begun>>

Publish ==
    /\ Running /\ doing = "publish"
    /\ store' = [store EXCEPT ![Kind]["new"] = store[Kind][From]]
    /\ Then("clean")
    /\ UNCHANGED <<nameLeft, begun>>

Clean ==
    /\ Running /\ doing = "clean"
    /\ store' = [store EXCEPT ![Kind][From] = Nothing]
    /\ Moved
    /\ UNCHANGED <<nameLeft, begun>>

(* rewrite_pointer, after the directory is moved. *)

Make ==
    /\ Running /\ doing = "make"
    /\ store' = IF Exists(Kind, "new") THEN store
                ELSE [store EXCEPT ![Kind]["new"] = Empty]
    /\ Then("point")
    /\ UNCHANGED <<nameLeft, begun>>

Point ==
    /\ Running /\ doing = "point"
    /\ store' = [store EXCEPT ![Job.kind]["new"] =
                    [is |-> "pointer", to |-> [dir |-> Kind, place |-> "new"]]]
    /\ Advance
    /\ UNCHANGED <<nameLeft, begun>>

(* rewrite_legacy_json: a current key before an outdated, before a legacy one. *)

FirstOf(a, b) == IF a # "none" THEN a ELSE b

(* Mutant: a legacy key comes before a current one. *)
RewrittenLegacyFirst(c) ==
    [c EXCEPT !.key = [k \in Keys |->
        CASE k = "current" -> FirstOf(@["legacy"], FirstOf(@["current"], @["outdated"]))
          [] k = "other" -> @["other"]
          [] OTHER -> "none"]]

Rewritten(c) ==
    [c EXCEPT !.key = [k \in Keys |->
        CASE k = "current" -> FirstOf(@["current"], FirstOf(@["outdated"], @["legacy"]))
          [] k = "other" -> @["other"]
          [] OTHER -> "none"]]

\* A malformed file is left unchanged, and the run fails.
Rewrite ==
    /\ Running /\ doing = "look" /\ Job.do = "rewrite"
    /\ IF store["config"]["new"] = Malformed
       THEN pos' = 0 /\ UNCHANGED <<store, doing>>
       ELSE /\ Advance
            /\ store' = IF Exists("config", "new")
                        THEN [store EXCEPT !["config"]["new"] = Rewritten(@)] ELSE store
    /\ UNCHANGED <<nameLeft, begun>>

\* An operation fails, or the run is killed: it ends where it is.
Break ==
    /\ Running /\ nameLeft > 0
    /\ nameLeft' = nameLeft - 1
    /\ pos' = 0 /\ doing' = "look"
    /\ UNCHANGED <<store, begun>>

NamesNext ==
    Begin \/ Look \/ Rename \/ Publish \/ Clean \/ Make \/ Point \/ Rewrite \/ Break

NamesSpec == NamesInit /\ [][NamesNext]_namesVars

-----------------------------------------------------------------------------
(* Properties. *)

\* A pointer names a directory it may name; a directory holds what it came with.
NamesTypeOK ==
    /\ store \in [Kinds -> [Places -> Contents]]
    /\ \A p \in Places :
          /\ \A k \in Directories : store[k][p] \in {Nothing, Empty} \union Data
          /\ \A k \in Pointers :
                \/ store[k][p] = Nothing
                \/ store[k][p] \in PointerFiles /\ store[k][p].to.dir \in Names(k)
          /\ store["config"][p] \in {Nothing, Malformed} \union Settings
    /\ pos \in 0..Finished
    /\ doing \in Doings
    /\ nameLeft \in Nat
    /\ begun \in [Kinds -> [Places -> Contents]]

\* What is left of c after a run: a pointer that follows, settings rewritten.
Renewed(c) ==
    IF c.is = "settings" THEN Rewritten(c)
    ELSE IF c.is = "pointer" THEN [c EXCEPT !.to = [@ EXCEPT !.place = "new"]]
    ELSE c

\* Nothing an earlier release left is lost, wherever a run fails or is killed: it
\* is at some place, as it was or renewed.
NamesKept ==
    \A k \in Kinds, p \in Places :
        begun[k][p] # Nothing =>
            \E q \in Places : store[k][q] \in {begun[k][p], Renewed(begun[k][p])}

\* The file of kind k that the new release is to read: its own before one of the
\* Governor before one of CMG.
Chosen(k) ==
    IF begun[k]["new"] # Nothing THEN begun[k]["new"]
    ELSE IF begun[k]["governor"] # Nothing THEN begun[k]["governor"] ELSE begun[k]["cmg"]

\* The new name of a directory is taken by another one.
Taken(t) ==
    /\ t.place \in Legacy
    /\ \/ begun[t.dir]["new"] # Nothing
       \/ t.dir # "volume" /\ t.place = "cmg" /\ begun[t.dir]["governor"] # Nothing

\* After a run that got through, whatever earlier runs left half done: what there
\* was of a kind has its new name; the pointers name, by the new name, what they
\* named before, unless that name was taken; and of several keys of a setting the
\* newest one counts.
SettledAtEnd ==
    pos = Finished =>
        /\ \A k \in Kinds \ {"volume"} :
              (\E p \in Places : begun[k][p] # Nothing) => Exists(k, "new")
        /\ \A k \in Pointers :
              Chosen(k) # Nothing =>
                /\ ~Outdated(store[k]["new"])
                /\ LET t == store[k]["new"].to
                       u == Chosen(k).to
                   IN  begun[u.dir][u.place] # Nothing /\ ~Taken(u) =>
                         store[t.dir][t.place] = begun[u.dir][u.place]
        /\ Chosen("config") # Nothing =>
              LET now == store["config"]["new"].key
                  was == Chosen("config").key
              IN  /\ \A k \in {"outdated", "legacy", "dead"} : now[k] = "none"
                  /\ now["other"] = was["other"]
                  /\ now["current"] =
                        IF \E k \in {"current", "outdated"} : was[k] # "none"
                        THEN was[IF was["current"] # "none" THEN "current" ELSE "outdated"]
                        ELSE was["legacy"]

=============================================================================
