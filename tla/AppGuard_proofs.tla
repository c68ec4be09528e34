--------------------------- MODULE AppGuard_proofs ---------------------------
(***************************************************************************)
(* Theorems about AppGuard, for any number of pauses, of requests of the   *)
(* owner, and of faults.                                                   *)
(***************************************************************************)
EXTENDS AppGuard, FiniteSetTheorems, TLAPS

-----------------------------------------------------------------------------
(* The type invariant without its count of token files. *)
TypeInv ==
    /\ server \in {"run", "stop", "gone"}
    /\ ledger \in Ledgers /\ disk \in Ledgers /\ previous \in Ledgers
    /\ runtimeError \in BOOLEAN /\ inflight \in BOOLEAN /\ dirty \in BOOLEAN
    /\ pc \in Steps
    /\ seen \in [server : BOOLEAN, other : BOOLEAN]
    /\ assess \in {"safe", "hold", "collapse"}
    /\ op \in [what : {"none", "resume", "kill"}, cancelled : BOOLEAN]
    /\ request \in {"none", "resume", "kill"}
    /\ files \in [Episodes -> SUBSET (Tokens \union Receipts)]
    /\ guard \in [Episodes -> GuardSteps]
    /\ episodes \in 0..MaxEpisodes

-----------------------------------------------------------------------------
(* The token and its guard.                                                 *)

TokenFiles == Tokens \union {"suspended"}

(* A token is one file, and which file says how far its guard has come; the *)
(* files that tell of an end are written when the token is gone.            *)
OneToken == \A e \in Episodes : \A s, t \in files[e] \intersect TokenFiles : s = t

GuardAgrees ==
    \A e \in Episodes :
      /\ guard[e] \in {"none", "start", "arm"} => files[e] = {}
      /\ "armed" \in files[e] => guard[e] \in {"wait", "dead"}
      /\ "committed" \in files[e] => guard[e] \in {"wait", "check", "claim", "dead"}
      /\ "signalling" \in files[e] => guard[e] \in {"signal", "ack", "undo", "exit", "dead"}
      /\ guard[e] \in {"signal", "ack", "undo"} => "signalling" \in files[e]
      /\ guard[e] \in {"sleep", "release"} => "suspended" \in files[e]
      /\ files[e] \intersect Tokens # {} => files[e] \intersect Receipts = {}

TokenInv == OneToken /\ GuardAgrees

-----------------------------------------------------------------------------
(* The numbers of the episodes.                                             *)

Attempting == {"launch", "wait_armed", "commit", "wait_suspended", "unconfirmed",
               "activate", "undo", "cancel"}

Numbered(l) == l.episode <= episodes /\ l.pending \in {0, l.episode}

LedgersNumbered ==
    /\ Numbered(ledger) /\ Numbered(disk) /\ Numbered(previous)
    /\ ~previous.stopped /\ previous.pending = 0
    /\ ledger.stopped => ledger.episode # 0
    /\ disk.stopped => disk.episode # 0
    /\ ledger.stopped => pc # "down" /\ disk.stopped

AttemptNumbered ==
    /\ pc \in Attempting \union {"rec_commit"} => ledger.stopped
    /\ pc \in Attempting => ledger.episode = episodes
    /\ pc = "launch" => guard[episodes] = "none"
    /\ \A e \in Episodes : guard[e] # "none" => e <= episodes

LostNumbered ==
    /\ lost \subseteq Episodes
    /\ \A e \in lost : e <= episodes \/ 1 \in lost

NumberInv == LedgersNumbered /\ AttemptNumbered /\ LostNumbered

-----------------------------------------------------------------------------
(* Who may stop the server.                                                 *)

(* The guard of e may still send the pause. *)
Out(e) ==
    \/ guard[e] = "signal"
    \/ "committed" \in files[e] /\ guard[e] \in {"wait", "check", "claim"}

(* Its token is about to be committed. *)
Coming(e) == pc \in {"launch", "wait_armed", "commit"} /\ ledger.episode = e

(* Nothing was lost before, and there is a server. *)
Whole(e) == lost \intersect 1..e = {} /\ server # "gone"

Owns(l, e) == l.stopped /\ l.episode = e /\ l.phase \in OpenPhases /\ l.pending = e

(* While a pause is on its way to the server, both ledgers have it as their *)
(* own, the server runs, and no later attempt has begun.                    *)
Poised(e) ==
    /\ server = "run"
    /\ Owns(disk, e)
    /\ pc # "down" => Owns(ledger, e)
    /\ \A x \in Episodes : x > e => guard[x] = "none"

PoisedInv == \A e \in Episodes : Whole(e) /\ (Out(e) \/ Coming(e)) => Poised(e)

(* No pause is on its way. *)
Calm == \A e \in Episodes : ~(Whole(e) /\ Out(e))

(* Steps before which the daemon, or the owner, has made sure of that. *)
Settled ==
    \/ pc \in {"launch", "wait_armed", "commit", "activate", "undo", "cancel",
               "ctl_intent", "ctl_signal", "ctl_commit"}
    \/ pc = "act" /\ ~inflight

SettledInv == Settled => Calm

(* A pause is confirmed on its receipt alone. *)
ReceiptInv == pc \in {"activate", "undo"} => "suspended" \in files[ledger.episode]

(* A server the tick did not list has exited. *)
SeenInv == pc \notin {"down", "idle"} /\ ~seen.server => server = "gone"

(* A stopped server is on record while nothing was lost.                    *)
StoppedInv ==
    server = "stop" /\ lost = {} =>
        /\ disk.stopped
        /\ pc # "down" => ledger.stopped
        /\ pc # "ctl_commit"

AuthorityInv == PoisedInv /\ SettledInv /\ ReceiptInv /\ SeenInv /\ StoppedInv

GuardInv == TypeInv /\ TokenInv /\ NumberInv /\ AuthorityInv

-----------------------------------------------------------------------------
(* What holds at the start. *)
LEMMA InitGuard == Init => GuardInv
<1> SUFFICES ASSUME Init PROVE GuardInv
  OBVIOUS
<1>1. TypeInv
  <2>1. 0 \in 0..MaxEpisodes
    BY GuardAssumption
  <2>2. EmptyLedger \in Ledgers
    BY <2>1 DEF EmptyLedger, Ledgers
  <2>3. /\ files \in [Episodes -> SUBSET (Tokens \union Receipts)]
        /\ guard \in [Episodes -> GuardSteps]
    BY DEF Init, GuardSteps
  <2> QED BY <2>1, <2>2, <2>3 DEF Init, TypeInv, NoOp, Steps
<1>2. TokenInv
  BY DEF Init, TokenInv, OneToken, GuardAgrees
<1>3. NumberInv
  BY DEF Init, NumberInv, LedgersNumbered, AttemptNumbered, LostNumbered, Numbered,
         EmptyLedger, Attempting
<1>4. AuthorityInv
  BY DEF Init, AuthorityInv, PoisedInv, SettledInv, ReceiptInv, SeenInv, StoppedInv,
         Settled, Out, Coming, EmptyLedger
<1> QED BY <1>1, <1>2, <1>3, <1>4 DEF GuardInv

-----------------------------------------------------------------------------
(* The token.                                                               *)

(* A step of a guard, or its end, is about its own episode. *)
GuardAct(e) == GuardStep(e) \/ GuardDies(e)

LEMMA GuardTouches ==
    ASSUME TypeInv, NEW e \in Episodes, GuardAct(e)
    PROVE  /\ guard[e] # "none"
           /\ guard' \in [Episodes -> GuardSteps]
           /\ files' \in [Episodes -> SUBSET (Tokens \union Receipts)]
           /\ \A x \in Episodes \ {e} : guard'[x] = guard[x] /\ files'[x] = files[x]
           /\ UNCHANGED <<daemonVars, disk, request, episodes, lost>>
           /\ server' \in {"run", "stop", "gone"}
           /\ server = "gone" <=> server' = "gone"
           /\ server' = "stop" => server = "stop" \/ guard[e] = "signal"
BY DEF TypeInv, GuardAct, GuardStep, GuardStart, GuardArm, GuardSeesToken, GuardSeesEnd,
       GuardGivesUp, GuardCheck, GuardClaim, GuardSignal, GuardAck, GuardUndo, GuardWake,
       GuardRelease, GuardDies, GuardOnly, GuardGoes, Put, Move, Delivered, Refused,
       GuardSteps, Tokens, Receipts

(* What becomes of its files. *)
LEMMA GuardFiles ==
    ASSUME TypeInv, TokenInv, NEW e \in Episodes, GuardAct(e)
    PROVE  /\ \A s, t \in files'[e] \intersect TokenFiles : s = t
           /\ guard'[e] \notin {"none", "start"}
           /\ guard'[e] = "arm" => files'[e] = {}
           /\ "armed" \in files'[e] => guard'[e] \in {"wait", "dead"}
           /\ "committed" \in files'[e] => guard'[e] \in {"wait", "check", "claim", "dead"}
           /\ "signalling" \in files'[e] =>
                guard'[e] \in {"signal", "ack", "undo", "exit", "dead"}
           /\ guard'[e] \in {"signal", "ack", "undo"} => "signalling" \in files'[e]
           /\ guard'[e] \in {"sleep", "release"} => "suspended" \in files'[e]
           /\ files'[e] \intersect Tokens # {} => files'[e] \intersect Receipts = {}
           /\ "suspended" \in files[e] => "suspended" \in files'[e]
           /\ Out(e)' => Out(e)
<1> DEFINE f == files[e]  g == guard[e]
<1>0. /\ f \subseteq Tokens \union Receipts /\ g \in GuardSteps
      /\ \A s, t \in f \intersect TokenFiles : s = t
      /\ g \in {"none", "start", "arm"} => f = {}
      /\ "armed" \in f => g \in {"wait", "dead"}
      /\ "committed" \in f => g \in {"wait", "check", "claim", "dead"}
      /\ "signalling" \in f => g \in {"signal", "ack", "undo", "exit", "dead"}
      /\ g \in {"signal", "ack", "undo"} => "signalling" \in f
      /\ g \in {"sleep", "release"} => "suspended" \in f
      /\ f \intersect Tokens # {} => f \intersect Receipts = {}
  BY DEF TypeInv, TokenInv, OneToken, GuardAgrees
<1>1. CASE GuardStart(e) \/ GuardSeesToken(e) \/ GuardSeesEnd(e) \/ GuardDies(e)
  <2>1. files'[e] = f /\ guard'[e] \in GuardSteps
    BY <1>1 DEF GuardStart, GuardSeesToken, GuardSeesEnd, GuardDies, GuardGoes, TypeInv,
                GuardSteps
  <2> QED BY <1>0, <1>1, <2>1
      DEF GuardStart, GuardSeesToken, GuardSeesEnd, GuardDies, GuardGoes, TypeInv,
          TokenFiles, Tokens, Receipts, Out, Dead, GuardSteps
<1>2. CASE GuardArm(e)
  BY <1>0, <1>2 DEF GuardArm, GuardGoes, Put, FileFails, TypeInv, TokenFiles, Tokens, Receipts,
                    Out
<1>3. CASE GuardGivesUp(e)
  BY <1>0, <1>3 DEF GuardGivesUp, GuardGoes, Move, TypeInv, TokenFiles, Tokens, Receipts, Out
<1>4. CASE GuardCheck(e)
  BY <1>0, <1>4 DEF GuardCheck, GuardGoes, Move, TypeInv, TokenFiles, Tokens, Receipts, Out
<1>5. CASE GuardClaim(e)
  BY <1>0, <1>5 DEF GuardClaim, GuardGoes, Move, TypeInv, TokenFiles, Tokens, Receipts, Out
<1>6. CASE GuardSignal(e)
  BY <1>0, <1>6 DEF GuardSignal, GuardGoes, Move, TypeInv, TokenFiles, Tokens, Receipts, Out
<1>7. CASE GuardAck(e)
  BY <1>0, <1>7 DEF GuardAck, GuardGoes, Move, TypeInv, TokenFiles, Tokens, Receipts, Out
<1>8. CASE GuardUndo(e)
  BY <1>0, <1>8 DEF GuardUndo, GuardGoes, Move, TypeInv, TokenFiles, Tokens, Receipts, Out
<1>9. CASE GuardWake(e)
  BY <1>0, <1>9 DEF GuardWake, GuardGoes, Put, TypeInv, TokenFiles, Tokens, Receipts, Out
<1>10. CASE GuardRelease(e)
  BY <1>0, <1>10 DEF GuardRelease, GuardGoes, Put, TypeInv, TokenFiles, Tokens, Receipts, Out
<1> QED BY <1>1, <1>2, <1>3, <1>4, <1>5, <1>6, <1>7, <1>8, <1>9, <1>10
    DEF GuardAct, GuardStep

(* The other steps that touch the token: the daemon starts a guard, commits *)
(* its token, or the owner takes the token back.                            *)
LEMMA TokenMoves ==
    ASSUME [Next]_vars
    PROVE  \/ \E e \in Episodes : GuardAct(e)
           \/ Launch \/ Commit \/ ControlTakeToken
           \/ UNCHANGED guardVars
<1>1. CASE \E e \in Episodes : GuardAct(e)
  BY <1>1
<1>2. CASE TickStart \/ Reconcile
  BY <1>2 DEF TickStart, Reconcile, ReconcileLook, ReconcileReplaced,
       ReconcileReplaceRefused, ReconcileGone, TakeOver, ReconcileInFlight,
       ReconcileUncommitted, ReconcileResumed, ReconcileActive, ReconcileMissing,
       ReconcileFinish, Acts
<1>3. CASE Control \/ Pressure
  BY <1>3 DEF Control, ControlRefuse, ControlIntent, ControlSignal, ControlCommit,
       ControlDone, Pressure, Recover, RecoverCommit, PressureIdle, guardVars
<1>4. CASE LastResort
  BY <1>4 DEF LastResort, Prepare, WaitArmed, WaitSuspended, Unconfirmed, Activate,
       ActivateUndo, Cancel
<1>5. CASE Crash \/ Restart \/ ServerExits \/ ExternalResume \/ Submit \/ UNCHANGED vars
  BY <1>5 DEF Crash, Restart, ServerExits, ExternalResume, Submit, vars, guardVars
<1> QED BY <1>1, <1>2, <1>3, <1>4, <1>5 DEF Next, Daemon, Environment, GuardAct

LEMMA OpenEpisode ==
    ASSUME TypeInv, NumberInv, ledger.stopped
    PROVE  ledger.episode \in Episodes
BY DEF TypeInv, Ledgers, NumberInv, LedgersNumbered, Episodes

(* No pause is put on its way but by the daemon's commit. *)
NoneSent == \A e \in Episodes : Out(e)' => Out(e)

LEMMA TokenStep ==
    ASSUME TypeInv, TokenInv, NumberInv, [Next]_vars
    PROVE  TokenInv' /\ (NoneSent \/ Commit)
<1>1. CASE \E e \in Episodes : GuardAct(e)
  <2> PICK e \in Episodes : GuardAct(e)
    BY <1>1
  <2>1. \A x \in Episodes \ {e} : guard'[x] = guard[x] /\ files'[x] = files[x]
    BY GuardTouches
  <2>2. OneToken'
    BY <2>1, GuardFiles DEF TokenInv, OneToken, TokenFiles
  <2>3. GuardAgrees'
    BY <2>1, GuardFiles DEF TokenInv, GuardAgrees
  <2>4. NoneSent
    BY <2>1, GuardFiles DEF NoneSent, Out
  <2> QED BY <2>2, <2>3, <2>4 DEF TokenInv
<1>2. CASE Launch
  <2>1. /\ files' = files
        /\ \A x \in Episodes : \/ guard'[x] = guard[x]
                               \/ guard[x] = "none" /\ guard'[x] = "start"
    BY <1>2 DEF Launch, GuardGoes, TypeInv, NumberInv, AttemptNumbered, Attempting
  <2> QED BY <2>1 DEF TokenInv, OneToken, GuardAgrees, NoneSent, Out
<1>3. CASE Commit
  <2>1. CASE UNCHANGED files
    BY <1>3, <2>1 DEF Commit, TokenInv, OneToken, GuardAgrees
  <2>2. CASE files' # files
    <3> DEFINE a == ledger.episode
    <3>1. /\ "armed" \in files[a] /\ guard' = guard
          /\ files' = [files EXCEPT ![a] = (files[a] \ {"armed"}) \union {"committed"}]
      BY <1>3, <2>2 DEF Commit, Move
    <3> HIDE DEF a
    <3>2. \A x \in Episodes : \/ files'[x] = files[x]
                             \/ /\ "armed" \in files[x]
                                /\ files'[x] = (files[x] \ {"armed"}) \union {"committed"}
      BY <3>1 DEF TypeInv
    <3>3. OneToken'
      BY <3>2 DEF TokenInv, OneToken, TokenFiles, Tokens
    <3>4. GuardAgrees'
      BY <3>1, <3>2 DEF TokenInv, OneToken, GuardAgrees, TokenFiles, Tokens, Receipts
    <3> QED BY <1>3, <3>3, <3>4 DEF TokenInv
  <2> QED BY <1>3, <2>1, <2>2
<1>4. CASE ControlTakeToken
  <2> DEFINE Taken(x, t) ==
        /\ t \in files[x]
        /\ t = "committed" \/ (t = "signalling" /\ Dead(x))
        /\ files'[x] = (files[x] \ {t}) \union {"cancelled"}
  <2>1. /\ guard' = guard
        /\ \A x \in Episodes : files'[x] = files[x] \/ \E t \in Tokens : Taken(x, t)
    BY <1>4 DEF ControlTakeToken, Takeable, Token, Move, TypeInv
  <2>2. ASSUME NEW x \in Episodes, NEW t \in Tokens, Taken(x, t)
        PROVE  /\ \A s, u \in files'[x] \intersect TokenFiles : s = u
               /\ files'[x] \intersect Tokens = {}
               /\ guard[x] \notin {"none", "start", "arm", "signal", "ack", "undo", "sleep", "release"}
    BY <2>2 DEF TokenInv, OneToken, GuardAgrees, TokenFiles, Tokens, Receipts, Dead
  <2>3. OneToken'
    BY <2>1, <2>2 DEF TokenInv, OneToken
  <2>4. GuardAgrees'
    BY <2>1, <2>2 DEF TokenInv, GuardAgrees, Tokens
  <2>5. NoneSent
    BY <2>1, <2>2 DEF NoneSent, Out, Tokens
  <2> QED BY <2>3, <2>4, <2>5 DEF TokenInv
<1>5. CASE UNCHANGED guardVars
  BY <1>5 DEF guardVars, TokenInv, OneToken, GuardAgrees, NoneSent, Out
<1> QED BY <1>1, <1>2, <1>3, <1>4, <1>5, TokenMoves

(* A token that was taken back is not there to signal with.                 *)
LEMMA CancelledStep ==
    ASSUME TypeInv, TokenInv
    PROVE  CancelledUnused
<1> SUFFICES ASSUME NEW e \in Episodes, guard[e] = "signal"
             PROVE  "cancelled" \notin files[e]
  BY DEF CancelledUnused, TypeInv
<1> QED BY DEF TokenInv, GuardAgrees, Tokens, Receipts

-----------------------------------------------------------------------------
(* What a ledger says of the server, and what a step makes of it.           *)

(* The same pause, or the same none. *)
SameClaim(l, m) ==
    /\ m \in Ledgers
    /\ m.stopped = l.stopped /\ m.episode = l.episode /\ m.pending = l.pending
    /\ l.phase \in OpenPhases => m.phase \in OpenPhases

(* The pause is given up. *)
GivesUp(l, m) ==
    /\ m \in Ledgers
    /\ ~m.stopped /\ m.episode = l.episode
    /\ m.phase = "closed" /\ m.pending \in {0, l.pending}

(* The pause has come a step further. *)
Advances(l, m) ==
    /\ m \in Ledgers
    /\ m.stopped = l.stopped /\ m.episode = l.episode
    /\ m.phase \in OpenPhases /\ m.pending \in {0, l.pending}

LEMMA LedgerForms ==
    ASSUME NEW l \in Ledgers
    PROVE  /\ \A c \in BOOLEAN : SameClaim(l, [l EXCEPT !.cooldown = c])
           /\ \A k \in {"none", "resume", "kill"} : SameClaim(l, [l EXCEPT !.control = k])
           /\ GivesUp(l, Closed(l))
           /\ GivesUp(l, [Closed(l) EXCEPT !.cooldown = TRUE, !.pending = 0])
           /\ GivesUp(l, [Closed(l) EXCEPT !.pending = 0])
           /\ GivesUp(l, [Closed(l) EXCEPT !.pending = 0, !.control = "none"])
           /\ GivesUp(l, [Closed(l) EXCEPT !.cooldown = TRUE, !.pending = 0,
                                           !.control = "none"])
           /\ \A c \in BOOLEAN :
                GivesUp(l, [Closed(l) EXCEPT !.control = "none", !.pending = 0,
                                             !.cooldown = @ \/ c])
           /\ Advances(l, [l EXCEPT !.pending = 0, !.phase = "active"])
           /\ Advances(l, [l EXCEPT !.phase = "active", !.pending = 0])
           /\ SameClaim(l, [l EXCEPT !.phase = "committed"])
           /\ SameClaim(l, l)
<1> DEFINE c == Closed(l)
<1>0. 0 \in 0..MaxEpisodes
  BY GuardAssumption
<1>1. /\ c \in Ledgers /\ ~c.stopped /\ c.episode = l.episode
      /\ c.phase = "closed" /\ c.pending = l.pending
  BY DEF Closed, Ledgers
<1>2. GivesUp(l, c)
  BY <1>1 DEF GivesUp
<1> HIDE DEF c
<1>3. /\ GivesUp(l, [c EXCEPT !.cooldown = TRUE, !.pending = 0])
      /\ GivesUp(l, [c EXCEPT !.pending = 0])
      /\ GivesUp(l, [c EXCEPT !.pending = 0, !.control = "none"])
      /\ GivesUp(l, [c EXCEPT !.cooldown = TRUE, !.pending = 0, !.control = "none"])
  BY <1>0, <1>1 DEF GivesUp, Ledgers
<1>4. ASSUME NEW b \in BOOLEAN
      PROVE  GivesUp(l, [c EXCEPT !.control = "none", !.pending = 0, !.cooldown = @ \/ b])
  BY <1>0, <1>1 DEF GivesUp, Ledgers
<1>5. /\ Advances(l, [l EXCEPT !.pending = 0, !.phase = "active"])
      /\ Advances(l, [l EXCEPT !.phase = "active", !.pending = 0])
  BY <1>0 DEF Advances, Ledgers, OpenPhases
<1>6. /\ \A b \in BOOLEAN : SameClaim(l, [l EXCEPT !.cooldown = b])
      /\ \A k \in {"none", "resume", "kill"} : SameClaim(l, [l EXCEPT !.control = k])
      /\ SameClaim(l, [l EXCEPT !.phase = "committed"])
      /\ SameClaim(l, l)
  BY DEF SameClaim, Ledgers, OpenPhases
<1> QED BY <1>2, <1>3, <1>4, <1>5, <1>6 DEF c

-----------------------------------------------------------------------------
(* What is known of a pause that is on its way. *)
LEMMA RiskKnown ==
    ASSUME GuardInv, NEW e \in Episodes, Whole(e), Out(e)
    PROVE  /\ server = "run" /\ Owns(disk, e)
           /\ pc # "down" => Owns(ledger, e) /\ InFlight
           /\ ~Settled
<1>1. Poised(e)
  BY DEF GuardInv, AuthorityInv, PoisedInv
<1>2. files[e] \intersect {"committed", "signalling"} # {} /\ ~Dead(e)
  BY DEF Out, GuardInv, TokenInv, GuardAgrees, Dead
<1>3. files[e] \intersect Receipts = {}
  BY <1>2 DEF GuardInv, TokenInv, GuardAgrees, Tokens
<1>4. e # 0
  BY DEF Episodes
<1> QED BY <1>1, <1>2, <1>3, <1>4 DEF Poised, Owns, InFlight, GuardInv, AuthorityInv,
                                SettledInv, Calm

(* Nothing of it is given up unnoticed. *)
Noticed == \A e \in Episodes : Whole(e) /\ Out(e) => e \in lost'

LEMMA NoticedBy ==
    ASSUME GuardInv, pc # "down"
    PROVE  Settled \/ server # "run" \/ ~InFlight \/ ~ledger.stopped => Calm /\ Noticed
BY RiskKnown DEF Calm, Noticed, Owns

(* A step of the daemon, as the claim on the server and the server see it.  *)
ClaimStep ==
    /\ pc # "down" /\ pc' # "down"
    /\ disk' = disk \/ disk' = ledger'
    /\ previous' = previous \/ previous' = EmptyLedger
    /\ episodes' = episodes
    /\ lost \subseteq lost'
    /\ server' = server \/ (server # "gone" /\ server' \in {"run", "gone"})
    /\ \/ SameClaim(ledger, ledger')
       \/ Advances(ledger, ledger') /\ Noticed
       \/ GivesUp(ledger, ledger') /\ Noticed /\ (server' = "stop" => lost' # {})

(* The state the daemon keeps from step to step. *)
LocalType ==
    /\ runtimeError \in BOOLEAN /\ inflight \in BOOLEAN /\ dirty \in BOOLEAN
    /\ pc \in Steps
    /\ seen \in [server : BOOLEAN, other : BOOLEAN]
    /\ assess \in {"safe", "hold", "collapse"}
    /\ op \in [what : {"none", "resume", "kill"}, cancelled : BOOLEAN]
    /\ request \in {"none", "resume", "kill"}

LEMMA ReconcileEffect ==
    ASSUME GuardInv, TickStart \/ Reconcile
    PROVE  /\ ClaimStep /\ LocalType'
           /\ lost' = lost /\ UNCHANGED guardVars
           /\ pc' \in {"look", "act", "finish", "control"}
           /\ pc' = "act" /\ ~inflight' => ~InFlight \/ Settled
           /\ ~seen'.server => server' = "gone"
<1> DEFINE Good ==
      /\ ClaimStep /\ LocalType'
      /\ lost' = lost /\ UNCHANGED guardVars
      /\ pc' \in {"look", "act", "finish", "control"}
      /\ pc' = "act" /\ ~inflight' => ~InFlight \/ Settled
      /\ ~seen'.server => server' = "gone"
<1> SUFFICES Good
  OBVIOUS
<1>0. /\ ledger \in Ledgers /\ SameClaim(ledger, ledger) /\ LocalType
      /\ server \in {"run", "stop", "gone"}
  BY LedgerForms DEF GuardInv, TypeInv, LocalType
<1>1. CASE TickStart
  <2>1. PICK other \in BOOLEAN : seen' = [server |-> server # "gone", other |-> other]
    BY <1>1 DEF TickStart
  <2>2. seen' \in [server : BOOLEAN, other : BOOLEAN]
    BY <2>1
  <2>3. ~seen'.server => server = "gone"
    BY <2>1
  <2> QED BY <1>0, <1>1, <2>2, <2>3
      DEF TickStart, Goes, guardVars, ClaimStep, LocalType, Steps
<1>2. CASE ReconcileLook
  BY <1>0, <1>2 DEF ReconcileLook, Goes, guardVars, ClaimStep, LocalType, Steps, InFlight, GuardInv,
                    AuthorityInv, SeenInv
<1>3. CASE ReconcileReplaced
  <2>1. Noticed
    BY <1>3, NoticedBy DEF ReconcileReplaced, Replaced, Settled
  <2>2. GivesUp(ledger, ledger')
    BY <1>0, <1>3, LedgerForms DEF ReconcileReplaced, Acts
  <2> QED BY <1>0, <1>3, <2>1, <2>2
      DEF ReconcileReplaced, Acts, Delivered, Goes, guardVars, ClaimStep, LocalType, Steps, Replaced
<1>4. CASE ReconcileReplaceRefused
  BY <1>0, <1>4 DEF ReconcileReplaceRefused, Refused, guardVars, ClaimStep, LocalType, Replaced,
                    Settled
<1>5. CASE ReconcileGone
  <2>1. server = "gone"
    BY <1>5 DEF ReconcileGone, GuardInv, AuthorityInv, SeenInv
  <2>2. Noticed
    BY <1>5, <2>1, NoticedBy DEF ReconcileGone
  <2>3. GivesUp(ledger, ledger')
    BY <1>0, <1>5, LedgerForms DEF ReconcileGone, Acts
  <2> QED BY <1>0, <1>5, <2>1, <2>2, <2>3
      DEF ReconcileGone, Acts, Goes, guardVars, ClaimStep, LocalType, Steps
<1>6. CASE TakeOver
  <2>1. Noticed
    BY <1>6, NoticedBy DEF TakeOver, Settling
  <2>2. CASE Delivered("run") /\ Acts([Closed(ledger) EXCEPT !.cooldown = TRUE, !.pending = 0], TRUE)
    <3>1. GivesUp(ledger, ledger')
      BY <1>0, <2>2, LedgerForms DEF Acts
    <3> QED BY <1>0, <1>6, <2>1, <2>2, <3>1
        DEF TakeOver, Settling, Acts, Delivered, Goes, guardVars, ClaimStep, LocalType, Steps
  <2>3. CASE Refused /\ Acts(ledger, FALSE)
    BY <1>0, <1>6, <2>3
       DEF TakeOver, Settling, Acts, Refused, Goes, guardVars, ClaimStep, LocalType, Steps
  <2> QED BY <1>6, <2>2, <2>3 DEF TakeOver
<1>7. CASE ReconcileInFlight \/ ReconcileMissing
  BY <1>0, <1>7 DEF ReconcileInFlight, ReconcileMissing, Settling, Acts, Goes, guardVars, ClaimStep,
                    LocalType, Steps
<1>8. CASE ReconcileUncommitted
  <2>1. Noticed
    BY <1>8, NoticedBy DEF ReconcileUncommitted, Settling, Settled
  <2>2. GivesUp(ledger, ledger')
    BY <1>0, <1>8, LedgerForms DEF ReconcileUncommitted, Acts
  <2> QED BY <1>0, <1>8, <2>1, <2>2
      DEF ReconcileUncommitted, Settling, Acts, Goes, guardVars, ClaimStep, LocalType, Steps
<1>9. CASE ReconcileResumed
  <2>1. Noticed
    BY <1>9, NoticedBy DEF ReconcileResumed, Settling, Settled
  <2>2. GivesUp(ledger, ledger')
    BY <1>0, <1>9, LedgerForms DEF ReconcileResumed, Acts
  <2> QED BY <1>0, <1>9, <2>1, <2>2
      DEF ReconcileResumed, Settling, Acts, Goes, guardVars, ClaimStep, LocalType, Steps
<1>10. CASE ReconcileActive
  <2>1. Noticed
    BY <1>10, NoticedBy DEF ReconcileActive, Settling
  <2>2. SameClaim(ledger, ledger') \/ Advances(ledger, ledger')
    BY <1>0, <1>10, LedgerForms DEF ReconcileActive, Acts
  <2>3. Acts(ledger', TRUE) \/ Acts(ledger', FALSE)
    BY <1>10 DEF ReconcileActive, Acts
  <2> QED BY <1>0, <1>10, <2>1, <2>2, <2>3
      DEF ReconcileActive, Settling, Acts, Goes, guardVars, ClaimStep, LocalType, Steps
<1>11. CASE ReconcileFinish
  <2>1. PICK cooldown \in {ledger.cooldown, FALSE} :
          LET l == [ledger EXCEPT !.cooldown = cooldown]
              changed == dirty \/ l # ledger
          IN  \/ ~changed /\ UNCHANGED <<ledger, disk, faults, runtimeError>>
              \/ changed /\ Saved(l) /\ UNCHANGED runtimeError
              \/ changed /\ NotSaved(l) /\ runtimeError' = TRUE
    BY <1>11 DEF ReconcileFinish
  <2> DEFINE l == [ledger EXCEPT !.cooldown = cooldown]
  <2>2. SameClaim(ledger, l)
    BY <1>0, LedgerForms DEF Ledgers
  <2>3. /\ ledger' = ledger \/ ledger' = l
        /\ disk' = disk \/ disk' = ledger'
        /\ runtimeError' = runtimeError \/ runtimeError' = TRUE
    BY <2>1 DEF Saved, NotSaved
  <2> HIDE DEF l
  <2>4. runtimeError' \in BOOLEAN
    BY <1>0, <2>3 DEF LocalType
  <2>5. SameClaim(ledger, ledger')
    BY <1>0, <2>2, <2>3
  <2>6. ~seen.server => server = "gone"
    BY <1>11 DEF ReconcileFinish, GuardInv, AuthorityInv, SeenInv
  <2> QED BY <1>0, <1>11, <2>3, <2>4, <2>5, <2>6
      DEF ReconcileFinish, Goes, guardVars, ClaimStep, LocalType, Steps
<1> QED BY <1>1, <1>2, <1>3, <1>4, <1>5, <1>6, <1>7, <1>8, <1>9, <1>10, <1>11 DEF Reconcile

LEMMA ControlEffect ==
    ASSUME GuardInv, Control
    PROVE  /\ ClaimStep /\ LocalType'
           /\ lost' = lost /\ seen' = seen
           /\ files' = files \/ ControlTakeToken
           /\ guard' = guard
           /\ pc' \in {"control", "ctl_intent", "ctl_signal", "ctl_commit", "pressure"}
           /\ pc' \in {"ctl_intent", "ctl_signal", "ctl_commit"} => Settled \/ ControlTakeToken
           /\ pc' = "ctl_commit" => server' # "stop"
<1> DEFINE Good ==
      /\ ClaimStep /\ LocalType'
      /\ lost' = lost /\ seen' = seen
      /\ files' = files \/ ControlTakeToken
      /\ guard' = guard
      /\ pc' \in {"control", "ctl_intent", "ctl_signal", "ctl_commit", "pressure"}
      /\ pc' \in {"ctl_intent", "ctl_signal", "ctl_commit"} => Settled \/ ControlTakeToken
      /\ pc' = "ctl_commit" => server' # "stop"
<1> SUFFICES Good
  OBVIOUS
<1>0. /\ ledger \in Ledgers /\ SameClaim(ledger, ledger) /\ LocalType
      /\ server \in {"run", "stop", "gone"}
      /\ NoOp \in [what : {"none", "resume", "kill"}, cancelled : BOOLEAN]
  BY LedgerForms DEF GuardInv, TypeInv, LocalType, NoOp
<1>1. CASE ControlRefuse \/ ControlDone
  BY <1>0, <1>1 DEF ControlRefuse, ControlDone, Goes, guardVars, daemonVars, ClaimStep, LocalType,
                    Steps
<1>2. CASE ControlTakeToken
  BY <1>0, <1>2 DEF ControlTakeToken, Goes, ClaimStep, LocalType, Steps
<1>3. CASE ControlIntent
  <2>1. \/ op' = op /\ request' = request /\ pc' = "ctl_signal"
        \/ op' = NoOp /\ request' = "none" /\ pc' = "control"
    BY <1>3 DEF ControlIntent, Goes
  <2>2. /\ ledger' = ledger \/ ledger' = [ledger EXCEPT !.control = op.what]
        /\ disk' = disk \/ disk' = ledger'
    BY <1>3 DEF ControlIntent, Saved, NotSaved
  <2>3. SameClaim(ledger, ledger')
    BY <1>0, <2>2, LedgerForms DEF LocalType
  <2> QED BY <1>0, <1>3, <2>1, <2>2, <2>3
      DEF ControlIntent, Goes, guardVars, ClaimStep, LocalType, Steps, Settled
<1>4. CASE ControlSignal
  BY <1>0, <1>4 DEF ControlSignal, Delivered, Refused, Goes, guardVars, ClaimStep, LocalType, Steps,
                    Settled
<1>5. CASE ControlCommit
  <2> DEFINE l == [Closed(ledger) EXCEPT
                     !.control = "none", !.pending = 0,
                     !.cooldown = @ \/ (op.what = "resume" /\ ~op.cancelled)]
  <2>1. GivesUp(ledger, l)
    <3>1. (op.what = "resume" /\ ~op.cancelled) \in BOOLEAN
      OBVIOUS
    <3> QED BY <1>0, <3>1, LedgerForms
  <2>2. /\ ledger' = l
        /\ disk' = disk \/ disk' = ledger'
        /\ runtimeError' = runtimeError \/ runtimeError' = TRUE
    BY <1>5 DEF ControlCommit, Saved, NotSaved
  <2> HIDE DEF l
  <2>3. Noticed
    BY <1>5, NoticedBy DEF ControlCommit, Settled
  <2>4. server = "stop" => lost # {}
    BY <1>5 DEF ControlCommit, GuardInv, AuthorityInv, StoppedInv
  <2>5. runtimeError' \in BOOLEAN
    BY <1>0, <2>2 DEF LocalType
  <2> QED BY <1>0, <1>5, <2>1, <2>2, <2>3, <2>4, <2>5
      DEF ControlCommit, Goes, guardVars, ClaimStep, LocalType, Steps
<1> QED BY <1>1, <1>2, <1>3, <1>4, <1>5 DEF Control

LEMMA PressureEffect ==
    ASSUME GuardInv, Pressure
    PROVE  /\ ClaimStep /\ LocalType'
           /\ lost' = lost \/ (ledger.stopped /\ lost' = lost \union {ledger.episode})
           /\ seen' = seen /\ UNCHANGED guardVars
           /\ pc' \in {"idle", "rec_commit"}
           /\ pc' = "rec_commit" => ledger'.stopped
<1> DEFINE Good ==
      /\ ClaimStep /\ LocalType'
      /\ lost' = lost \/ (ledger.stopped /\ lost' = lost \union {ledger.episode})
      /\ seen' = seen /\ UNCHANGED guardVars
      /\ pc' \in {"idle", "rec_commit"}
      /\ pc' = "rec_commit" => ledger'.stopped
<1> SUFFICES Good
  OBVIOUS
<1>0. /\ ledger \in Ledgers /\ SameClaim(ledger, ledger) /\ LocalType
      /\ server \in {"run", "stop", "gone"}
  BY LedgerForms DEF GuardInv, TypeInv, LocalType
<1>1. CASE Recover
  BY <1>0, <1>1 DEF Recover, Recoverable, Delivered, Goes, guardVars, ClaimStep, LocalType, Steps
<1>2. CASE PressureIdle
  BY <1>0, <1>2 DEF PressureIdle, Goes, guardVars, ClaimStep, LocalType, Steps
<1>3. CASE RecoverCommit
  <2>1. /\ ledger' = Closed(ledger)
        /\ disk' = disk \/ disk' = ledger'
        /\ runtimeError' = runtimeError \/ runtimeError' = TRUE
    BY <1>3 DEF RecoverCommit, Saved, NotSaved
  <2>2. GivesUp(ledger, ledger')
    BY <1>0, <2>1, LedgerForms
  <2>3. /\ lost' = lost \/ lost' = lost \union {ledger.episode}
        /\ InFlight \/ server = "stop" => ledger.episode \in lost'
    BY <1>3 DEF RecoverCommit
  <2>4. Noticed
    BY <1>3, <2>3, RiskKnown DEF RecoverCommit, Noticed, Owns
  <2>5. runtimeError' \in BOOLEAN
    BY <1>0, <2>1 DEF LocalType
  <2>6. ledger.stopped
    BY <1>3 DEF RecoverCommit, GuardInv, NumberInv, AttemptNumbered
  <2>7. server' = server
    BY <1>3 DEF RecoverCommit
  <2>8. ClaimStep
    BY <1>3, <2>1, <2>2, <2>3, <2>4, <2>7 DEF RecoverCommit, Goes, ClaimStep
  <2> QED BY <1>0, <1>3, <2>3, <2>5, <2>6, <2>8
      DEF RecoverCommit, Goes, guardVars, LocalType, Steps
<1> QED BY <1>1, <1>2, <1>3 DEF Pressure

(* The attempt on the server, from its guard's start to its end but for Cancel. *)
Attempt ==
    \/ Launch \/ WaitArmed \/ Commit \/ WaitSuspended \/ Unconfirmed
    \/ Activate \/ ActivateUndo

LEMMA AttemptEffect ==
    ASSUME GuardInv, Attempt
    PROVE  /\ ClaimStep /\ LocalType'
           /\ lost' = lost /\ seen' = seen
           /\ files' = files \/ Commit
           /\ guard' = guard \/ Launch
           /\ pc \in Attempting \ {"cancel"} /\ pc' \in Attempting \union {"idle"}
           /\ ledger'.stopped = ledger.stopped /\ ledger'.episode = ledger.episode
           /\ pc' \notin {"launch"}
           /\ pc' \in {"wait_armed", "commit", "activate", "undo", "cancel"} =>
                Settled \/ WaitSuspended
           /\ pc' \in {"wait_armed", "commit"} => pc \in {"launch", "wait_armed"}
           /\ pc' = "undo" => pc = "activate"
           /\ pc' = "activate" => WaitSuspended
<1> DEFINE Good ==
      /\ ClaimStep /\ LocalType'
      /\ lost' = lost /\ seen' = seen
      /\ files' = files \/ Commit
      /\ guard' = guard \/ Launch
      /\ pc \in Attempting \ {"cancel"} /\ pc' \in Attempting \union {"idle"}
      /\ ledger'.stopped = ledger.stopped /\ ledger'.episode = ledger.episode
      /\ pc' \notin {"launch"}
      /\ pc' \in {"wait_armed", "commit", "activate", "undo", "cancel"} =>
           Settled \/ WaitSuspended
      /\ pc' \in {"wait_armed", "commit"} => pc \in {"launch", "wait_armed"}
      /\ pc' = "undo" => pc = "activate"
      /\ pc' = "activate" => WaitSuspended
<1> SUFFICES Good
  OBVIOUS
<1>0. /\ ledger \in Ledgers /\ SameClaim(ledger, ledger) /\ LocalType
      /\ server \in {"run", "stop", "gone"}
  BY LedgerForms DEF GuardInv, TypeInv, LocalType
<1>1. CASE Launch
  BY <1>0, <1>1 DEF Launch, Goes, ClaimStep, LocalType, Steps, Attempting, Settled
<1>2. CASE WaitArmed
  BY <1>0, <1>2 DEF WaitArmed, Goes, guardVars, ClaimStep, LocalType, Steps, Attempting, Settled
<1>3. CASE Commit
  BY <1>0, <1>3 DEF Commit, Goes, guardVars, ClaimStep, LocalType, Steps, Attempting, Settled
<1>4. CASE WaitSuspended
  <2>1. pc' \in {"activate", "cancel", "unconfirmed"}
    BY <1>4 DEF WaitSuspended, Goes
  <2> QED BY <1>0, <1>4, <2>1
      DEF WaitSuspended, guardVars, ClaimStep, LocalType, Steps, Attempting, Settled
<1>5. CASE Unconfirmed
  <2>1. /\ ledger' = [ledger EXCEPT !.phase = "committed"]
        /\ disk' = disk \/ disk' = ledger'
        /\ runtimeError' = runtimeError \/ runtimeError' = TRUE
    BY <1>5 DEF Unconfirmed, Saved, NotSaved
  <2>2. SameClaim(ledger, ledger')
    BY <1>0, <2>1, LedgerForms
  <2>3. runtimeError' \in BOOLEAN
    BY <1>0, <2>1 DEF LocalType
  <2>4. ledger'.stopped = ledger.stopped /\ ledger'.episode = ledger.episode
    BY <2>2 DEF SameClaim
  <2> QED BY <1>0, <1>5, <2>1, <2>2, <2>3, <2>4
      DEF Unconfirmed, Goes, guardVars, ClaimStep, LocalType, Steps, Attempting, Settled
<1>6. CASE Activate
  <2>1. /\ ledger' = [ledger EXCEPT !.phase = "active", !.pending = 0]
        /\ disk' = disk \/ disk' = ledger'
        /\ previous' = previous \/ previous' = EmptyLedger
        /\ pc' \in {"idle", "undo"}
    BY <1>6 DEF Activate, Saved, NotSaved, Goes
  <2>2. Advances(ledger, ledger')
    BY <1>0, <2>1, LedgerForms
  <2>3. Noticed
    BY <1>6, NoticedBy DEF Activate, Settled
  <2>4. ledger'.stopped = ledger.stopped /\ ledger'.episode = ledger.episode
    BY <2>2 DEF Advances
  <2> QED BY <1>0, <1>6, <2>1, <2>2, <2>3, <2>4
      DEF Activate, guardVars, ClaimStep, LocalType, Steps, Attempting, Settled
<1>7. CASE ActivateUndo
  <2>1. /\ runtimeError' = runtimeError \/ runtimeError' = TRUE
        /\ previous' = previous \/ previous' = EmptyLedger
        /\ pc = "undo" /\ pc' \in {"cancel", "idle"}
        /\ server' = server \/ (server # "gone" /\ server' = "run")
        /\ UNCHANGED <<ledger, disk, seen, assess, inflight, dirty, op, request, guardVars,
                       episodes, lost>>
    BY <1>7 DEF ActivateUndo, Delivered, Refused, Goes
  <2>2. runtimeError' \in BOOLEAN
    BY <1>0, <2>1 DEF LocalType
  <2>3. ClaimStep
    BY <1>0, <2>1 DEF ClaimStep
  <2>4. LocalType'
    BY <1>0, <2>1, <2>2 DEF LocalType, Steps
  <2> QED BY <2>1, <2>3, <2>4 DEF guardVars, Attempting, Settled
<1> QED BY <1>1, <1>2, <1>3, <1>4, <1>5, <1>6, <1>7 DEF Attempt

(* A new attempt: nothing is known of its number yet.                       *)
LEMMA PrepareEffect ==
    ASSUME GuardInv, Prepare
    PROVE  /\ pc = "pressure" /\ LocalType'
           /\ episodes' = episodes + 1 /\ episodes' \in Episodes
           /\ ~ledger.stopped /\ ledger.pending = 0
           /\ server # "gone" /\ server' = server
           /\ UNCHANGED <<lost, seen, guardVars>>
           /\ \/ pc' = "idle" /\ UNCHANGED <<ledger, disk, previous>>
              \/ /\ pc' = "launch" /\ previous' = ledger
                 /\ ledger' \in Ledgers /\ Owns(ledger', episodes') /\ disk' = ledger'
<1> DEFINE n == episodes'
           l == [ledger EXCEPT !.stopped = TRUE, !.episode = n,
                               !.phase = "prepared", !.pending = n]
<1>0. ledger \in Ledgers /\ LocalType
  BY DEF GuardInv, TypeInv, LocalType
<1>1. episodes' = episodes + 1 /\ episodes' \in Episodes /\ episodes' \in 0..MaxEpisodes
  BY GuardAssumption DEF Prepare, GuardInv, TypeInv, Episodes
<1>2. \/ pc' = "idle" /\ UNCHANGED <<ledger, disk, previous>>
      \/ pc' = "launch" /\ previous' = ledger /\ ledger' = l /\ disk' = l
  BY DEF Prepare, Saved, NotSaved, Goes
<1> HIDE DEF n
<1>3. l \in Ledgers /\ Owns(l, n)
  BY <1>0, <1>1 DEF Ledgers, Owns, OpenPhases, n
<1> HIDE DEF l
<1>4. LocalType'
  BY <1>0, <1>2 DEF Prepare, LocalType, Steps
<1> QED BY <1>1, <1>2, <1>3, <1>4 DEF Prepare, n

LEMMA CancelEffect ==
    ASSUME GuardInv, Cancel
    PROVE  /\ pc = "cancel" /\ pc' = "idle" /\ LocalType'
           /\ ledger' = previous /\ previous' = EmptyLedger
           /\ disk' = disk \/ disk' = previous
           /\ lost' = lost \/ lost' = lost \union {ledger.episode}
           /\ server = "stop" => lost' # {}
           /\ UNCHANGED <<server, seen, guardVars, episodes>>
<1>1. /\ runtimeError' = runtimeError \/ runtimeError' = TRUE
      /\ pc = "cancel" /\ pc' = "idle"
      /\ ledger' = previous /\ previous' = EmptyLedger
      /\ disk' = disk \/ disk' = previous
      /\ lost' = lost \/ lost' = lost \union {ledger.episode}
      /\ server = "stop" => lost' # {}
      /\ UNCHANGED <<server, seen, assess, inflight, dirty, op, request, guardVars, episodes>>
  BY DEF Cancel, Saved, NotSaved, Goes
<1>2. runtimeError' \in BOOLEAN
  BY <1>1 DEF GuardInv, TypeInv
<1>3. LocalType'
  BY <1>1, <1>2 DEF GuardInv, TypeInv, LocalType, Steps
<1> QED BY <1>1, <1>3

-----------------------------------------------------------------------------
(* The types.                                                               *)
LEMMA EmptyIsLedger == EmptyLedger \in Ledgers
BY GuardAssumption DEF EmptyLedger, Ledgers

LEMMA FileTypes ==
    ASSUME TypeInv, [Next]_vars
    PROVE  /\ files' \in [Episodes -> SUBSET (Tokens \union Receipts)]
           /\ guard' \in [Episodes -> GuardSteps]
<1>0. /\ files \in [Episodes -> SUBSET (Tokens \union Receipts)]
      /\ guard \in [Episodes -> GuardSteps]
  BY DEF TypeInv
<1>1. CASE \E e \in Episodes : GuardAct(e)
  BY <1>1, GuardTouches
<1>2. CASE Launch
  BY <1>0, <1>2 DEF Launch, GuardGoes, GuardSteps
<1>3. CASE Commit
  BY <1>0, <1>3 DEF Commit, Move, Tokens
<1>4. CASE ControlTakeToken
  BY <1>0, <1>4 DEF ControlTakeToken, Move, Receipts
<1>5. CASE UNCHANGED guardVars
  BY <1>0, <1>5 DEF guardVars
<1> QED BY <1>1, <1>2, <1>3, <1>4, <1>5, TokenMoves

LEMMA ClaimTypes ==
    ASSUME TypeInv, ClaimStep
    PROVE  /\ server' \in {"run", "stop", "gone"}
           /\ ledger' \in Ledgers /\ disk' \in Ledgers /\ previous' \in Ledgers
           /\ episodes' \in 0..MaxEpisodes
BY EmptyIsLedger DEF TypeInv, ClaimStep, SameClaim, Advances, GivesUp

(* The steps that are not a tick's. *)
Outside == Crash \/ Restart \/ ServerExits \/ ExternalResume \/ Submit \/ UNCHANGED vars

LEMMA StepKinds ==
    ASSUME [Next]_vars
    PROVE  \/ \E e \in Episodes : GuardAct(e)
           \/ TickStart \/ Reconcile \/ Control \/ Pressure \/ Attempt
           \/ Prepare \/ Cancel \/ Outside
BY DEF Next, Daemon, Environment, GuardAct, LastResort, Attempt, Outside

LEMMA TypeStep ==
    ASSUME GuardInv, [Next]_vars
    PROVE  TypeInv'
<1>0. TypeInv
  BY DEF GuardInv
<1>1. CASE \E e \in Episodes : GuardAct(e)
  BY <1>0, <1>1, GuardTouches DEF TypeInv, daemonVars
<1>2. CASE TickStart \/ Reconcile \/ Control \/ Pressure \/ Attempt
  <2>1. ClaimStep /\ LocalType'
    BY <1>2, ReconcileEffect, ControlEffect, PressureEffect, AttemptEffect
  <2> QED BY <1>0, <2>1, ClaimTypes, FileTypes DEF TypeInv, LocalType
<1>3. CASE Prepare
  <2>1. /\ ledger' \in Ledgers /\ disk' \in Ledgers /\ previous' \in Ledgers
        /\ episodes' \in 0..MaxEpisodes /\ server' = server /\ LocalType'
    BY <1>0, <1>3, PrepareEffect DEF TypeInv, Episodes
  <2> QED BY <1>0, <2>1, FileTypes DEF TypeInv, LocalType
<1>4. CASE Cancel
  <2>1. /\ ledger' \in Ledgers /\ disk' \in Ledgers /\ previous' \in Ledgers
        /\ episodes' = episodes /\ server' = server /\ LocalType'
    BY <1>0, <1>4, CancelEffect, EmptyIsLedger DEF TypeInv
  <2> QED BY <1>0, <2>1, FileTypes DEF TypeInv, LocalType
<1>5. CASE Outside
  <2>1. CASE Crash
    BY <1>0, <2>1, EmptyIsLedger, FileTypes DEF Crash, TypeInv, NoOp, Steps
  <2>2. CASE Restart
    <3>1. runtimeError' = runtimeError \/ runtimeError' = TRUE
      BY <2>2 DEF Restart
    <3>2. runtimeError' \in BOOLEAN
      BY <1>0, <3>1 DEF TypeInv
    <3>3. ledger' = disk \/ ledger' = ledger
      BY <2>2 DEF Restart
    <3> QED BY <1>0, <2>2, <3>2, <3>3, FileTypes DEF Restart, TypeInv, Goes, Steps
  <2>3. CASE ServerExits \/ ExternalResume \/ Submit
    BY <1>0, <2>3, FileTypes DEF ServerExits, ExternalResume, Submit, TypeInv, daemonVars
  <2>4. CASE UNCHANGED vars
    BY <1>0, <2>4 DEF vars, TypeInv
  <2> QED BY <1>5, <2>1, <2>2, <2>3, <2>4 DEF Outside
<1> QED BY <1>1, <1>2, <1>3, <1>4, <1>5, StepKinds

-----------------------------------------------------------------------------
(* The numbers.                                                             *)
LEMMA ClaimNumbers ==
    ASSUME GuardInv, ClaimStep
    PROVE  LedgersNumbered'
<1>1. /\ Numbered(ledger) /\ Numbered(disk) /\ Numbered(previous)
      /\ ~previous.stopped /\ previous.pending = 0
      /\ ledger.stopped => ledger.episode # 0 /\ disk.stopped
      /\ disk.stopped => disk.episode # 0
  BY DEF GuardInv, NumberInv, LedgersNumbered
<1>2. episodes \in Nat /\ episodes' = episodes
  BY DEF GuardInv, TypeInv, ClaimStep
<1>3. /\ ledger'.episode = ledger.episode /\ ledger'.pending \in {0, ledger.pending}
      /\ ledger'.stopped => ledger.stopped
  BY DEF ClaimStep, SameClaim, Advances, GivesUp
<1>4. Numbered(ledger')
  BY <1>1, <1>2, <1>3 DEF Numbered
<1>5. Numbered(EmptyLedger) /\ ~EmptyLedger.stopped /\ EmptyLedger.pending = 0
  BY <1>2 DEF Numbered, EmptyLedger
<1>6. /\ Numbered(ledger)' /\ Numbered(disk)' /\ Numbered(previous)'
      /\ ~previous'.stopped /\ previous'.pending = 0
  BY <1>1, <1>2, <1>4, <1>5 DEF ClaimStep, Numbered
<1>7. /\ ledger'.stopped => ledger'.episode # 0 /\ pc' # "down" /\ disk'.stopped
      /\ disk'.stopped => disk'.episode # 0
  BY <1>1, <1>3 DEF ClaimStep
<1> QED BY <1>6, <1>7 DEF LedgersNumbered

LEMMA LostStays ==
    ASSUME GuardInv, NumberInv, lost' = lost \/ lost' = lost \union {ledger.episode},
           ledger.stopped \/ lost' = lost, episodes' \in Nat, episodes' >= episodes
    PROVE  LostNumbered'
<1>1. lost \subseteq Episodes /\ \A e \in lost : e <= episodes \/ 1 \in lost
  BY DEF NumberInv, LostNumbered
<1>2. ledger.stopped => ledger.episode \in Episodes /\ ledger.episode <= episodes
  BY OpenEpisode DEF GuardInv, NumberInv, LedgersNumbered, Numbered
<1>3. episodes \in Nat
  BY DEF GuardInv, TypeInv
<1>4. lost' \subseteq Episodes
  BY <1>1, <1>2
<1>5. ASSUME NEW e \in lost' PROVE e <= episodes' \/ 1 \in lost'
  <2>1. e \in Int /\ (e <= episodes \/ 1 \in lost')
    BY <1>1, <1>2, <1>4 DEF Episodes
  <2> QED BY <1>3, <2>1
<1> QED BY <1>4, <1>5 DEF LostNumbered

LEMMA NumberStep ==
    ASSUME GuardInv, [Next]_vars
    PROVE  NumberInv'
<1>0. /\ TypeInv /\ NumberInv /\ episodes \in Nat
      /\ ledger.stopped => ledger.episode \in Episodes
  BY OpenEpisode DEF GuardInv, TypeInv
<1>a. /\ \A e \in Episodes : guard[e] # "none" => e <= episodes
      /\ pc \in Attempting \union {"rec_commit"} => ledger.stopped
      /\ pc \in Attempting => ledger.episode = episodes
  BY <1>0 DEF NumberInv, AttemptNumbered
<1>1. CASE \E e \in Episodes : GuardAct(e)
  <2> PICK e \in Episodes : GuardAct(e)
    BY <1>1
  <2>1. /\ guard[e] # "none"
        /\ \A x \in Episodes \ {e} : guard'[x] = guard[x]
        /\ UNCHANGED <<ledger, disk, previous, pc, episodes, lost>>
    BY <1>0, GuardTouches DEF daemonVars
  <2>2. LedgersNumbered'
    BY <1>0, <2>1 DEF NumberInv, LedgersNumbered, Numbered
  <2>3. LostNumbered'
    BY <1>0, <2>1 DEF NumberInv, LostNumbered
  <2>4. \A x \in Episodes : guard'[x] # "none" => x <= episodes'
    BY <1>a, <2>1
  <2>5. pc' = "launch" => guard'[episodes'] = "none"
    <3> SUFFICES ASSUME pc' = "launch" PROVE guard'[episodes'] = "none"
      OBVIOUS
    <3>1. guard[episodes] = "none" /\ episodes \in Episodes
      BY <1>0, <1>a, <2>1 DEF NumberInv, AttemptNumbered, Attempting
    <3> QED BY <2>1, <3>1
  <2>6. AttemptNumbered'
    BY <1>a, <2>1, <2>4, <2>5 DEF AttemptNumbered
  <2> QED BY <2>2, <2>3, <2>6 DEF NumberInv
<1>2. CASE TickStart \/ Reconcile \/ Control \/ Pressure
  <2>1. /\ ClaimStep /\ guard' = guard
        /\ pc' \notin Attempting
        /\ pc' = "rec_commit" => ledger'.stopped
        /\ lost' = lost \/ (ledger.stopped /\ lost' = lost \union {ledger.episode})
    BY <1>2, ReconcileEffect, ControlEffect, PressureEffect DEF Attempting, guardVars
  <2>2. episodes' = episodes
    BY <2>1 DEF ClaimStep
  <2>3. LostNumbered'
    BY <1>0, <2>1, <2>2, LostStays
  <2>4. AttemptNumbered'
    BY <1>a, <2>1, <2>2 DEF AttemptNumbered, Attempting
  <2> QED BY <2>1, <2>3, <2>4, ClaimNumbers DEF NumberInv
<1>3. CASE Attempt
  <2>1. /\ ClaimStep
        /\ guard' = guard \/ Launch
        /\ pc \in Attempting /\ pc' \in Attempting \union {"idle"} /\ pc' # "launch"
        /\ ledger'.stopped = ledger.stopped /\ ledger'.episode = ledger.episode
        /\ lost' = lost
    BY <1>3, AttemptEffect
  <2>2. episodes' = episodes
    BY <2>1 DEF ClaimStep
  <2>3. LostNumbered'
    BY <1>0, <2>1, <2>2, LostStays
  <2>4. \A e \in Episodes : guard'[e] # "none" => e <= episodes'
    <3>1. CASE guard' = guard
      BY <1>a, <2>2, <3>1
    <3>2. CASE Launch
      <4>1. \A e \in Episodes : guard'[e] = guard[e] \/ e = ledger.episode
        BY <1>0, <3>2 DEF Launch, GuardGoes, TypeInv
      <4>2. ledger.episode = episodes
        BY <1>a, <2>1
      <4> QED BY <1>0, <1>a, <2>2, <4>1, <4>2
    <3> QED BY <2>1, <3>1, <3>2
  <2>5. AttemptNumbered'
    BY <1>a, <2>1, <2>2, <2>4 DEF AttemptNumbered, Attempting
  <2> QED BY <2>1, <2>3, <2>5, ClaimNumbers DEF NumberInv
<1>4. CASE Prepare
  <2>0. /\ pc = "pressure" /\ episodes' = episodes + 1 /\ episodes' \in Episodes
        /\ ~ledger.stopped /\ ledger.pending = 0
        /\ UNCHANGED <<lost, guard>>
        /\ \/ pc' = "idle" /\ UNCHANGED <<ledger, disk, previous>>
           \/ /\ pc' = "launch" /\ previous' = ledger
              /\ ledger' \in Ledgers /\ Owns(ledger', episodes') /\ disk' = ledger'
    BY <1>4, PrepareEffect DEF guardVars
  <2>1. LostNumbered'
    BY <1>0, <2>0, LostStays
  <2>2. \A l \in Ledgers : Numbered(l) => l.episode <= episodes' /\ l.pending \in {0, l.episode}
    BY <1>0, <2>0 DEF Numbered, Ledgers
  <2>3. ledger \in Ledgers /\ disk \in Ledgers /\ previous \in Ledgers
    BY <1>0 DEF TypeInv
  <2>4. /\ Numbered(ledger) /\ Numbered(disk) /\ Numbered(previous)
        /\ ~previous.stopped /\ previous.pending = 0
        /\ ledger.stopped => ledger.episode # 0
        /\ disk.stopped => disk.episode # 0
    BY <1>0 DEF NumberInv, LedgersNumbered
  <2>5. \A e \in Episodes : guard'[e] # "none" => e <= episodes /\ e # episodes'
    <3> SUFFICES ASSUME NEW e \in Episodes, guard[e] # "none"
                 PROVE  e <= episodes /\ e # episodes'
      BY <2>0
    <3>1. e <= episodes /\ e \in Int
      BY <1>a DEF Episodes
    <3> QED BY <1>0, <2>0, <3>1
  <2>6. CASE pc' = "idle"
    <3>1. LedgersNumbered'
      BY <2>0, <2>2, <2>3, <2>4, <2>6 DEF LedgersNumbered, Numbered
    <3>2. AttemptNumbered'
      <4>1. \A e \in Episodes : guard'[e] # "none" => e <= episodes'
        <5> SUFFICES ASSUME NEW e \in Episodes, guard'[e] # "none" PROVE e <= episodes'
          OBVIOUS
        <5> QED BY <1>0, <2>0, <2>5 DEF Episodes
      <4> QED BY <2>6, <4>1 DEF AttemptNumbered, Attempting
    <3> QED BY <2>1, <3>1, <3>2 DEF NumberInv
  <2>7. CASE pc' = "launch"
    <3>1. LedgersNumbered'
      <4>1. /\ ledger'.stopped /\ ledger'.episode = episodes' /\ ledger'.pending = episodes'
            /\ disk' = ledger' /\ previous' = ledger
        BY <2>0, <2>7 DEF Owns
      <4>2. episodes' \in Nat /\ episodes' # 0
        BY <1>0, <2>0
      <4>3. Numbered(ledger)' /\ Numbered(disk)'
        BY <4>1, <4>2 DEF Numbered
      <4>4. Numbered(previous)'
        BY <2>2, <2>3, <2>4, <4>1 DEF Numbered
      <4> QED BY <2>0, <2>7, <4>1, <4>2, <4>3, <4>4 DEF LedgersNumbered
    <3>2. AttemptNumbered'
      <4>1. \A e \in Episodes : guard'[e] # "none" => e <= episodes'
        <5> SUFFICES ASSUME NEW e \in Episodes, guard'[e] # "none" PROVE e <= episodes'
          OBVIOUS
        <5> QED BY <1>0, <2>0, <2>5 DEF Episodes
      <4>2. guard'[episodes'] = "none"
        BY <2>0, <2>5
      <4> QED BY <2>0, <2>7, <4>1, <4>2 DEF AttemptNumbered, Attempting, Owns
    <3> QED BY <2>1, <3>1, <3>2 DEF NumberInv
  <2> QED BY <2>0, <2>6, <2>7
<1>5. CASE Cancel
  <2>0. /\ pc = "cancel" /\ pc' = "idle"
        /\ ledger' = previous /\ previous' = EmptyLedger
        /\ disk' = disk \/ disk' = previous
        /\ lost' = lost \/ lost' = lost \union {ledger.episode}
        /\ UNCHANGED <<guard, episodes>>
    BY <1>5, CancelEffect DEF guardVars
  <2>1. LostNumbered'
    BY <1>0, <1>a, <2>0, LostStays DEF Attempting
  <2>2. LedgersNumbered'
    BY <1>0, <2>0 DEF NumberInv, LedgersNumbered, Numbered, EmptyLedger
  <2>3. AttemptNumbered'
    BY <1>a, <2>0 DEF AttemptNumbered, Attempting
  <2> QED BY <2>1, <2>2, <2>3 DEF NumberInv
<1>6. CASE Outside
  <2>1. CASE Crash
    <3>1. LedgersNumbered'
      BY <1>0, <2>1 DEF Crash, NumberInv, LedgersNumbered, Numbered, EmptyLedger
    <3>2. AttemptNumbered'
      BY <1>a, <2>1 DEF Crash, guardVars, AttemptNumbered, Attempting
    <3> QED BY <1>0, <2>1, <3>1, <3>2 DEF Crash, NumberInv, LostNumbered
  <2>2. CASE Restart
    <3>1. /\ pc = "down" /\ pc' = "idle"
          /\ ledger' = disk \/ ledger' = ledger
          /\ lost' = lost \/ lost' = lost \union Episodes
          /\ UNCHANGED <<disk, previous, guard, episodes>>
      BY <2>2 DEF Restart, Goes, guardVars
    <3>2. LedgersNumbered'
      BY <1>0, <3>1 DEF NumberInv, LedgersNumbered, Numbered
    <3>3. AttemptNumbered'
      BY <1>a, <3>1 DEF AttemptNumbered, Attempting
    <3>4. LostNumbered'
      <4>1. \A e \in Episodes : 1 \in Episodes
        BY GuardAssumption DEF Episodes
      <4> QED BY <1>0, <3>1, <4>1 DEF NumberInv, LostNumbered
    <3> QED BY <3>2, <3>3, <3>4 DEF NumberInv
  <2>3. CASE ServerExits \/ ExternalResume \/ Submit \/ UNCHANGED vars
    <3>1. UNCHANGED <<ledger, disk, previous, pc, guard, episodes, lost>>
      BY <2>3 DEF ServerExits, ExternalResume, Submit, vars, daemonVars, guardVars
    <3> QED BY <1>0, <3>1 DEF NumberInv, LedgersNumbered, AttemptNumbered, LostNumbered, Numbered
  <2> QED BY <1>6, <2>1, <2>2, <2>3 DEF Outside
<1> QED BY <1>1, <1>2, <1>3, <1>4, <1>5, <1>6, StepKinds

-----------------------------------------------------------------------------
(* The authority to stop the server.                                        *)

(* No step gives back what was lost, or a server that has exited.           *)
Stays == lost \subseteq lost' /\ (server = "gone" => server' = "gone")

LEMMA CalmStays ==
    ASSUME Calm, NoneSent, Stays
    PROVE  Calm'
<1> SUFFICES ASSUME NEW e \in Episodes, Whole(e)', Out(e)' PROVE FALSE
  BY DEF Calm
<1>1. Whole(e)
  BY DEF Whole, Stays
<1> QED BY <1>1 DEF NoneSent, Calm

LEMMA ClaimStays == ClaimStep => Stays
BY DEF ClaimStep, Stays

(* The claim is kept, or nothing is on its way.                             *)
LEMMA ClaimPoised ==
    ASSUME GuardInv, ClaimStep, NoneSent,
           \A x \in Episodes : guard[x] = "none" => guard'[x] = "none" \/ x = ledger.episode,
           pc' \in {"launch", "wait_armed", "commit"} =>
             pc \in {"launch", "wait_armed"} /\ ledger' = ledger
    PROVE  PoisedInv'
<1> SUFFICES ASSUME NEW e \in Episodes, Whole(e)', (Out(e) \/ Coming(e))'
             PROVE  Poised(e)'
  BY DEF PoisedInv
<1>1. Whole(e) /\ Stays /\ e \notin lost'
  <2>1. e \in 1..e
    BY DEF Episodes
  <2> QED BY <2>1, ClaimStays DEF Whole, Stays
<1>2. Coming(e)' => Coming(e) /\ ledger' = ledger
  BY DEF Coming
<1>3. Out(e) \/ Coming(e)
  BY <1>2 DEF NoneSent
<1>4. Poised(e)
  BY <1>1, <1>3 DEF GuardInv, AuthorityInv, PoisedInv
<1>5. SameClaim(ledger, ledger')
  <2>1. CASE Coming(e)'
    BY <1>2, <2>1, LedgerForms DEF GuardInv, TypeInv
  <2>2. CASE Out(e)'
    <3>1. ~Noticed
      BY <1>1, <2>2 DEF NoneSent, Noticed
    <3> QED BY <3>1 DEF ClaimStep
  <2> QED BY <2>1, <2>2
<1>6. pc # "down" /\ Owns(ledger, e) /\ Owns(disk, e)
  BY <1>4 DEF Poised, ClaimStep
<1>7. Owns(ledger', e)
  BY <1>5, <1>6 DEF SameClaim, Owns
<1>8. Owns(disk', e)
  BY <1>6, <1>7 DEF ClaimStep
<1>9. \A x \in Episodes : x > e => guard'[x] = "none"
  <2> SUFFICES ASSUME NEW x \in Episodes, x > e PROVE guard'[x] = "none"
    OBVIOUS
  <2>1. x # ledger.episode
    BY <1>6 DEF Owns, Episodes
  <2> QED BY <1>4, <2>1 DEF Poised
<1>10. server' = "run"
  BY <1>4 DEF Poised, ClaimStep, Whole
<1> QED BY <1>7, <1>8, <1>9, <1>10 DEF Poised, Owns

LEMMA ClaimStopped ==
    ASSUME GuardInv, ClaimStep, pc' = "ctl_commit" => server' # "stop"
    PROVE  StoppedInv'
<1> SUFFICES ASSUME server' = "stop", lost' = {}
             PROVE  disk'.stopped /\ ledger'.stopped /\ pc' # "ctl_commit"
  BY DEF StoppedInv
<1>1. server = "stop" /\ lost = {}
  BY DEF ClaimStep
<1>2. disk.stopped /\ ledger.stopped
  BY <1>1 DEF ClaimStep, GuardInv, AuthorityInv, StoppedInv
<1>3. ledger'.stopped
  BY <1>2 DEF ClaimStep, SameClaim, Advances
<1> QED BY <1>2, <1>3 DEF ClaimStep

LEMMA TakenIsCalm ==
    ASSUME GuardInv, ControlTakeToken
    PROVE  Calm'
<1> SUFFICES ASSUME NEW e \in Episodes, Whole(e)', Out(e)' PROVE FALSE
  BY DEF Calm
<1>0. [Next]_vars /\ ~Commit /\ pc = "control"
  BY DEF Next, Daemon, Control, ControlTakeToken, Commit
<1>1. Whole(e) /\ Out(e)
  <2>1. NoneSent
    BY <1>0, TokenStep DEF GuardInv
  <2> QED BY <2>1 DEF NoneSent, Whole, ControlTakeToken
<1>2. Owns(ledger, e) /\ InFlight
  BY <1>0, <1>1, RiskKnown
<1>3. e # 0 /\ ledger.pending = e
  BY <1>2 DEF Owns, Episodes
<1>4. files[e] \intersect {"committed", "signalling"} # {} /\ ~Dead(e)
  BY <1>2, <1>3 DEF InFlight
<1>5. Token = files[e] \intersect Tokens
  BY <1>3 DEF Token
<1>6. Takeable # {}
  BY <1>4, <1>5 DEF ControlTakeToken, Admissible, Tokens
<1>7. Takeable = {"committed"} /\ "committed" \in files[e]
  BY <1>3, <1>4, <1>5, <1>6 DEF Takeable
<1>8. files' = [files EXCEPT ![e] = (files[e] \ {"committed"}) \union {"cancelled"}]
  BY <1>3, <1>6, <1>7 DEF ControlTakeToken, Move
<1>9. "committed" \notin files'[e] /\ guard' = guard
  BY <1>8 DEF GuardInv, TypeInv, ControlTakeToken
<1>10. guard[e] # "signal"
  BY <1>7 DEF GuardInv, TokenInv, GuardAgrees
<1> QED BY <1>9, <1>10 DEF Out

LEMMA AnswerIsCalm ==
    ASSUME GuardInv, WaitSuspended, pc' \in {"activate", "cancel"}
    PROVE  Calm /\ (pc' = "activate" => "suspended" \in files[ledger.episode])
<1>1. files[ledger.episode] \intersect {"suspended", "error", "cancelled", "expired"} # {}
  BY DEF WaitSuspended, Goes
<1>2. ASSUME NEW e \in Episodes, Whole(e), Out(e) PROVE FALSE
  <2>1. Owns(ledger, e) /\ InFlight
    BY <1>2, RiskKnown DEF WaitSuspended
  <2> QED BY <1>1, <2>1 DEF Owns, InFlight, Receipts
<1>3. pc' = "activate" => "suspended" \in files[ledger.episode]
  BY DEF WaitSuspended, Goes
<1> QED BY <1>2, <1>3 DEF Calm

(* The guard that stops the server has it as its own.                       *)
LEMMA GuardAuthority ==
    ASSUME GuardInv, NEW e \in Episodes, GuardAct(e), NoneSent
    PROVE  AuthorityInv'
<1>0. TypeInv /\ TokenInv /\ AuthorityInv
  BY DEF GuardInv
<1>1. /\ guard[e] # "none"
      /\ \A x \in Episodes \ {e} : guard'[x] = guard[x] /\ files'[x] = files[x]
      /\ UNCHANGED <<ledger, disk, pc, seen, inflight, lost>>
      /\ server' \in {"run", "stop", "gone"}
      /\ server = "gone" <=> server' = "gone"
      /\ server' = "stop" => server = "stop" \/ guard[e] = "signal"
  BY <1>0, GuardTouches DEF daemonVars
<1>2. \A x \in Episodes : Whole(x)' => Whole(x)
  BY <1>1 DEF Whole
<1>3. server # "stop" /\ server' = "stop" => Out(e) /\ ~Out(e)'
  <2> SUFFICES ASSUME server # "stop", server' = "stop" PROVE Out(e) /\ ~Out(e)'
    OBVIOUS
  <2>1. guard[e] = "signal"
    BY <1>1
  <2>2. GuardSignal(e) /\ guard'[e] = "ack"
    BY <1>0, <2>1 DEF GuardAct, GuardStep, GuardStart, GuardArm, GuardSeesToken, GuardSeesEnd,
         GuardGivesUp, GuardCheck, GuardClaim, GuardSignal, GuardAck, GuardUndo, GuardWake,
         GuardRelease, GuardDies, Delivered, Refused, GuardGoes, TypeInv
  <2> QED BY <2>1, <2>2 DEF Out
<1>4. PoisedInv'
  <2> SUFFICES ASSUME NEW x \in Episodes, Whole(x)', (Out(x) \/ Coming(x))'
               PROVE  Poised(x)'
    BY DEF PoisedInv
  <2>1. Whole(x) /\ (Out(x) \/ Coming(x))
    BY <1>1, <1>2 DEF NoneSent, Coming
  <2>2. Poised(x)
    BY <1>0, <2>1 DEF AuthorityInv, PoisedInv
  <2>3. \A y \in Episodes : y > x => guard'[y] = "none"
    BY <1>1, <2>2 DEF Poised
  <2>4. server' = "run"
    <3> SUFFICES ASSUME server' = "stop" PROVE FALSE
      BY <1>1, <2>1, <2>2 DEF Whole, Poised
    <3>1. Out(e) /\ ~Out(e)'
      BY <1>3, <2>2 DEF Poised
    <3>2. ~(e > x)
      BY <1>1, <2>2 DEF Poised
    <3>3. Whole(e)
      <4>1. e <= x /\ e \in Int /\ x \in Int
        BY <3>2 DEF Episodes
      <4>2. 1..e \subseteq 1..x
        BY <4>1
      <4> QED BY <2>1, <4>2 DEF Whole
    <3>4. Owns(disk, e) /\ ~Settled
      BY <3>1, <3>3, RiskKnown
    <3>5. e = x
      BY <2>2, <3>4 DEF Poised, Owns
    <3>6. Coming(x)'
      BY <3>1, <3>5
    <3> QED BY <1>1, <3>4, <3>6 DEF Coming, Settled
  <2> QED BY <1>1, <2>2, <2>3, <2>4 DEF Poised, Owns
<1>5. SettledInv'
  <2>1. Settled' = Settled
    BY <1>1 DEF Settled
  <2>2. Stays
    BY <1>1 DEF Stays
  <2> QED BY <1>0, <2>1, <2>2, CalmStays DEF AuthorityInv, SettledInv
<1>6. ReceiptInv'
  <2> SUFFICES ASSUME pc \in {"activate", "undo"} PROVE "suspended" \in files'[ledger.episode]
    BY <1>1 DEF ReceiptInv
  <2>1. ledger.episode \in Episodes
    BY OpenEpisode DEF GuardInv, NumberInv, AttemptNumbered, Attempting
  <2>2. "suspended" \in files[ledger.episode]
    BY <1>0 DEF AuthorityInv, ReceiptInv
  <2> QED BY <1>0, <1>1, <2>1, <2>2, GuardFiles
<1>7. SeenInv'
  BY <1>0, <1>1 DEF AuthorityInv, SeenInv
<1>8. StoppedInv'
  <2> SUFFICES ASSUME server' = "stop", lost = {}
               PROVE  disk.stopped /\ (pc # "down" => ledger.stopped) /\ pc # "ctl_commit"
    BY <1>1 DEF StoppedInv
  <2>1. CASE server = "stop"
    BY <1>0, <2>1 DEF AuthorityInv, StoppedInv
  <2>2. CASE server # "stop"
    <3>1. Out(e) /\ Whole(e)
      BY <1>1, <1>3, <2>2 DEF Whole
    <3> QED BY <3>1, RiskKnown DEF Owns, Settled
  <2> QED BY <2>1, <2>2
<1> QED BY <1>4, <1>5, <1>6, <1>7, <1>8 DEF AuthorityInv

LEMMA AuthorityStep ==
    ASSUME GuardInv, [Next]_vars
    PROVE  AuthorityInv'
<1>0. /\ TypeInv /\ TokenInv /\ NumberInv /\ AuthorityInv
      /\ NoneSent \/ Commit
  BY TokenStep DEF GuardInv
<1>1. CASE \E e \in Episodes : GuardAct(e)
  <2>1. ~Commit
    BY <1>1, GuardTouches, <1>0 DEF Commit, Goes, daemonVars
  <2> QED BY <1>0, <1>1, <2>1, GuardAuthority
<1>2. CASE TickStart \/ Reconcile
  <2>1. /\ ClaimStep /\ lost' = lost /\ UNCHANGED <<files, guard>>
        /\ pc' \in {"look", "act", "finish", "control"}
        /\ pc' = "act" /\ ~inflight' => ~InFlight \/ Settled
        /\ ~seen'.server => server' = "gone"
    BY <1>2, ReconcileEffect DEF guardVars
  <2>2. NoneSent
    BY <2>1 DEF NoneSent, Out
  <2>3. PoisedInv'
    BY <2>1, <2>2, ClaimPoised
  <2>4. SettledInv'
    <3> SUFFICES ASSUME Settled' PROVE Calm'
      BY DEF SettledInv
    <3>1. Calm
      BY <2>1, NoticedBy DEF Settled, ClaimStep
    <3> QED BY <2>1, <2>2, <3>1, CalmStays, ClaimStays
  <2>5. StoppedInv'
    BY <2>1, ClaimStopped
  <2> QED BY <2>1, <2>3, <2>4, <2>5 DEF AuthorityInv, ReceiptInv, SeenInv
<1>3. CASE Control
  <2>1. /\ ClaimStep /\ lost' = lost /\ seen' = seen /\ guard' = guard
        /\ files' = files \/ ControlTakeToken
        /\ pc' \in {"control", "ctl_intent", "ctl_signal", "ctl_commit", "pressure"}
        /\ pc' \in {"ctl_intent", "ctl_signal", "ctl_commit"} => Settled \/ ControlTakeToken
        /\ pc' = "ctl_commit" => server' # "stop"
    BY <1>3, ControlEffect
  <2>2. NoneSent /\ pc \notin {"down", "idle"}
    BY <1>0, <1>3 DEF Control, ControlRefuse, ControlTakeToken, ControlIntent, ControlSignal,
                      ControlCommit, ControlDone, Commit
  <2>3. PoisedInv'
    BY <2>1, <2>2, ClaimPoised
  <2>4. SettledInv'
    <3> SUFFICES ASSUME Settled' PROVE Calm'
      BY DEF SettledInv
    <3>1. CASE ControlTakeToken
      BY <3>1, TakenIsCalm
    <3>2. CASE Settled
      <4>1. Calm
        BY <1>0, <3>2 DEF AuthorityInv, SettledInv
      <4> QED BY <2>1, <2>2, <4>1, CalmStays, ClaimStays
    <3> QED BY <2>1, <3>1, <3>2 DEF Settled
  <2>5. StoppedInv'
    BY <2>1, ClaimStopped
  <2>6. SeenInv'
    BY <1>0, <2>1, <2>2, ClaimStays DEF AuthorityInv, SeenInv, Stays
  <2> QED BY <2>1, <2>3, <2>4, <2>5, <2>6 DEF AuthorityInv, ReceiptInv
<1>4. CASE Pressure
  <2>1. /\ ClaimStep /\ seen' = seen /\ UNCHANGED <<files, guard>>
        /\ pc' \in {"idle", "rec_commit"}
    BY <1>4, PressureEffect DEF guardVars
  <2>2. NoneSent /\ pc \notin {"down", "idle"}
    BY <1>4, <2>1 DEF Pressure, Recover, RecoverCommit, PressureIdle, NoneSent, Out
  <2>3. PoisedInv'
    BY <2>1, <2>2, ClaimPoised
  <2>4. SettledInv'
    BY <2>1 DEF SettledInv, Settled
  <2>5. StoppedInv'
    BY <2>1, ClaimStopped
  <2>6. SeenInv'
    BY <1>0, <2>1, <2>2, ClaimStays DEF AuthorityInv, SeenInv, Stays
  <2> QED BY <2>1, <2>3, <2>4, <2>5, <2>6 DEF AuthorityInv, ReceiptInv
<1>5. CASE Attempt
  <2>1. /\ ClaimStep /\ lost' = lost /\ seen' = seen
        /\ files' = files \/ Commit
        /\ guard' = guard \/ Launch
        /\ pc \in Attempting \ {"cancel"} /\ pc' \in Attempting \union {"idle"}
        /\ ledger'.episode = ledger.episode
        /\ pc' \notin {"launch"}
        /\ pc' \in {"wait_armed", "commit", "activate", "undo", "cancel"} =>
             Settled \/ WaitSuspended
        /\ pc' \in {"wait_armed", "commit"} => pc \in {"launch", "wait_armed"}
        /\ pc' = "undo" => pc = "activate"
        /\ pc' = "activate" => WaitSuspended
    BY <1>5, AttemptEffect
  <2>2. StoppedInv'
    BY <2>1, ClaimStopped DEF Attempting
  <2>3. SeenInv'
    BY <1>0, <2>1, ClaimStays DEF AuthorityInv, SeenInv, Stays, Attempting
  <2>4. CASE NoneSent
    <3>1. pc' \in {"wait_armed", "commit"} => ledger' = ledger
      BY <1>5, <2>1 DEF Attempt, Launch, WaitArmed, Commit, WaitSuspended, Unconfirmed, Activate,
           ActivateUndo
    <3>2. \A x \in Episodes : guard[x] = "none" => guard'[x] = "none" \/ x = ledger.episode
      BY <1>0, <2>1 DEF Launch, GuardGoes, TypeInv
    <3>3. PoisedInv'
      BY <2>1, <2>4, <3>1, <3>2, ClaimPoised DEF Attempting
    <3>4. SettledInv'
      <4> SUFFICES ASSUME Settled' PROVE Calm'
        BY DEF SettledInv
      <4>1. Settled \/ (WaitSuspended /\ pc' \in {"activate", "cancel"})
        <5>1. pc' \in {"wait_armed", "commit", "activate", "undo", "cancel"}
          BY <2>1 DEF Settled, Attempting
        <5>2. WaitSuspended => pc' \in {"activate", "cancel", "unconfirmed"}
          BY DEF WaitSuspended, Goes
        <5> QED BY <2>1, <5>1, <5>2
      <4>2. Calm
        BY <1>0, <4>1, AnswerIsCalm DEF AuthorityInv, SettledInv
      <4> QED BY <2>1, <2>4, <4>2, CalmStays, ClaimStays
    <3>5. ReceiptInv'
      <4> SUFFICES ASSUME pc' \in {"activate", "undo"}
                   PROVE  "suspended" \in files'[ledger'.episode]
        BY DEF ReceiptInv
      <4>1. "suspended" \in files[ledger.episode]
        BY <1>0, <2>1, AnswerIsCalm DEF AuthorityInv, ReceiptInv
      <4>2. files' = files
        BY <2>1 DEF Commit, Goes
      <4> QED BY <2>1, <4>1, <4>2
    <3> QED BY <2>2, <2>3, <3>3, <3>4, <3>5 DEF AuthorityInv
  <2>5. CASE ~NoneSent
    <3>1. Commit /\ files' # files
      <4>1. Commit
        BY <1>0, <2>5
      <4>2. files' = files => NoneSent
        BY <4>1 DEF Commit, NoneSent, Out
      <4> QED BY <2>5, <4>1, <4>2
    <3>2. /\ pc = "commit" /\ pc' = "wait_suspended" /\ guard' = guard
          /\ UNCHANGED <<server, ledger, disk, lost>>
          /\ files' = [files EXCEPT ![ledger.episode] = (@ \ {"armed"}) \union {"committed"}]
      BY <3>1 DEF Commit, Goes, Move
    <3>3. PoisedInv'
      <4> SUFFICES ASSUME NEW e \in Episodes, Whole(e)', (Out(e) \/ Coming(e))'
                   PROVE  Poised(e)'
        BY DEF PoisedInv
      <4>1. Whole(e) /\ ~Out(e)
        BY <1>0, <3>2 DEF Whole, AuthorityInv, SettledInv, Settled, Calm
      <4>2. Out(e)'
        BY <3>2 DEF Coming
      <4>3. e = ledger.episode
        BY <1>0, <3>2, <4>1, <4>2 DEF Out, TypeInv
      <4>4. Poised(e)
        BY <1>0, <3>2, <4>1, <4>3 DEF AuthorityInv, PoisedInv, Coming
      <4> QED BY <3>2, <4>4 DEF Poised, Owns
    <3>4. SettledInv' /\ ReceiptInv'
      BY <3>2 DEF SettledInv, Settled, ReceiptInv
    <3> QED BY <2>2, <2>3, <3>3, <3>4 DEF AuthorityInv
  <2> QED BY <2>4, <2>5
<1>6. CASE Prepare
  <2> DEFINE n == episodes'
  <2>0. /\ pc = "pressure" /\ n = episodes + 1 /\ n \in Episodes
        /\ ~ledger.stopped
        /\ server # "gone" /\ server' = server
        /\ UNCHANGED <<lost, seen, files, guard>>
        /\ \/ pc' = "idle" /\ UNCHANGED <<ledger, disk, previous>>
           \/ /\ pc' = "launch" /\ Owns(ledger', n) /\ disk' = ledger'
    BY <1>6, PrepareEffect DEF guardVars
  <2> HIDE DEF n
  <2>1. NoneSent /\ Stays
    BY <2>0 DEF NoneSent, Out, Stays
  <2>2. Calm'
    BY <2>0, <2>1, NoticedBy, CalmStays
  <2>3. PoisedInv'
    <3> SUFFICES ASSUME NEW e \in Episodes, Whole(e)', Coming(e)'
                 PROVE  Poised(e)'
      BY <2>2 DEF PoisedInv, Calm
    <3>1. pc' = "launch" /\ e = n
      BY <2>0 DEF Coming, Owns
    <3>2. server = "run"
      <4> SUFFICES ASSUME server = "stop" PROVE FALSE
        BY <1>0, <2>0 DEF TypeInv
      <4>1. lost # {}
        BY <1>0, <2>0 DEF AuthorityInv, StoppedInv
      <4>2. PICK x \in lost : TRUE
        BY <4>1
      <4>3. x \in Episodes /\ (x <= episodes \/ 1 \in lost)
        BY <1>0 DEF NumberInv, LostNumbered
      <4>4. x \in 1..n \/ (1 \in lost /\ 1 \in 1..n)
        <5>1. episodes \in Nat
          BY <1>0 DEF TypeInv
        <5> QED BY <2>0, <4>3, <5>1 DEF Episodes
      <4> QED BY <2>0, <3>1, <4>4 DEF Whole
    <3>3. \A x \in Episodes : x > n => guard'[x] = "none"
      <4> SUFFICES ASSUME NEW x \in Episodes, x > n PROVE guard[x] = "none"
        BY <2>0
      <4>1. episodes \in Nat /\ x \in Int
        BY <1>0 DEF TypeInv, Episodes
      <4>2. ~(x <= episodes)
        BY <2>0, <4>1
      <4> QED BY <1>0, <4>2 DEF NumberInv, AttemptNumbered
    <3> QED BY <2>0, <3>1, <3>2, <3>3 DEF Poised, Owns
  <2>4. StoppedInv'
    BY <1>0, <2>0 DEF AuthorityInv, StoppedInv, Owns
  <2>5. ReceiptInv' /\ SeenInv'
    BY <1>0, <2>0 DEF AuthorityInv, ReceiptInv, SeenInv
  <2> QED BY <2>2, <2>3, <2>4, <2>5 DEF AuthorityInv, SettledInv
<1>7. CASE Cancel
  <2>0. /\ pc = "cancel" /\ pc' = "idle"
        /\ lost' = lost \/ lost' = lost \union {ledger.episode}
        /\ server = "stop" => lost' # {}
        /\ UNCHANGED <<server, files, guard>>
    BY <1>7, CancelEffect DEF guardVars
  <2>1. NoneSent /\ Stays
    BY <2>0 DEF NoneSent, Out, Stays
  <2>2. Calm'
    BY <1>0, <2>0, <2>1, CalmStays DEF AuthorityInv, SettledInv, Settled
  <2>3. PoisedInv' /\ SettledInv' /\ ReceiptInv' /\ SeenInv'
    BY <2>0, <2>2 DEF PoisedInv, Calm, Coming, SettledInv, ReceiptInv, SeenInv
  <2>4. StoppedInv'
    BY <2>0 DEF StoppedInv
  <2> QED BY <2>3, <2>4 DEF AuthorityInv
<1>8. CASE Outside
  <2>1. CASE Crash
    <3>1. pc' = "down" /\ UNCHANGED <<server, disk, files, guard, lost>>
      BY <2>1 DEF Crash, guardVars
    <3>2. PoisedInv'
      <4> SUFFICES ASSUME NEW e \in Episodes, Whole(e)', (Out(e) \/ Coming(e))'
                   PROVE  Poised(e)'
        BY DEF PoisedInv
      <4>1. Whole(e) /\ Out(e)
        BY <3>1 DEF Whole, Out, Coming
      <4>2. Poised(e)
        BY <1>0, <4>1 DEF AuthorityInv, PoisedInv
      <4> QED BY <3>1, <4>2 DEF Poised, Owns
    <3>3. SettledInv' /\ ReceiptInv' /\ SeenInv'
      BY <3>1 DEF SettledInv, Settled, ReceiptInv, SeenInv
    <3>4. StoppedInv'
      BY <1>0, <3>1 DEF AuthorityInv, StoppedInv
    <3> QED BY <3>2, <3>3, <3>4 DEF AuthorityInv
  <2>2. CASE Restart
    <3>1. /\ pc = "down" /\ pc' = "idle" /\ UNCHANGED <<server, disk, files, guard>>
          /\ \/ ledger' = disk /\ lost' = lost
             \/ lost' = lost \union Episodes
      BY <2>2 DEF Restart, Goes, guardVars
    <3>2. PoisedInv'
      <4> SUFFICES ASSUME NEW e \in Episodes, Whole(e)', (Out(e) \/ Coming(e))'
                   PROVE  Poised(e)'
        BY DEF PoisedInv
      <4>1. ledger' = disk /\ lost' = lost
        <5>1. e \in 1..e
          BY DEF Episodes
        <5> QED BY <3>1, <5>1 DEF Whole
      <4>2. Whole(e) /\ Out(e)
        BY <3>1, <4>1 DEF Whole, Out, Coming
      <4>3. Poised(e)
        BY <1>0, <4>2 DEF AuthorityInv, PoisedInv
      <4> QED BY <3>1, <4>1, <4>3 DEF Poised, Owns
    <3>3. SettledInv' /\ ReceiptInv' /\ SeenInv'
      BY <3>1 DEF SettledInv, Settled, ReceiptInv, SeenInv
    <3>4. StoppedInv'
      <4> SUFFICES ASSUME server = "stop", lost' = {}
                   PROVE  disk.stopped /\ ledger'.stopped
        BY <3>1 DEF StoppedInv
      <4>1. disk.stopped
        BY <1>0, <3>1 DEF AuthorityInv, StoppedInv
      <4>2. disk.episode \in Episodes
        BY <1>0, <4>1 DEF NumberInv, LedgersNumbered, TypeInv, Ledgers, Episodes
      <4> QED BY <3>1, <4>1, <4>2
    <3> QED BY <3>2, <3>3, <3>4 DEF AuthorityInv
  <2>3. CASE ServerExits \/ ExternalResume \/ Submit \/ UNCHANGED vars
    <3>1. /\ UNCHANGED <<ledger, disk, pc, seen, inflight, files, guard, lost>>
          /\ server' = server \/ server' = "gone" \/ (server = "stop" /\ server' = "run")
      BY <2>3 DEF ServerExits, ExternalResume, Submit, vars, daemonVars, guardVars
    <3>2. PoisedInv'
      <4> SUFFICES ASSUME NEW e \in Episodes, Whole(e)', (Out(e) \/ Coming(e))'
                   PROVE  Poised(e)'
        BY DEF PoisedInv
      <4>1. Whole(e) /\ (Out(e) \/ Coming(e))
        BY <3>1 DEF Whole, Out, Coming
      <4>2. Poised(e)
        BY <1>0, <4>1 DEF AuthorityInv, PoisedInv
      <4> QED BY <3>1, <4>2 DEF Poised, Owns, Whole
    <3>3. SettledInv'
      <4>1. Settled' = Settled /\ NoneSent /\ Stays
        BY <3>1 DEF Settled, NoneSent, Out, Stays
      <4> QED BY <1>0, <4>1, CalmStays DEF AuthorityInv, SettledInv
    <3>4. ReceiptInv' /\ SeenInv' /\ StoppedInv'
      BY <1>0, <3>1 DEF AuthorityInv, ReceiptInv, SeenInv, StoppedInv
    <3> QED BY <3>2, <3>3, <3>4 DEF AuthorityInv
  <2> QED BY <1>8, <2>1, <2>2, <2>3 DEF Outside
<1> QED BY <1>1, <1>2, <1>3, <1>4, <1>5, <1>6, <1>7, <1>8, StepKinds

-----------------------------------------------------------------------------
(* The invariant, and what it says of the runs' properties.                 *)
LEMMA GuardInductive == Spec => []GuardInv
<1>1. Init => GuardInv
  BY InitGuard
<1>2. GuardInv /\ [Next]_vars => GuardInv'
  BY TypeStep, TokenStep, NumberStep, AuthorityStep DEF GuardInv
<1> QED BY <1>1, <1>2, PTL DEF Spec

LEMMA FewFiles ==
    ASSUME NEW S, \A s, t \in S : s = t
    PROVE  Cardinality(S) <= 1
<1>1. CASE S = {}
  <2>1. Cardinality({}) = 0
    BY FS_EmptySet
  <2> QED BY <1>1, <2>1
<1>2. CASE S # {}
  <2>1. PICK s \in S : TRUE
    BY <1>2
  <2>2. S = {s}
    BY <2>1
  <2>3. Cardinality({s}) = 1
    BY FS_Singleton
  <2> QED BY <2>2, <2>3
<1> QED BY <1>1, <1>2

(* The ledgers are well formed, and the token of an episode is one file.    *)
THEOREM TypeCorrect == Spec => []TypeOK
<1>1. GuardInv => TypeOK
  <2> SUFFICES ASSUME GuardInv PROVE TypeOK
    OBVIOUS
  <2>1. \A e \in Episodes : Cardinality(files[e] \intersect (Tokens \union {"suspended"})) <= 1
    BY FewFiles DEF GuardInv, TokenInv, OneToken, TokenFiles
  <2>2. lost \subseteq Episodes
    BY DEF GuardInv, NumberInv, LostNumbered
  <2> QED BY <2>1, <2>2 DEF GuardInv, TypeInv, TypeOK
<1> QED BY <1>1, GuardInductive, PTL

(* The guard that may send the pause has its episode on disk as its own,    *)
(* whatever crashed, failed or was resumed (run_resume_guard,               *)
(* suspend_codex_app_last_resort, reconcile_stopped), as long as no pause   *)
(* up to its own was lost.                                                  *)
THEOREM AuthorityIsHeld == Spec => []AuthorityHeld
<1>1. GuardInv => AuthorityHeld
  <2> SUFFICES ASSUME GuardInv, NEW e \in Episodes, lost \intersect 1..e = {},
                      guard[e] = "signal", server # "gone"
               PROVE  Matching(e)
    BY DEF AuthorityHeld, GuardInv, TypeInv
  <2>1. Owns(disk, e)
    BY RiskKnown DEF Whole, Out
  <2> QED BY <2>1 DEF Owns, Matching
<1> QED BY <1>1, GuardInductive, PTL

(* While the daemon runs, a stopped server is in its table, unless a pause  *)
(* was lost.                                                                *)
THEOREM StoppedIsOwned == Spec => []StoppedOwned
<1>1. GuardInv => StoppedOwned
  BY DEF GuardInv, AuthorityInv, StoppedInv, StoppedOwned
<1> QED BY <1>1, GuardInductive, PTL

(* A guard never uses a token that the daemon or the owner has taken back   *)
(* (process_control_requests, transition_control_phase).                    *)
THEOREM CancelIsFinal == Spec => CancelFinal
<1>1. GuardInv => [CancelledUnused]_vars
  BY CancelledStep DEF GuardInv
<1> QED BY <1>1, GuardInductive, PTL DEF CancelFinal

=============================================================================
