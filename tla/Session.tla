------------------------------- MODULE Session -------------------------------
(***************************************************************************)
(* One session on its node: the row in the store, the supervisor task that *)
(* drives its harness (node/src/session/supervisor.rs), and what writes    *)
(* the row from outside that task: Stop, a required check, a budget        *)
(* raised, the conversation asked again, the sweep and the next start      *)
(* (node/src/session/mod.rs).  The operator's messages are sent, queued    *)
(* and delivered (store/queued_prompt.rs); permission requests and the     *)
(* waits of node/src/session/waits.rs are opened, decided and told.        *)
(*                                                                         *)
(* The supervisor handles one command or event at a time; where it reads   *)
(* the row and acts on it later, the read (saw) and the act are two steps. *)
(* Commands under way to it are a set, since their senders run             *)
(* concurrently.                                                           *)
(***************************************************************************)
EXTENDS Integers, Sequences, FiniteSets

CONSTANTS
    Perms,          \* permission requests the harness may raise
    Turns,          \* identities of the turns outstanding at once
    FailureLimit,   \* WATCHDOG_FAILURE_LIMIT
    PerSession, PerTurn,   \* RELAUNCHES_PER_SESSION, RELAUNCHES_PER_TURN
    MaxSends,       \* bound: the operator's prompts
    MaxEvents       \* bound: those; requests, questions and checks the agent raises;
                    \* compactions, stops, pauses, ends, deaths, restarts and askings

ASSUME ConstAssumption ==
    /\ FailureLimit \in Nat \ {0} /\ PerSession \in Nat \ {0} /\ PerTurn \in Nat \ {0}
    /\ MaxSends \in Nat /\ MaxEvents \in Nat
    /\ Turns \subseteq Nat \ {0} /\ Turns # {}

Terminal == {"closed", "killed_budget", "failed"}
Live == {"running", "paused", "waiting_on_you", "waiting_on_check"}
States == Terminal \cup Live \cup {"starting", "suspended"}
Waits == {"question", "check"}     \* of the operator, and of the required checks
Results == {"end", "error", "timeout", "stopped"}

VARIABLES
    row,       \* state, turn_active, whether the budget is spent, whether its budget or its waits held it
    queue,     \* queued_prompt: messages not delivered, oldest first
    perm,      \* per request: where it stands
    wait,      \* per wait: where it stands
    pc,        \* what the supervisor is at; none when it is not in `live`
    saw, work, \* its row read, and the turn it is about to start
    sup,       \* its memory
    timers,    \* turns a quiesce timer runs for
    turn,      \* the task of each turn, up to its TurnDone
    harness,   \* the process
    mail,      \* commands under way to the supervisor
    stop,      \* a Stop under way
    stopping,  \* the node is stopping
    item,      \* its work item: open, closed, or closed while it was starting
    was,       \* what a start that fails leaves the row as
    told,      \* history: the operator's messages given to the agent
    woken,     \* history: a check settled over a row put away or starting again
    sends, moves

step == <<pc, saw, work>>
running == <<timers, turn, harness>>
memory == <<step, sup, running, mail>>
world == <<stop, stopping, item, was>>
history == <<told, woken>>
bounds == <<sends, moves>>
vars == <<row, queue, perm, wait, memory, world, history, bounds>>

NoRow == [state |-> "none", turn |-> FALSE, spent |-> FALSE, why |-> "none"]
NoWork == [kind |-> "none", msgs |-> << >>, waits |-> {}, from |-> "none", held |-> FALSE]
Fresh == [active |-> 0, paused |-> 0, endAfter |-> "none", fails |-> 0, relaunches |-> 0,
          tried |-> 0, died |-> FALSE]
NoTurns == [t \in Turns |-> "none"]

Init ==
    /\ row = [NoRow EXCEPT !.state = "starting"]
    /\ queue = << >> /\ perm = [p \in Perms |-> "unasked"] /\ wait = [w \in Waits |-> "none"]
    /\ pc = "starting" /\ saw = NoRow /\ work = NoWork /\ sup = Fresh /\ timers = {}
    /\ turn = NoTurns /\ harness = "dead" /\ mail = {}
    /\ stop = "idle" /\ stopping = FALSE /\ item = "open" /\ was = "failed"
    /\ told = << >> /\ woken = FALSE /\ sends = 0 /\ moves = 0

Raised == {p \in Perms : perm[p] # "unasked"} \cup {w \in Waits : wait[w] # "none"}
Room == sends + moves + Cardinality(Raised) < MaxEvents

----------------------------------------------------------------------------
(***************************************************************************)
(* Writes of the row.                                                      *)
(***************************************************************************)

Ended(r) == r.state \in Terminal
Fenced(r) == Ended(r) \/ r.state = "paused"

\* set_state: update_session_unless(TERMINAL).
SetState(r, s) ==
    IF Ended(r) THEN r ELSE [r EXCEPT !.state = s, !.turn = @ /\ s \notin Terminal]

\* update_session_if(running, waiting_on_you)
Hold(r) == IF r.state = "running" THEN [r EXCEPT !.state = "waiting_on_you"] ELSE r

\* set_checking, fenced by TERMINAL and paused.
SetCheckingOverPause(r, checking) ==
    IF Ended(r) THEN r ELSE [r EXCEPT !.state = IF checking THEN "waiting_on_check" ELSE "running"]
SetChecking(r, checking) ==
    IF Fenced(r) THEN r ELSE [r EXCEPT !.state = IF checking THEN "waiting_on_check" ELSE "running"]

\* A turn settled: turn_active cleared and its spend charged.
Settled(r) == {[r EXCEPT !.turn = FALSE, !.spent = s] : s \in {r.spent, TRUE}}

----------------------------------------------------------------------------
(***************************************************************************)
(* What the supervisor reads besides the row.                              *)
(***************************************************************************)

Supervised == pc \notin {"none", "starting"}
OpenPerms == {p \in Perms : perm[p] = "open"}                     \* with a reply owed
UnresolvedPerms == {p \in Perms : perm[p] \in {"open", "orphan"}}   \* the rows
OpenWaits == {w \in Waits : wait[w] \in {"open", "cleared"}}
Untold == {w \in Waits : wait[w] = "decided"}

\* reject_open_permissions: those in the supervisor's map.
Rejected == [p \in Perms |-> IF perm[p] = "open" THEN "closed" ELSE perm[p]]
\* The requests of a harness that is gone, and the answers nobody waits for.
Dropped(f) == [p \in Perms |-> IF f[p] = "event" THEN "closed" ELSE f[p]]

HarnessGone(f) == [t \in Turns |-> IF f[t] = "running" THEN "lost" ELSE f[t]]
Working == {t \in Turns : turn[t] = "running"}

\* waits.forget: what was told is not kept past the supervisor.
Forgotten == [w \in Waits |-> IF wait[w] = "told" THEN "decided" ELSE wait[w]]

----------------------------------------------------------------------------
(***************************************************************************)
(* Ends.  Shutdown writes the ending first and tears down after; the turn  *)
(* in flight is kept to be settled then.                                   *)
(***************************************************************************)

Shutdown(r, s) ==
    /\ row' = SetState(r, s)
    /\ pc' = "teardown"
    /\ saw' = NoRow /\ work' = NoWork

\* suspend: update_session_unless(TERMINAL).
SuspendAs(why) ==
    /\ row' = IF Ended(row) THEN row
              ELSE [row EXCEPT !.state = "suspended", !.turn = FALSE, !.why = why]
    /\ pc' = "teardown"
    /\ saw' = NoRow /\ work' = NoWork

\* The task is over: it leaves `live`, and an item closed while it was
\* suspending ends it (end_if_item_closed).
Gone(r) ==
    /\ row' = IF item # "open" /\ r.state = "suspended" THEN [r EXCEPT !.state = "closed"] ELSE r
    /\ pc' = "none" /\ saw' = NoRow /\ work' = NoWork /\ sup' = Fresh /\ timers' = {}
    /\ turn' = NoTurns /\ harness' = "dead" /\ mail' = {}
    /\ wait' = Forgotten

Teardown ==
    /\ pc = "teardown"
    /\ \E r \in IF sup.active # 0 THEN Settled(row) ELSE {row} : Gone(r)
    /\ perm' = Dropped(Rejected)
    /\ UNCHANGED <<queue, world, history, bounds>>

\* finish_unexpected: the loop ended without an ending of its own.  A row
\* that has ended is left as it is, its open requests with it.
FinishLeavesRow ==
    /\ pc = "finish"
    /\ Gone(row)
    /\ perm' = Dropped([p \in Perms |-> IF perm[p] = "open" THEN "orphan" ELSE perm[p]])
    /\ UNCHANGED <<queue, world, history, bounds>>
Finish ==
    /\ pc = "finish"
    /\ IF Ended(row)
       THEN /\ Gone(row)
            /\ perm' = Dropped([p \in Perms |-> IF perm[p] = "open" THEN "orphan" ELSE perm[p]])
       ELSE /\ \E r \in IF sup.active # 0 \/ row.turn THEN Settled(row) ELSE {row} :
                   Gone(SetState(r, IF r.spent THEN "killed_budget" ELSE "closed"))
            /\ perm' = Dropped(Rejected)
    /\ UNCHANGED <<queue, world, history, bounds>>

----------------------------------------------------------------------------
(***************************************************************************)
(* Starting, and asking an ended or suspended session again.               *)
(***************************************************************************)

\* reopen_as: refused while its last supervisor is live.
Reopenable == pc = "none" /\ ~row.spent /\ item = "open"

Ask ==
    /\ Room /\ ~stopping
    /\ row.state \in Terminal \cup {"suspended"}
    /\ Reopenable
    /\ row' = [row EXCEPT !.state = "starting", !.turn = FALSE]
    /\ was' = row.state
    /\ pc' = "starting"
    /\ moves' = moves + 1
    /\ UNCHANGED <<queue, perm, wait, saw, work, sup, running, mail, stop, stopping, item,
                   history, sends>>

\* A start that fails: update_session(failed), or restore_session.
StartFails ==
    /\ pc = "starting"
    /\ row' = IF row.state = "starting" THEN [row EXCEPT !.state = was] ELSE row
    /\ pc' = "none"
    /\ was' = "failed"
    /\ UNCHANGED <<queue, perm, wait, saw, work, sup, running, mail, stop, stopping, item, history,
                   bounds>>

\* startable, then the command channel is put in `live`.
Handoff ==
    /\ pc = "starting"
    /\ IF row.state = "starting"
       THEN pc' = "claim" /\ harness' = "up"
       ELSE pc' = "none" /\ UNCHANGED harness
    /\ was' = "failed"
    /\ UNCHANGED <<row, queue, perm, wait, saw, work, sup, timers, turn, mail, stop, stopping, item,
                   history, bounds>>

\* claim_running: update_session_if(starting).
ClaimRunning ==
    /\ pc = "claim"
    /\ IF row.state = "starting"
       THEN row' = [row EXCEPT !.state = "running"] /\ pc' = "idle"
       ELSE pc' = "finish" /\ UNCHANGED row
    /\ UNCHANGED <<queue, perm, wait, saw, work, sup, running, mail, world, history, bounds>>

----------------------------------------------------------------------------
(***************************************************************************)
(* Starting a turn.                                                        *)
(***************************************************************************)

\* The row is read; dispatch acts on it in the next step.
Dispatching(w) == pc' = "dispatch" /\ saw' = row /\ work' = w

FreeTurn == CHOOSE t \in Turns : turn[t] = "none"

HeldBetweenTurns(r) == r.state = "waiting_on_you" /\ sup.active = 0 /\ OpenPerms = {}
TakesTurnDuringOne(r) == ~r.spent /\ (r.state = "running" \/ HeldBetweenTurns(r))
TakesTurn(r) == ~r.turn /\ ~r.spent /\ (r.state = "running" \/ HeldBetweenTurns(r))

\* dispatch accepted: the turn's task is spawned, the messages are the
\* agent's, and the decisions brought back are marked told.
DispatchStarts ==
    /\ pc = "dispatch"
    /\ TakesTurn(saw)
    /\ \E t \in Turns :
          /\ turn[t] = "none" /\ t = FreeTurn
          /\ sup' = [sup EXCEPT !.active = t]
          /\ turn' = [turn EXCEPT ![t] = IF harness = "up" THEN "running" ELSE "lost"]
    /\ row' = [(IF HeldBetweenTurns(saw) THEN SetState(row, "running") ELSE row) EXCEPT !.turn = TRUE]
    /\ told' = told \o work.msgs
    /\ wait' = [w \in Waits |-> IF w \in work.waits THEN "told" ELSE wait[w]]
    /\ pc' = "idle" /\ saw' = NoRow /\ work' = NoWork
    /\ UNCHANGED <<queue, perm, timers, harness, mail, world, woken, bounds>>

\* release_queued_prompts
ReleaseNothing == queue
ReleaseQueued == IF work.kind = "queued" THEN work.msgs \o queue ELSE queue

\* dispatch refused: a direct prompt is refused to the operator, queued
\* messages are put back, decisions hold the session.
DispatchRefused ==
    /\ pc = "dispatch"
    /\ ~TakesTurn(saw)
    /\ queue' = ReleaseQueued
    /\ row' = IF work.kind = "decisions" /\ work.from = "running" THEN Hold(row) ELSE row
    /\ IF work.kind = "queued" /\ work.from # "none"
       THEN pc' = "settled" /\ work' = [NoWork EXCEPT !.from = work.from, !.held = work.held]
       ELSE pc' = "idle" /\ work' = NoWork
    /\ saw' = NoRow
    /\ UNCHANGED <<perm, wait, sup, running, mail, world, history, bounds>>

\* on_operator_prompt: sent now, or queued behind the turn, the checks or
\* the messages before it.
QueuesOnlyIfBusy(r) ==
    /\ r.state \in {"running", "waiting_on_you", "waiting_on_check"}
    /\ r.turn \/ r.state = "waiting_on_check"
Queues(r) ==
    /\ r.state \in {"running", "waiting_on_you", "waiting_on_check"}
    /\ r.turn \/ r.state = "waiting_on_check" \/ queue # << >>

Prompt ==
    /\ pc = "idle" /\ ~stopping /\ ~Fenced(row)
    /\ Room /\ sends < MaxSends /\ sends' = sends + 1
    /\ sup' = [sup EXCEPT !.tried = 0]
    /\ LET msg == sends + 1
           busy == row.turn \/ row.state = "waiting_on_check"
       IN \/ /\ ~Queues(row)
             /\ Dispatching([NoWork EXCEPT !.kind = "prompt", !.msgs = <<msg>>])
             /\ UNCHANGED queue
          \/ /\ Queues(row) /\ ~row.spent /\ busy
             /\ queue' = Append(queue, msg)
             /\ UNCHANGED <<step>>
          \/ /\ Queues(row) /\ ~row.spent /\ ~busy
             /\ Dispatching([NoWork EXCEPT !.kind = "queued", !.msgs = Append(queue, msg)])
             /\ queue' = << >>
    /\ UNCHANGED <<row, perm, wait, running, mail, world, history, moves>>

Compact ==
    /\ pc = "idle" /\ ~stopping
    /\ Room /\ moves' = moves + 1
    /\ sup' = [sup EXCEPT !.tried = 0]
    /\ Dispatching([NoWork EXCEPT !.kind = "compact"])
    /\ UNCHANGED <<row, queue, perm, wait, running, mail, world, history, sends>>

----------------------------------------------------------------------------
(***************************************************************************)
(* Between turns: settle_waits.                                            *)
(***************************************************************************)

SettleLooks(s, r, p) ==
    /\ s.active = 0 /\ s.paused = 0
    /\ r.state \in {"running", "waiting_on_you"} /\ ~r.turn
    /\ \A q \in Perms : p[q] # "open"

\* It returns at once, or goes on with the row it read.
Settling(s, r, p) ==
    IF SettleLooks(s, r, p) THEN pc' = "settle" /\ saw' = r /\ work' = NoWork
                            ELSE pc' = "idle" /\ saw' = NoRow /\ work' = NoWork

\* Once nothing is left to deliver: held, ended, or no longer held.
SettleRest(state, held) ==
    IF held
    THEN /\ row' = IF state = "running" THEN Hold(row) ELSE row
         /\ pc' = "idle" /\ saw' = NoRow /\ work' = NoWork /\ UNCHANGED sup
    ELSE IF sup.endAfter # "none"
    THEN /\ sup' = [sup EXCEPT !.endAfter = "none"]
         /\ Shutdown(row, "closed")
    ELSE /\ row' = IF state = "waiting_on_you" THEN SetState(row, "running") ELSE row
         /\ pc' = "idle" /\ saw' = NoRow /\ work' = NoWork /\ UNCHANGED sup

SettleForgetsQueue ==
    /\ pc = "settle"
    /\ IF Untold # {}
       THEN /\ Dispatching([NoWork EXCEPT !.kind = "decisions", !.waits = Untold, !.from = saw.state])
            /\ UNCHANGED <<row, queue, sup>>
       ELSE SettleRest(saw.state, OpenWaits # {}) /\ UNCHANGED queue
    /\ UNCHANGED <<perm, wait, running, mail, world, history, bounds>>
SettleWaits ==
    /\ pc = "settle"
    /\ IF Untold # {}
       THEN /\ Dispatching([NoWork EXCEPT !.kind = "decisions", !.waits = Untold, !.from = saw.state])
            /\ UNCHANGED <<row, queue, sup>>
       ELSE IF queue # << >>
       THEN /\ Dispatching([NoWork EXCEPT !.kind = "queued", !.msgs = queue, !.from = saw.state,
                                                           !.held = OpenWaits # {}])
            /\ queue' = << >>
            /\ UNCHANGED <<row, sup>>
       ELSE SettleRest(saw.state, OpenWaits # {}) /\ UNCHANGED queue
    /\ UNCHANGED <<perm, wait, running, mail, world, history, bounds>>

\* settle_waits goes on after queued messages could not be sent.
SettleGoesOn ==
    /\ pc = "settled"
    /\ SettleRest(work.from, work.held)
    /\ UNCHANGED <<queue, perm, wait, running, mail, world, history, bounds>>

\* The tick's look, or WaitMoved's, where it would do anything.
Tick ==
    /\ pc = "idle"
    /\ SettleLooks(sup, row, perm)
    /\ \/ (Untold # {} \/ queue # << >>) /\ ~row.spent
       \/ Untold # {} /\ row.state = "running"
       \/ Untold = {} /\ OpenWaits # {} /\ row.state = "running"
       \/ Untold = {} /\ OpenWaits = {} /\ (sup.endAfter # "none" \/ row.state = "waiting_on_you")
    /\ Settling(sup, row, perm)
    /\ UNCHANGED <<row, queue, perm, wait, sup, running, mail, world, history, bounds>>

----------------------------------------------------------------------------
(***************************************************************************)
(* Fencing: pause, resume, the budget.                                     *)
(***************************************************************************)

\* pause, on a row neither paused nor ended; q is the requests then open.
Pausing(r, q, why) ==
    /\ row' = [SetState(r, "paused") EXCEPT !.why = why]
    /\ perm' = [p \in Perms |-> IF q[p] = "open" THEN "closed" ELSE q[p]]

Pause ==
    /\ pc = "idle" /\ ~stopping /\ Room /\ moves' = moves + 1
    /\ ~Fenced(row)
    /\ \/ /\ Pausing(row, perm, "none")
          /\ sup' = [sup EXCEPT !.paused = sup.active]
          /\ timers' = timers \cup ({sup.active} \ {0})
          /\ UNCHANGED <<turn, harness>>
       \/ \* the interrupt could not be queued: shut down, and the loop goes on
          /\ sup.active # 0
          /\ \E r \in Settled(SetState(row, "failed")) : row' = r
          /\ perm' = Rejected
          /\ sup' = [sup EXCEPT !.active = 0, !.paused = sup.active]
          /\ harness' = "dead" /\ turn' = HarnessGone(turn)
          /\ UNCHANGED timers
    /\ UNCHANGED <<queue, wait, step, mail, world, history, sends>>

MayResume(r) == r.state = "paused" /\ sup.paused = 0 /\ ~r.spent

\* resume, asked for by the operator or by raising the budget.
Resume ==
    /\ pc = "idle"
    /\ \/ ~stopping /\ UNCHANGED mail
       \/ "resume" \in mail /\ mail' = mail \ {"resume"}
    /\ MayResume(row)
    /\ row' = [SetState(row, "running") EXCEPT !.why = "none"]
    /\ sup' = [sup EXCEPT !.fails = 0]
    /\ UNCHANGED <<queue, perm, wait, step, running, world, history, bounds>>

ResumeRefused ==
    /\ pc = "idle" /\ "resume" \in mail
    /\ ~MayResume(row)
    /\ mail' = mail \ {"resume"}
    /\ UNCHANGED <<row, queue, perm, wait, step, sup, running, world, history, bounds>>

\* set_budget: one held at its budget is resumed.
RaiseBudget ==
    /\ ~stopping /\ ~Ended(row) /\ row.spent
    /\ row' = [row EXCEPT !.spent = FALSE]
    /\ mail' = IF Supervised /\ row.state = "paused" /\ row.why = "budget"
               THEN mail \cup {"resume"} ELSE mail
    /\ UNCHANGED <<queue, perm, wait, step, sup, running, world, history, bounds>>

\* PauseQuiesceTimeout
QuiesceTimeout ==
    /\ pc = "idle"
    /\ \E t \in timers :
          /\ timers' = timers \ {t}
          /\ IF sup.paused = t /\ row.state = "paused" THEN Shutdown(row, "failed")
                                                       ELSE UNCHANGED <<row, step>>
    /\ UNCHANGED <<queue, perm, wait, sup, turn, harness, mail, world, history, bounds>>

----------------------------------------------------------------------------
(***************************************************************************)
(* The end of a turn.                                                      *)
(***************************************************************************)

CanRelaunch(r) == ~Fenced(r)

\* The requests the finished turn left on the event queue are taken first.
Drained(r) == [p \in Perms |-> IF perm[p] # "event" THEN perm[p]
                               ELSE IF Fenced(r) THEN "closed" ELSE "open"]
AfterDrain(r) ==
    IF ~Fenced(r) /\ (\E p \in Perms : perm[p] = "event") THEN SetState(r, "waiting_on_you") ELSE r

\* What follows a completion that was taken: r is the row with the turn
\* settled, q the requests, s the memory.
AfterTurn(t, how, r, q, s) ==
    IF sup.paused = t
    THEN /\ sup' = [s EXCEPT !.paused = 0]
         /\ row' = r /\ perm' = q
         /\ pc' = "idle" /\ saw' = NoRow /\ work' = NoWork
    ELSE IF how = "timeout"
    THEN /\ sup' = s /\ perm' = q
         /\ Shutdown(SetState(r, "paused"), "failed")
    ELSE IF s.fails >= FailureLimit /\ r.state # "paused"
    THEN /\ sup' = s
         /\ IF Ended(r) THEN row' = r /\ perm' = q ELSE Pausing(r, q, "none")
         /\ pc' = "idle" /\ saw' = NoRow /\ work' = NoWork
    ELSE IF s.endAfter = "item"
    THEN /\ sup' = [s EXCEPT !.endAfter = "none"] /\ perm' = q
         /\ Shutdown(r, "closed")
    ELSE IF r.spent /\ ~Fenced(r)
    THEN /\ sup' = s
         /\ Pausing(r, q, "budget")
         /\ pc' = "idle" /\ saw' = NoRow /\ work' = NoWork
    ELSE /\ sup' = s /\ row' = r /\ perm' = q
         /\ Settling(s, r, q)

\* A completion of a turn other than the active one is ignored.
ForeignTurn(t) == t # sup.active

TurnDone(t) ==
    /\ pc = "idle" /\ turn[t] \in Results
    /\ turn' = [turn EXCEPT ![t] = "none"]
    /\ timers' = timers \ {t}
    /\ \/ /\ ForeignTurn(t)
          /\ UNCHANGED <<row, perm, step, sup>>
       \/ \* the harness died under it; its exit carries the work on
          /\ ~ForeignTurn(t) /\ turn[t] = "stopped" /\ CanRelaunch(row)
          /\ sup' = [sup EXCEPT !.active = 0, !.died = TRUE]
          /\ row' \in Settled(row)
          /\ UNCHANGED <<perm, step>>
       \/ /\ ~ForeignTurn(t) /\ (turn[t] # "stopped" \/ ~CanRelaunch(row))
          /\ \E r \in Settled(AfterDrain(row)) :
                AfterTurn(t, turn[t], r, Drained(row),
                          [sup EXCEPT !.active = 0,
                                      !.fails = IF turn[t] = "end" THEN 0
                                                ELSE IF @ < FailureLimit THEN @ + 1 ELSE @])
    /\ UNCHANGED <<queue, wait, harness, mail, world, history, bounds>>

\* Exited: the harness is started again on its conversation, or the loop ends.
MayRelaunch == CanRelaunch(row) /\ sup.relaunches < PerSession /\ sup.tried < PerTurn

Exited ==
    /\ pc = "idle" /\ harness = "dead"
    /\ \A p \in Perms : perm[p] # "event"      \* the exit is the last event
    /\ LET interrupted == sup.active # 0 \/ sup.died
           next == [sup EXCEPT !.active = 0, !.died = FALSE]
       IN \E r \in IF CanRelaunch(row) /\ sup.active # 0 THEN Settled(row) ELSE {row} :
             /\ row' = r
             /\ \/ \* relaunched, and the interrupted turn carried on
                   /\ MayRelaunch
                   /\ perm' = Rejected
                   /\ harness' = "up"
                   /\ sup' = [next EXCEPT !.relaunches = @ + 1, !.tried = @ + 1]
                   /\ IF interrupted
                      THEN pc' = "dispatch" /\ saw' = r /\ work' = [NoWork EXCEPT !.kind = "continue"]
                      ELSE UNCHANGED <<step>>
                \/ \* not relaunched, or it could not be
                   /\ perm' \in IF MayRelaunch THEN {perm, Rejected} ELSE {perm}
                   /\ sup' = IF CanRelaunch(row) THEN next ELSE sup
                   /\ pc' = "finish"
                   /\ UNCHANGED <<harness, saw, work>>
    /\ UNCHANGED <<queue, wait, timers, turn, mail, world, history, bounds>>

----------------------------------------------------------------------------
(***************************************************************************)
(* Permission requests.                                                    *)
(***************************************************************************)

\* on_permission, where policy asks the operator.
OnPermission(p) ==
    /\ pc = "idle" /\ perm[p] = "event"
    /\ perm' = [perm EXCEPT ![p] = IF Fenced(row) THEN "closed" ELSE "open"]
    /\ row' = IF Fenced(row) THEN row ELSE SetState(row, "waiting_on_you")
    /\ UNCHANGED <<queue, wait, memory, world, history, bounds>>

\* on_answer by the operator, or expire_permissions at a tick.
AnswerOrExpire(p) ==
    /\ pc = "idle" /\ perm[p] \in {"open", "orphan"}
    /\ perm' = [perm EXCEPT ![p] = "closed"]
    /\ pc' = "back" /\ saw' = row
    /\ UNCHANGED <<row, queue, wait, work, sup, running, mail, world, history, bounds>>

\* back_to_running acts on the row it read.
Back(r) == IF UnresolvedPerms = {} /\ saw.state = "waiting_on_you" THEN SetState(r, "running") ELSE r
BackToRunning ==
    /\ pc = "back"
    /\ row' = Back(row)
    /\ pc' = "idle" /\ saw' = NoRow
    /\ UNCHANGED <<queue, perm, wait, work, sup, running, mail, world, history, bounds>>

\* The sweep: orphaned_permissions are this node's requests whose session ended.
Swept == IF Ended(row) THEN UnresolvedPerms ELSE {}
Sweep ==
    /\ Swept # {}
    /\ perm' = [p \in Perms |-> IF p \in Swept THEN "closed" ELSE perm[p]]
    /\ UNCHANGED <<row, queue, wait, memory, world, history, bounds>>

----------------------------------------------------------------------------
(***************************************************************************)
(* Commands that end or put away the session.                              *)
(***************************************************************************)

\* terminate: the row is fenced at once, unless it is starting.
StopFence ==
    /\ stop = "idle" /\ ~stopping /\ Room /\ moves' = moves + 1
    /\ ~Ended(row)
    /\ IF row.state = "starting"
       THEN stop' = "unfenced" /\ UNCHANGED row
       ELSE stop' = "fenced" /\ row' = [row EXCEPT !.state = "closed", !.turn = FALSE]
    /\ UNCHANGED <<queue, perm, wait, memory, stopping, item, was, history, sends>>

\* Then Kill is sent, to a supervisor in `live`.  (Its channel holds sixteen commands, and
\* a send waits ten seconds for room: fewer than sixteen are ever under way here.)
StopSendsUnlessFenced ==
    /\ stop \in {"fenced", "unfenced"}
    /\ IF Supervised /\ stop = "unfenced" THEN mail' = mail \cup {"kill"} /\ stop' = "idle"
       ELSE /\ stop' = IF stop = "unfenced" /\ row.state \in {"starting", "paused"}
                       THEN "closing" ELSE "idle"
            /\ UNCHANGED mail
    /\ UNCHANGED <<row, queue, perm, wait, step, sup, running, stopping, item, was, history, bounds>>
StopSends ==
    /\ stop \in {"fenced", "unfenced"}
    /\ IF Supervised THEN mail' = mail \cup {"kill"} /\ stop' = "idle"
       ELSE /\ stop' = IF stop = "unfenced" /\ row.state \in {"starting", "paused"}
                       THEN "closing" ELSE "idle"
            /\ UNCHANGED mail
    /\ UNCHANGED <<row, queue, perm, wait, step, sup, running, stopping, item, was, history, bounds>>

\* A row with no supervisor yet is closed directly, and its container killed.
StopCloses ==
    /\ stop = "closing"
    /\ row' = [row EXCEPT !.state = "closed", !.turn = FALSE]
    /\ harness' = "dead" /\ turn' = HarnessGone(turn)
    /\ stop' = "idle"
    /\ UNCHANGED <<queue, perm, wait, step, sup, timers, mail, stopping, item, was, history, bounds>>

TakeKill ==
    /\ pc = "idle" /\ "kill" \in mail
    /\ mail' = mail \ {"kill"}
    /\ Shutdown(row, "closed")
    /\ UNCHANGED <<queue, perm, wait, sup, running, world, history, bounds>>

\* suspend_idle_published, and the supervisor's own look.
SuspendIdle ==
    /\ Supervised /\ ~stopping /\ Room /\ moves' = moves + 1
    /\ row.state = "running" /\ ~row.turn
    /\ UnresolvedPerms = {} /\ OpenWaits = {}
    /\ mail' = mail \cup {"suspend"}
    /\ UNCHANGED <<row, queue, perm, wait, step, sup, running, world, history, sends>>

TakeSuspend ==
    /\ pc = "idle" /\ "suspend" \in mail
    /\ mail' = mail \ {"suspend"}
    /\ IF sup.active = 0 /\ OpenPerms = {} /\ row.state = "running" /\ ~row.turn
       THEN SuspendAs("none") ELSE UNCHANGED <<row, step>>
    /\ UNCHANGED <<queue, perm, wait, sup, running, world, history, bounds>>

\* item_closed, and a finished phase said by the agent's own tool.
EndAfterTurn(reason) ==
    /\ Room /\ moves' = moves + 1 /\ ~stopping
    /\ IF reason = "phase" THEN Working # {} /\ UNCHANGED item
       ELSE item = "open" /\ item' = IF row.state = "starting" THEN "missed" ELSE "closed"
    /\ mail' = IF Supervised THEN mail \cup {reason} ELSE mail
    /\ row' = IF ~Supervised /\ row.state = "suspended" THEN [row EXCEPT !.state = "closed"] ELSE row
    /\ UNCHANGED <<queue, perm, wait, step, sup, running, stop, stopping, was, history, sends>>

TakeEndAfterTurn(reason) ==
    /\ pc = "idle" /\ reason \in mail
    /\ mail' = mail \ {reason}
    /\ LET next == [sup EXCEPT !.endAfter = reason]
       IN \/ row.turn /\ sup' = next /\ UNCHANGED <<row, step>>
          \/ ~row.turn /\ reason = "phase" /\ sup' = next /\ UNCHANGED row /\ Settling(next, row, perm)
          \/ ~row.turn /\ reason = "item" /\ Shutdown(row, "closed") /\ UNCHANGED sup
    /\ UNCHANGED <<queue, perm, wait, running, world, history, bounds>>

\* shutdown_all: a session only waiting on the operator is put away.
NodeStops ==
    /\ ~stopping /\ Room /\ moves' = moves + 1
    /\ stopping' = TRUE
    /\ mail' = IF Supervised THEN mail \cup {"end"} ELSE mail
    /\ UNCHANGED <<row, queue, perm, wait, step, sup, running, stop, item, was, history, sends>>

TakeEnd ==
    /\ pc = "idle" /\ "end" \in mail
    /\ mail' = mail \ {"end"}
    /\ IF sup.active = 0 /\ wait["question"] = "open" THEN SuspendAs("waits")
                                                      ELSE Shutdown(row, "closed")
    /\ UNCHANGED <<queue, perm, wait, sup, running, world, history, bounds>>

\* The process is gone, stopped or not, and the next one reconciles the row.
Reconcile(r) ==
    IF Ended(r) \/ r.state = "suspended" THEN r
    ELSE IF ~r.turn /\ r.state \in {"running", "waiting_on_you"} /\ wait["question"] = "open"
    THEN [r EXCEPT !.state = "suspended", !.why = "waits"]
    ELSE [r EXCEPT !.state = "closed", !.turn = FALSE]

Restart ==
    /\ stopping \/ Room
    /\ moves' = IF stopping THEN moves ELSE moves + 1
    /\ row' = Reconcile(row)
    /\ perm' = Dropped([p \in Perms |->
                   IF p \notin UnresolvedPerms THEN perm[p]
                   ELSE IF Ended(row) \/ row.state = "suspended" THEN "orphan" ELSE "closed"])
    /\ wait' = [Forgotten EXCEPT !["check"] = IF @ = "none" THEN "none" ELSE "told"]
    /\ pc' = "none" /\ saw' = NoRow /\ work' = NoWork /\ sup' = Fresh /\ timers' = {}
    /\ turn' = NoTurns /\ harness' = "dead" /\ mail' = {}
    /\ stop' = "idle" /\ stopping' = FALSE /\ was' = "failed"
    /\ UNCHANGED <<queue, item, history, sends>>

\* The sweep's end_closed_suspended.
EndClosedSuspended ==
    /\ ~stopping /\ row.state = "suspended" /\ item # "open"
    /\ row' = [row EXCEPT !.state = "closed"]
    /\ UNCHANGED <<queue, perm, wait, memory, world, history, bounds>>

\* continue_held: carried on as a new session, the old one ends.
CarryOn ==
    /\ ~stopping
    /\ row.state = "suspended" /\ row.why = "waits" /\ OpenWaits = {}
    /\ row' = [row EXCEPT !.state = "closed"]
    /\ UNCHANGED <<queue, perm, wait, memory, world, history, bounds>>

----------------------------------------------------------------------------
(***************************************************************************)
(* The harness, its agent's tools, and the checks.                         *)
(***************************************************************************)

AsksPermission(p) ==
    /\ Working # {} /\ Room /\ perm[p] = "unasked"
    /\ perm' = [perm EXCEPT ![p] = "event"]
    /\ UNCHANGED <<row, queue, wait, memory, world, history, bounds>>

\* ask_operator, in a turn; the node's tools refuse a fenced caller.
AsksQuestion ==
    /\ Working # {} /\ Room /\ ~Fenced(row) /\ wait["question"] = "none"
    /\ wait' = [wait EXCEPT !["question"] = "open"]
    /\ UNCHANGED <<row, queue, perm, memory, world, history, bounds>>

\* The operator answers it, or withdraws it, which an ended session allows too.
Decides ==
    /\ ~stopping /\ wait["question"] = "open"
    /\ wait' = [wait EXCEPT !["question"] = "decided"]
    /\ UNCHANGED <<row, queue, perm, memory, world, history, bounds>>

\* question_status and review_status tell what they return decided.
PollsStatus ==
    /\ Working # {} /\ ~Fenced(row) /\ Untold # {}
    /\ wait' = [w \in Waits |-> IF w \in Untold THEN "told" ELSE wait[w]]
    /\ UNCHANGED <<row, queue, perm, memory, world, history, bounds>>

\* submit_review begins the required checks; by then the turn may be fenced.
BeginsCheck ==
    /\ Working # {} /\ Room /\ wait["check"] = "none"
    /\ wait' = [wait EXCEPT !["check"] = "open"]
    /\ row' = SetChecking(row, TRUE)
    /\ UNCHANGED <<queue, perm, memory, world, history, bounds>>

\* run_checks clears the state first; the entry is finished after.
CheckClears ==
    /\ wait["check"] = "open"
    /\ wait' = [wait EXCEPT !["check"] = "cleared"]
    /\ row' = SetChecking(row, FALSE)
    /\ woken' = (woken \/ row.state \in {"suspended", "starting"})
    /\ UNCHANGED <<queue, perm, memory, world, told, bounds>>

\* Failed, for the session to hear; or passed, and become the review.
CheckFinishes ==
    /\ wait["check"] = "cleared"
    /\ \E outcome \in {"decided", "told"} : wait' = [wait EXCEPT !["check"] = outcome]
    /\ UNCHANGED <<row, queue, perm, memory, world, history, bounds>>

\* deliver_queued_in_tool_result: claimed when a node tool the harness called answers,
\* which may be after the turn that called it has ended.
ToolDelivers ==
    /\ harness = "up" /\ queue # << >>
    /\ told' = told \o queue
    /\ queue' = << >>
    /\ UNCHANGED <<row, perm, wait, memory, world, woken, bounds>>

\* The turn's task: it answers, fails, is timed out, or its harness stopped.
TurnEnds(t) ==
    /\ \/ turn[t] = "running" /\ \E how \in Results \ {"stopped"} : turn' = [turn EXCEPT ![t] = how]
       \/ turn[t] = "lost" /\ \E how \in {"error", "stopped"} : turn' = [turn EXCEPT ![t] = how]
    /\ UNCHANGED <<row, queue, perm, wait, step, sup, timers, harness, mail, world, history, bounds>>

HarnessDies ==
    /\ harness = "up" /\ Room /\ moves' = moves + 1
    /\ harness' = "dead" /\ turn' = HarnessGone(turn)
    /\ UNCHANGED <<row, queue, perm, wait, step, sup, timers, mail, world, history, sends>>

----------------------------------------------------------------------------
\* What the node does without being asked.
NodeStep ==
    \/ StartFails \/ Handoff \/ ClaimRunning \/ Teardown \/ Finish
    \/ DispatchStarts \/ DispatchRefused \/ SettleWaits \/ SettleGoesOn \/ Tick
    \/ ResumeRefused \/ ("resume" \in mail /\ Resume) \/ QuiesceTimeout
    \/ \E t \in Turns : TurnDone(t) \/ TurnEnds(t)
    \/ Exited \/ TakeKill \/ TakeSuspend \/ TakeEnd
    \/ \E reason \in {"item", "phase"} : TakeEndAfterTurn(reason)
    \/ \E p \in Perms : OnPermission(p) \/ AnswerOrExpire(p)
    \/ BackToRunning \/ Sweep \/ StopSends \/ StopCloses
    \/ CheckClears \/ CheckFinishes \/ CarryOn \/ EndClosedSuspended
    \/ (stopping /\ Restart)

Next ==
    \/ NodeStep
    \/ Ask \/ Prompt \/ Compact \/ Pause \/ Resume \/ RaiseBudget
    \/ StopFence \/ SuspendIdle \/ NodeStops \/ Restart \/ Decides
    \/ \E reason \in {"item", "phase"} : EndAfterTurn(reason)
    \/ \E p \in Perms : AsksPermission(p)
    \/ AsksQuestion \/ PollsStatus \/ BeginsCheck \/ ToolDelivers \/ HarnessDies

\* No step of the node repeats without something else having moved, so the
\* node's steps are fair together: the supervisor and its tick go on, a turn
\* ends or is timed out (TURN_IDLE, TURN_MAX), a check ends, a request expires.
Spec == Init /\ [][Next]_vars /\ WF_vars(NodeStep)

----------------------------------------------------------------------------
(***************************************************************************)
(* Properties.                                                             *)
(***************************************************************************)

Rows == [state : States, turn : BOOLEAN, spent : BOOLEAN, why : {"none", "budget", "waits"}]
Works == [kind : {"none", "prompt", "queued", "decisions", "compact", "continue"}, msgs : Seq(1..MaxSends),
          waits : SUBSET Waits, from : States \cup {"none"}, held : BOOLEAN]
Memories == [active : Turns \cup {0}, paused : Turns \cup {0}, endAfter : {"none", "item", "phase"},
             fails : 0..FailureLimit, relaunches : 0..PerSession, tried : 0..PerTurn, died : BOOLEAN]

\* Rows, requests, waits and the supervisor's memory are what they can be.
TypeOK ==
    /\ row \in Rows /\ saw \in Rows \cup {NoRow} /\ work \in Works /\ sup \in Memories
    /\ queue \in Seq(1..MaxSends) /\ told \in Seq(1..MaxSends) /\ sends \in 0..MaxSends
    /\ perm \in [Perms -> {"unasked", "event", "open", "orphan", "closed"}]
    /\ wait \in [Waits -> {"none", "open", "cleared", "decided", "told"}]
    /\ pc \in {"none", "starting", "claim", "idle", "dispatch", "settle", "settled", "back",
               "teardown", "finish"}
    /\ timers \subseteq Turns /\ turn \in [Turns -> Results \cup {"none", "running", "lost"}] /\ harness \in {"up", "dead"}
    /\ mail \subseteq {"kill", "suspend", "end", "item", "phase", "resume"}
    /\ stop \in {"idle", "fenced", "unfenced", "closing"} /\ item \in {"open", "closed", "missed"}
    /\ was \in Terminal \cup {"suspended"} /\ woken \in BOOLEAN

\* One conversation, one turn at a time: whatever is stopped, relaunched, asked
\* again or carried on, no harness works on two turns of a session at once
\* (dispatch: "a turn is already running"; reopenable: its last harness is gone).
\* Rows and the supervisor's memory are well formed throughout.
TurnsDoNotOverlap == TypeOK /\ \A t, u \in Working : t = u

\* What the operator said arrives in the order they said it, and no message
\* twice, sent directly, with the next prompt or in a tool's result
\* (on_operator_prompt, claim_queued_prompts, release_queued_prompts).
InOrderOnce == \A i, j \in DOMAIN told : i < j => told[i] < told[j]

\* A row that says a session is live has a supervisor behind it, in every
\* interleaving of starts, stops, exits and restarts, but where a check has
\* settled over a row put away or starting again (finish_unexpected,
\* terminate, reconcile_after_restart, set_checking).
RunningHasSupervisor == row.state \in Live /\ ~woken => Supervised

\* set_checking: "a pause or a stop landing mid-check wins, and the check
\* finishing afterwards must not put the row back into `running`": a row that
\* says it is running has a start or a supervisor behind it.
CheckNeverRevives == row.state = "running" => pc # "none"

\* A fence holds: a paused session runs again only through resume, once the
\* turn it interrupted has settled and with budget left, and an ended one only
\* by being asked again, whatever late event, answer, check or turn arrives
\* (set_state, set_checking, update_session_unless).
FenceHolds ==
    [][ /\ row.state = "paused" =>
              \/ row'.state \in Terminal \cup {"paused", "suspended"}
              \/ row'.state = "running" /\ sup.paused = 0 /\ ~row.spent /\ Working = {}
        /\ Ended(row) => row'.state \in Terminal \cup {"starting"} ]_vars

Range(f) == {f[x] : x \in DOMAIN f}
Claimed == IF work.kind = "queued" THEN Range(work.msgs) ELSE {}

\* A message the node took for the agent is not dropped: queued or claimed, it
\* stays so or is given to the agent, through refused dispatches, ends,
\* suspensions and restarts, but for a process gone between the claim and the
\* turn (deliver_queued, release_queued_prompts).
HeldNeverDropped ==
    [][ \/ Range(queue) \cup Claimed \subseteq Range(queue') \cup Claimed' \cup Range(told')
        \/ pc = "dispatch" /\ pc' = "none" ]_vars

PutAway == row.state \in Terminal \cup {"suspended", "paused"}

\* What is held for the agent reaches it: again and again no message is queued
\* and no decision on what it asked is untold, unless the session is put away
\* or its budget is spent, however turns end, dispatches are refused, checks
\* own the row and the harness dies (settle_waits, deliver_queued, dispatch).
HeldReachesAgent ==
    []<>((queue = << >> /\ Untold = {}) \/ PutAway \/ row.spent \/ woken)

\* Nothing is left behind: again and again, an ended session's supervisor and
\* harness are gone, whichever of Stop, startup and the harness's own exit came
\* first; a closed item has ended its session, in a turn, suspending or put
\* away, unless it is paused, its budget is spent or it waits on the operator;
\* a session that says it waits does, for the operator's word or on its checks;
\* and no request is before the operator that was not answered, expired,
\* rejected with its session or swept (terminate, item_closed,
\* end_if_item_closed, back_to_running, settle_waits, orphaned_permissions).
NothingLeftBehind ==
    []<>( /\ Ended(row) => pc = "none"
          /\ item = "closed" =>
                Ended(row) \/ row.state = "paused" \/ row.spent \/ OpenWaits # {} \/ woken
          /\ row.state = "waiting_on_you" => OpenWaits # {} \/ row.spent \/ woken
          /\ row.state = "waiting_on_check" => wait["check"] = "open"
          /\ UnresolvedPerms # {} => row.state = "suspended" \/ woken )

=============================================================================
