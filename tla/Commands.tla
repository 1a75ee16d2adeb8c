------------------------------- MODULE Commands -------------------------------
(***************************************************************************)
(* One command sent to the node that owns a session, and its ack           *)
(* (node/src/mesh/forward.rs; drain_once, ingest and open_and_apply of     *)
(* node/src/mesh/client.rs).  The command waits in the sender's outbox and *)
(* at the hub, the sender stops waiting after a timeout, and the owner     *)
(* compares the sender's deadline with its own clock.  A post whose answer *)
(* is lost is made again, so the hub may hold the frame twice.             *)
(***************************************************************************)
EXTENDS Integers

CONSTANTS
    Timeout,     \* how long the sender waits
    Skew,        \* DEADLINE_SKEW_MS
    Offsets,     \* how far the owner's clock may be ahead of the sender's
    MaxTime,     \* bound on time
    MaxFaults,   \* bound: posts made twice, frames lost, restarts
    Deadlines    \* which sends are made: with a deadline (TRUE), without (FALSE)

ASSUME ConstAssumption ==
    /\ Timeout \in Nat /\ Skew \in Nat /\ MaxTime \in Nat /\ MaxFaults \in Nat
    /\ Offsets \subseteq Int
    /\ Deadlines \subseteq BOOLEAN

\* The command is sent at time 0.
deadline == Timeout

VARIABLES
    now,      \* the sender's clock, which starts at 0
    offset,   \* the owner's clock is now + offset
    timed,    \* whether the command carries a deadline and is waited for
    caller,   \* the caller: "idle", "waiting", "dropped", "ok", "refused", "failed" or "gone"
    pending,  \* whether the sender's pending map has the command
    outbox,   \* the command is in the sender's outbox
    hub,      \* copies of it at the hub the owner has not pulled
    seen,     \* the owner's mesh_seen has it
    task,     \* the owner's task: "none", "spawned", "running", "done", or "dropped": ended
              \* by the owner's start or stop before it got to the command
    answer,   \* the ack on its way: "none", "ok", "error" or "expired"
    starts,   \* history: when the owner started it, on the sender's clock
    faults

owner == <<seen, task, answer, starts>>
commandVars == <<now, offset, timed, caller, pending, outbox, hub, owner, faults>>

\* Every piece of state has the shape the code gives it; only a caller that waits,
\* or was dropped as it waited, has an entry in the pending map: none is left behind
\* by a timeout.
CommandTypeOK ==
    /\ now \in 0 .. MaxTime /\ offset \in Offsets /\ timed \in BOOLEAN
    /\ caller \in {"idle", "waiting", "dropped", "ok", "refused", "failed", "gone"}
    /\ pending \in BOOLEAN /\ outbox \in BOOLEAN /\ seen \in BOOLEAN /\ hub \in 0 .. 2
    /\ pending => caller \in {"waiting", "dropped"}
    /\ task \in {"none", "spawned", "running", "done", "dropped"}
    /\ answer \in {"none", "ok", "error", "expired"}
    /\ starts \subseteq 0 .. MaxTime /\ faults \in 0 .. MaxFaults

CommandInit ==
    /\ now = 0 /\ offset \in Offsets /\ timed \in Deadlines
    /\ caller = "idle" /\ pending = FALSE
    /\ outbox = FALSE /\ hub = 0
    /\ seen = FALSE /\ task = "none" /\ answer = "none" /\ starts = {}
    /\ faults = 0

Fault == faults < MaxFaults /\ faults' = faults + 1

-----------------------------------------------------------------------------
(* The sender *)

\* command and await_ack: enter it in pending and queue it.  send_command only
\* queues it, and answers its caller at once.
Send ==
    /\ caller = "idle" /\ now = 0
    /\ caller' = IF timed THEN "waiting" ELSE "ok"
    /\ pending' = timed
    /\ outbox' = TRUE
    /\ UNCHANGED <<now, offset, timed, hub, owner, faults>>

\* await_ack: the timeout passes.
TimesOut ==
    /\ caller = "waiting" /\ now >= deadline
    /\ caller' = "failed" /\ pending' = FALSE
    /\ UNCHANGED <<now, offset, timed, outbox, hub, owner, faults>>

\* The request the caller served is closed, and its future with it: nothing takes
\* its entry out of pending but a late ack.
CallerDropped ==
    /\ Fault /\ caller = "waiting"
    /\ caller' = "dropped"
    /\ UNCHANGED <<now, offset, timed, pending, outbox, hub, owner>>

\* open_and_apply of an Ack: only a command still pending is answered.
AckAnswers(result) ==
    IF pending /\ caller = "waiting" THEN IF result = "ok" THEN "ok" ELSE "refused" ELSE caller

ReceiveAck ==
    /\ answer # "none"
    /\ caller' = AckAnswers(answer)
    /\ pending' = FALSE /\ answer' = "none"
    /\ UNCHANGED <<now, offset, timed, outbox, hub, seen, task, starts, faults>>

\* The sender stops: pending is memory, the outbox is not.
SenderRestarts ==
    /\ Fault /\ caller \in {"waiting", "dropped"}
    /\ caller' = "gone" /\ pending' = FALSE
    /\ UNCHANGED <<now, offset, timed, outbox, hub, owner>>

\* drain_once; the second when the hub took the frame and its answer was lost.
Post ==
    /\ outbox /\ outbox' = FALSE /\ hub' = hub + 1
    /\ UNCHANGED <<now, offset, timed, caller, pending, owner, faults>>

PostUnanswered ==
    /\ Fault /\ outbox /\ hub = 0 /\ hub' = 1
    /\ UNCHANGED <<now, offset, timed, caller, pending, outbox, owner>>

-----------------------------------------------------------------------------
(* The owner *)

\* ingest: the frame is taken once, whatever the hub holds.
TakesAgain == task \in {"none", "done", "dropped"}
TakesFrame == ~seen

Pull ==
    /\ hub > 0 /\ hub' = hub - 1
    /\ seen' = TRUE
    /\ task' = IF TakesFrame THEN "spawned" ELSE task
    /\ UNCHANGED <<now, offset, timed, caller, pending, outbox, answer, starts, faults>>

\* run_command: past its deadline by more than the skew, it is refused unrun.
ExpiresUntimed == now + offset - deadline > Skew
Expired == timed /\ now + offset - deadline > Skew

Refuse ==
    /\ task = "spawned" /\ Expired
    /\ task' = "done" /\ answer' = "expired"
    /\ UNCHANGED <<now, offset, timed, caller, pending, outbox, hub, seen, starts, faults>>

Start ==
    /\ task = "spawned" /\ ~Expired
    /\ task' = "running" /\ starts' = starts \cup {now}
    /\ UNCHANGED <<now, offset, timed, caller, pending, outbox, hub, seen, answer, faults>>

\* No executor is set yet while the owner starts up.
NotReady ==
    /\ Fault /\ task = "spawned" /\ ~Expired
    /\ task' = "dropped" /\ answer' = "error"
    /\ UNCHANGED <<now, offset, timed, caller, pending, outbox, hub, seen, starts>>

\* The executor answers, and the ack is queued.
AckFirst(result) == task \in {"spawned", "running"} /\ answer' = result /\ task' = "done" /\ starts' = starts
Acks(result) == task = "running" /\ answer' = result /\ task' = "done" /\ starts' = starts

Finish(result) ==
    /\ Acks(result)
    /\ UNCHANGED <<now, offset, timed, caller, pending, outbox, hub, seen, faults>>

\* The owner stops: its tasks are gone, what it has seen is not.
OwnerRestarts ==
    /\ Fault /\ task \in {"spawned", "running"}
    /\ task' = IF task = "spawned" THEN "dropped" ELSE "done"
    /\ UNCHANGED <<now, offset, timed, caller, pending, outbox, hub, seen, answer, starts>>

-----------------------------------------------------------------------------
(* The hub, and time *)

Lose ==
    /\ Fault
    /\ \/ hub > 0 /\ hub' = hub - 1 /\ UNCHANGED answer
       \/ answer # "none" /\ answer' = "none" /\ UNCHANGED hub
    /\ UNCHANGED <<now, offset, timed, caller, pending, outbox, seen, task, starts>>

TimePasses ==
    /\ now < MaxTime /\ now' = now + 1
    /\ UNCHANGED <<offset, timed, caller, pending, outbox, hub, owner, faults>>

CommandNext ==
    \/ Send \/ TimesOut \/ ReceiveAck \/ CallerDropped \/ SenderRestarts \/ Post \/ PostUnanswered
    \/ Pull \/ Refuse \/ Start \/ NotReady \/ OwnerRestarts
    \/ \E result \in {"ok", "error"} : Finish(result)
    \/ Lose \/ TimePasses

CommandSpec == CommandInit /\ [][CommandNext]_commandVars

\* The sender's drain loop and the owner's pull loop keep running, and the runtime
\* gets to every task that was spawned.
CommandFairSpec ==
    /\ CommandSpec
    /\ WF_commandVars(Post) /\ WF_commandVars(Pull) /\ WF_commandVars(Start)

-----------------------------------------------------------------------------
(* Properties *)

\* A command starts at most once, although its post may be made twice, the owner
\* may stop while it runs, and its frame may be pulled again (ingest).
RunsAtMostOnce == [][task # "running" /\ task' = "running" => starts = {}]_commandVars

\* The hub lost every copy before the owner had one, or the owner stopped, or was
\* still starting, when its task came to the command.
Missed == task = "dropped" \/ (~outbox /\ hub = 0 /\ ~seen)

\* send_command's "carries no deadline: the operator asked for it to wait in the
\* outbox until the owner returns": a command queued so is run in the end, however
\* late the owner comes back, whatever the clocks say, and although the sender stops
\* and posts are made twice, unless the hub or a stop of the owner took it away.
QueuedCommandRuns == ~timed /\ outbox ~> starts # {} \/ Missed

\* What the caller is told is what happened, in every order of late acks, second
\* copies and restarts: a success was run, and an expired command never was.
AnswerIsTruth ==
    /\ timed /\ caller = "ok" => starts # {}
    /\ answer = "expired" => starts = {}

=============================================================================
