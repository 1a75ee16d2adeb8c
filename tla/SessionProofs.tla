------------------------------ MODULE SessionProofs ------------------------------
(***************************************************************************)
(* Proofs about Session for any number of permission requests, turns,      *)
(* prompts, relaunches and events.                                         *)
(***************************************************************************)
EXTENDS Session, TLAPS

-----------------------------------------------------------------------------
(* The invariant *)

\* The turn the harness works on is the one the supervisor holds active,
TurnHeld == \A t \in Turns : turn[t] = "running" => t = sup.active /\ harness = "up"

\* and while one is active the row says so, or has been ended over it.
RowHeld == sup.active # 0 => row.turn \/ Ended(row)

\* A session paused in a turn waits for that turn to settle.
PauseHeld == row.state = "paused" /\ sup.active # 0 => sup.paused = sup.active

\* Without a supervisor nothing is under way and no row says otherwise.
AtRest == pc \in {"none", "starting"} => sup.active = 0 /\ (row.state \in Live => woken)

\* Tearing down, the row has ended, or was put away between turns.
AtEnd == pc = "teardown" => (Ended(row) \/ sup.active = 0) /\ (row.state \in Live => woken)

\* What a row read a step ago still tells: only the supervisor starts turns and pauses.
AtDispatch ==
    pc = "dispatch" =>
        /\ saw.turn \/ Ended(saw) \/ sup.active = 0
        /\ row.state = "paused" => saw.state = "paused"
        /\ work.from # "none" => sup.active = 0 /\ row.state # "paused"
AtSettle == pc \in {"settle", "settled"} => sup.active = 0 /\ row.state # "paused"
AtBack == pc = "back" => (row.state = "paused" => saw.state = "paused")

\* Messages are claimed only while a turn is being started with them.
Unclaimed == pc # "dispatch" => work.kind = "none"

SInv == /\ TurnHeld /\ RowHeld /\ PauseHeld /\ AtRest /\ AtEnd /\ AtDispatch /\ AtSettle /\ AtBack
        /\ Unclaimed

\* The order of the operator's messages.
Ascends(s) == \A i, j \in DOMAIN s : i < j => s[i] < s[j]
Before(s, u) == \A i \in DOMAIN s, j \in DOMAIN u : s[i] < u[j]
Below(s, n) == \A i \in DOMAIN s : s[i] <= n

\* What is queued was sent after what the agent was told; what is claimed from the
\* queue leaves it empty, and a prompt sent directly is the newest.
QInv ==
    /\ Ascends(told) /\ Ascends(queue) /\ Before(told, queue) /\ Below(told, sends) /\ Below(queue, sends)
    /\ pc = "dispatch" /\ work.kind = "queued" =>
            queue = << >> /\ Ascends(work.msgs) /\ Before(told, work.msgs) /\ Below(work.msgs, sends)
    /\ pc = "dispatch" /\ work.kind = "prompt" =>
            /\ work.msgs = <<sends>> /\ Before(told, work.msgs) /\ Before(queue, work.msgs)
            /\ saw.state \in {"running", "waiting_on_you"} /\ ~saw.turn => queue = << >>
    /\ pc = "dispatch" /\ work.kind \notin {"queued", "prompt"} => work.msgs = << >>

-----------------------------------------------------------------------------
(* Rows *)

\* A write fenced by the ended states.
LEMMA SetStateIs ==
    ASSUME NEW r \in Rows, NEW s \in States
    PROVE  /\ SetState(r, s) \in Rows /\ (Ended(r) => SetState(r, s) = r)
           /\ ~Ended(r) => /\ SetState(r, s).state = s /\ SetState(r, s).spent = r.spent
                           /\ SetState(r, s).turn = (r.turn /\ s \notin Terminal)
BY Zenon DEF SetState, Ended, Rows, States, Terminal, Live

\* A required check begins or has settled.
LEMMA SetCheckingIs ==
    ASSUME NEW r \in Rows, NEW c \in BOOLEAN
    PROVE  /\ SetChecking(r, c) \in Rows /\ (Fenced(r) => SetChecking(r, c) = r)
           /\ SetChecking(r, c).turn = r.turn
           /\ ~Fenced(r) => SetChecking(r, c).state \in {"waiting_on_check", "running"}
BY DEF SetChecking, Rows, States, Live

\* A turn is settled.
LEMMA SettledIs ==
    ASSUME NEW r \in Rows, NEW q \in Settled(r)
    PROVE  q \in Rows /\ q.state = r.state /\ q.turn = FALSE
BY Zenon DEF Settled, Rows

\* A session is held.
LEMMA HoldIs ==
    ASSUME NEW r \in Rows
    PROVE  /\ Hold(r) \in Rows /\ Hold(r).turn = r.turn
           /\ Hold(r) = r \/ (r.state = "running" /\ Hold(r).state = "waiting_on_you")
BY DEF Hold, Rows, States, Live

\* A row written as it is but for its state.
LEMMA StateWritten ==
    ASSUME NEW r \in Rows, NEW s \in States, NEW q, q = [r EXCEPT !.state = s]
    PROVE  q \in Rows /\ q.state = s /\ q.turn = r.turn /\ q.spent = r.spent
BY DEF Rows

\* A row ended, or started again, over its turn.
LEMMA StateAndTurn ==
    ASSUME NEW r \in Rows, NEW s \in States, NEW q, q = [r EXCEPT !.state = s, !.turn = FALSE]
    PROVE  q \in Rows /\ q.state = s /\ q.turn = FALSE
BY Zenon DEF Rows

\* A start is neither at rest nor ended.
LEMMA StatesApart ==
    /\ {"closed", "failed", "killed_budget"} \subseteq Terminal /\ Terminal \subseteq States /\ Live \subseteq States
    /\ \A s \in Terminal : s \notin Live /\ s # "paused" /\ s # "running" /\ s # "starting" /\ s # "suspended"
    /\ "starting" \in States /\ "suspended" \in States
    /\ "starting" \notin Live /\ "suspended" \notin Live
    /\ "paused" \in Live /\ "running" \in Live /\ "waiting_on_you" \in Live /\ "waiting_on_check" \in Live
BY DEF Terminal, Live, States

-----------------------------------------------------------------------------
(* Where a step leaves the supervisor *)

\* A step beside the supervisor.
LEMMA Beside ==
    ASSUME TypeOK, SInv, pc' = pc, saw' = saw, work' = work, sup' = sup,
           \A t \in Turns : turn'[t] = "running" => turn[t] = "running" /\ harness' = harness,
           row'.turn = row.turn \/ Ended(row'), Ended(row) => Ended(row'),
           row'.state = "paused" => row.state = "paused", woken => woken',
           pc \in {"none", "starting", "teardown"} => (row'.state \in Live => row.state \in Live \/ woken')
    PROVE  SInv'
<1>1. TurnHeld' BY Zenon DEF SInv, TurnHeld
<1>2. RowHeld' /\ PauseHeld' BY Zenon DEF SInv, RowHeld, PauseHeld, Ended
<1>3. AtRest' BY Zenon DEF SInv, AtRest
<1>4. AtEnd' BY Zenon DEF SInv, AtEnd, Ended
<1>5. AtDispatch' /\ AtSettle' /\ AtBack' /\ Unclaimed'
  BY Zenon DEF SInv, AtDispatch, AtSettle, AtBack, Unclaimed, Ended
<1> QED BY <1>1, <1>2, <1>3, <1>4, <1>5, Zenon DEF SInv

\* A step that leaves the row to the supervisor.
LEMMA BesideRow ==
    ASSUME TypeOK, SInv, pc' = pc, saw' = saw, work' = work, sup' = sup, row' = row, woken' = woken,
           \A t \in Turns : turn'[t] = "running" => turn[t] = "running" /\ harness' = harness
    PROVE  SInv'
BY Beside, Zenon

\* The supervisor is done with a step,
LEMMA ToIdle ==
    ASSUME pc' \in {"idle", "finish", "claim"}, work'.kind = "none", TurnHeld', RowHeld', PauseHeld'
    PROVE  SInv'
BY Zenon DEF SInv, AtRest, AtEnd, AtDispatch, AtSettle, AtBack, Unclaimed

\* ends,
LEMMA ToTeardown ==
    ASSUME pc' = "teardown", work'.kind = "none", TurnHeld', RowHeld', row' \in Rows,
           Ended(row') \/ (row'.state = "suspended" /\ sup'.active = 0)
    PROVE  SInv'
<1>1. row'.state \notin Live /\ row'.state # "paused" BY StatesApart, Zenon DEF Ended
<1> QED BY <1>1, Zenon DEF SInv, AtRest, AtEnd, AtDispatch, AtSettle, AtBack, Unclaimed, PauseHeld, Ended

\* goes on to start a turn on the row as it is,
LEMMA ToDispatch ==
    ASSUME pc' = "dispatch", saw' = row', TurnHeld', RowHeld', PauseHeld',
           work'.from # "none" => sup'.active = 0 /\ row'.state # "paused"
    PROVE  SInv'
BY Zenon DEF SInv, AtRest, AtEnd, AtDispatch, AtSettle, AtBack, Unclaimed, RowHeld, Ended

\* or to settle what is held.
LEMMA ToSettle ==
    ASSUME pc' \in {"settle", "settled"}, work'.kind = "none", TurnHeld', sup'.active = 0,
           row'.state # "paused"
    PROVE  SInv'
BY Zenon DEF SInv, AtRest, AtEnd, AtDispatch, AtSettle, AtBack, Unclaimed, RowHeld, PauseHeld

\* After an answer it looks at the row again.
LEMMA ToBack ==
    ASSUME pc' = "back", saw' = row', work'.kind = "none", TurnHeld', RowHeld', PauseHeld'
    PROVE  SInv'
BY Zenon DEF SInv, AtRest, AtEnd, AtDispatch, AtSettle, AtBack, Unclaimed

\* The turn and the harness stay as they are.
LEMMA SameTurns ==
    ASSUME SInv, turn' = turn, harness' = harness, sup'.active = sup.active
    PROVE  TurnHeld'
BY Zenon DEF SInv, TurnHeld

\* The task is gone, or the process.
LEMMA ToNone ==
    ASSUME pc' = "none", work'.kind = "none", sup'.active = 0, \A t \in Turns : turn'[t] # "running",
           row'.state \in Live => woken'
    PROVE  SInv'
BY Zenon DEF SInv, AtRest, AtEnd, AtDispatch, AtSettle, AtBack, Unclaimed, RowHeld, PauseHeld, TurnHeld

\* No turn is worked on while none is active, or without a harness.
LEMMA NoneWorks ==
    ASSUME TypeOK, SInv, sup.active = 0 \/ harness # "up"
    PROVE  Working = {} /\ \A t \in Turns : turn[t] # "running"
<1>1. 0 \notin Turns BY ConstAssumption, Zenon DEF ConstAssumption
<1> QED BY <1>1, Zenon DEF SInv, TurnHeld, Working

-----------------------------------------------------------------------------
(* Steps beside the supervisor *)

\* Requests are swept, and the agent asks.
LEMMA RequestsKeep ==
    ASSUME TypeOK, SInv, Sweep \/ (\E p \in Perms : AsksPermission(p))
    PROVE  TypeOK' /\ SInv'
<1>1. /\ row' = row /\ queue' = queue /\ wait' = wait /\ pc' = pc /\ saw' = saw /\ work' = work /\ sup' = sup
      /\ timers' = timers /\ turn' = turn /\ harness' = harness /\ mail' = mail /\ stop' = stop /\ item' = item
      /\ was' = was /\ told' = told /\ woken' = woken /\ sends' = sends
  BY Zenon DEF Sweep, AsksPermission, memory, step, running, world, history, bounds
<1>2. perm' \in [Perms -> {"unasked", "event", "open", "orphan", "closed"}]
  BY Zenon DEF TypeOK, Sweep, AsksPermission
<1>3. TypeOK' BY <1>1, <1>2 DEF TypeOK
<1>4. SInv' BY <1>1, BesideRow, Zenon
<1> QED BY <1>3, <1>4

\* Questions are asked, decided and told, and checks end.
LEMMA WaitsKeep ==
    ASSUME TypeOK, SInv, AsksQuestion \/ Decides \/ PollsStatus \/ CheckFinishes
    PROVE  TypeOK' /\ SInv'
<1>1. /\ row' = row /\ queue' = queue /\ perm' = perm /\ pc' = pc /\ saw' = saw /\ work' = work /\ sup' = sup
      /\ timers' = timers /\ turn' = turn /\ harness' = harness /\ mail' = mail /\ stop' = stop /\ item' = item
      /\ was' = was /\ told' = told /\ woken' = woken /\ sends' = sends
  BY Zenon DEF AsksQuestion, Decides, PollsStatus, CheckFinishes, memory, step, running, world, history, bounds
<1>2. wait' \in [Waits -> {"none", "open", "cleared", "decided", "told"}]
  BY Zenon DEF TypeOK, AsksQuestion, Decides, PollsStatus, CheckFinishes
<1>3. TypeOK' BY <1>1, <1>2 DEF TypeOK
<1>4. SInv' BY <1>1, BesideRow, Zenon
<1> QED BY <1>3, <1>4

\* A check begins, where a turn works; it settles, whatever became of the session.
LEMMA ChecksKeep ==
    ASSUME TypeOK, SInv, BeginsCheck \/ CheckClears
    PROVE  TypeOK' /\ SInv'
<1>1. /\ queue' = queue /\ perm' = perm /\ pc' = pc /\ saw' = saw /\ work' = work /\ sup' = sup
      /\ timers' = timers /\ turn' = turn /\ harness' = harness /\ mail' = mail /\ stop' = stop /\ item' = item
      /\ was' = was /\ told' = told /\ sends' = sends
  BY Zenon DEF BeginsCheck, CheckClears, memory, step, running, world, history, bounds
<1>0. woken => woken' BY Zenon DEF BeginsCheck, CheckClears, history
<1>2. wait' \in [Waits -> {"none", "open", "cleared", "decided", "told"}]
  BY Zenon DEF TypeOK, BeginsCheck, CheckClears
<1>3. row \in Rows /\ woken' \in BOOLEAN /\ row.state \in States
  BY Zenon DEF TypeOK, BeginsCheck, CheckClears, history, Rows
<1>4. PICK c \in BOOLEAN : row' = SetChecking(row, c) BY Zenon DEF BeginsCheck, CheckClears
<1>5. /\ row' \in Rows /\ (Fenced(row) => row' = row) /\ row'.turn = row.turn
      /\ ~Fenced(row) => row'.state \in {"waiting_on_check", "running"}
  BY <1>3, <1>4, SetCheckingIs
<1>6. TypeOK' BY <1>1, <1>2, <1>3, <1>5, ZenonT(40) DEF TypeOK
<1>7. row'.state = "paused" => row.state = "paused" BY <1>5, Zenon
<1>8. Ended(row) => Ended(row') BY <1>5, Zenon DEF Fenced
<1>9. ASSUME pc \in {"none", "starting", "teardown"}, row'.state \in Live
      PROVE  row.state \in Live \/ woken'
  <2>1. CASE Fenced(row) BY <1>5, <1>9, <2>1, Zenon
  <2>2. CASE ~Fenced(row) /\ BeginsCheck
    <3>1. Working # {} /\ ~Ended(row) BY <2>2, Zenon DEF BeginsCheck, Fenced
    <3>2. sup.active = 0 BY <1>9, <3>1, Zenon DEF SInv, AtRest, AtEnd
    <3> QED BY <3>1, <3>2, NoneWorks, Zenon
  <2>3. CASE ~Fenced(row) /\ CheckClears
    <3>1. row.state \in {"suspended", "starting"} => woken' BY <2>3, Zenon DEF CheckClears
    <3>2. row.state \in Live \cup {"starting", "suspended"} BY <1>3, <2>3, Zenon DEF Fenced, Ended, States
    <3> QED BY <3>1, <3>2, Zenon
  <2> QED BY <2>1, <2>2, <2>3, Zenon
<1>10. SInv' BY <1>0, <1>1, <1>5, <1>7, <1>8, <1>9, Beside, Zenon
<1> QED BY <1>6, <1>10

\* Messages are delivered in a tool's result.
LEMMA ToolKeeps ==
    ASSUME TypeOK, SInv, ToolDelivers
    PROVE  TypeOK' /\ SInv'
<1>1. /\ row' = row /\ perm' = perm /\ wait' = wait /\ pc' = pc /\ saw' = saw /\ work' = work /\ sup' = sup
      /\ timers' = timers /\ turn' = turn /\ harness' = harness /\ mail' = mail /\ stop' = stop /\ item' = item
      /\ was' = was /\ woken' = woken /\ sends' = sends /\ queue' = << >> /\ told' = told \o queue
  BY Zenon DEF ToolDelivers, memory, step, running, world, history, bounds
<1>2. queue' \in Seq(1..MaxSends) /\ told' \in Seq(1..MaxSends) BY <1>1 DEF TypeOK
<1>3. TypeOK' BY <1>1, <1>2 DEF TypeOK
<1>4. SInv' BY <1>1, BesideRow, Zenon
<1> QED BY <1>3, <1>4

\* A turn's task ends, or the harness dies.
LEMMA HarnessKeeps ==
    ASSUME TypeOK, SInv, HarnessDies \/ (\E t \in Turns : TurnEnds(t))
    PROVE  TypeOK' /\ SInv'
<1>1. /\ row' = row /\ queue' = queue /\ perm' = perm /\ wait' = wait /\ pc' = pc /\ saw' = saw /\ work' = work
      /\ sup' = sup /\ timers' = timers /\ mail' = mail /\ stop' = stop /\ item' = item
      /\ was' = was /\ told' = told /\ woken' = woken /\ sends' = sends
  BY Zenon DEF HarnessDies, TurnEnds, memory, step, running, world, history, bounds
<1>2. \/ harness' = "dead" /\ turn' = HarnessGone(turn)
      \/ harness' = harness /\ \E t \in Turns, how \in Results : turn' = [turn EXCEPT ![t] = how]
  BY Zenon DEF HarnessDies, TurnEnds, Results
<1>3. /\ turn' \in [Turns -> Results \cup {"none", "running", "lost"}] /\ harness' \in {"up", "dead"}
      /\ \A t \in Turns : turn'[t] = "running" => turn[t] = "running" /\ harness' = harness
  BY <1>2 DEF TypeOK, HarnessGone, Results
<1>4. TypeOK' BY <1>1, <1>3, ZenonT(40) DEF TypeOK
<1>5. SInv' BY <1>1, <1>3, BesideRow, Zenon
<1> QED BY <1>4, <1>5

\* Commands are sent, and one for what is not there is dropped.
LEMMA MailKeeps ==
    ASSUME TypeOK, SInv, StopSends \/ SuspendIdle \/ NodeStops \/ ResumeRefused
    PROVE  TypeOK' /\ SInv'
<1>1. /\ row' = row /\ queue' = queue /\ perm' = perm /\ wait' = wait /\ pc' = pc /\ saw' = saw /\ work' = work
      /\ sup' = sup /\ timers' = timers /\ turn' = turn /\ harness' = harness /\ item' = item
      /\ was' = was /\ told' = told /\ woken' = woken /\ sends' = sends
  BY Zenon DEF StopSends, SuspendIdle, NodeStops, ResumeRefused, memory, step, running, world, history, bounds
<1>2. /\ mail' \subseteq {"kill", "suspend", "end", "item", "phase", "resume"}
      /\ stop' \in {"idle", "fenced", "unfenced", "closing"}
  BY Zenon DEF TypeOK, StopSends, SuspendIdle, NodeStops, ResumeRefused, world
<1>3. TypeOK' BY <1>1, <1>2, ZenonT(40) DEF TypeOK
<1>4. SInv' BY <1>1, BesideRow, Zenon
<1> QED BY <1>3, <1>4

\* The session is stopped, carried on or ended with its item, from outside.
LEMMA EndsKeep ==
    ASSUME TypeOK, SInv,
           StopFence \/ StopCloses \/ EndClosedSuspended \/ CarryOn \/ (\E reason \in {"item", "phase"} : EndAfterTurn(reason))
    PROVE  TypeOK' /\ SInv'
<1>1. /\ queue' = queue /\ perm' = perm /\ wait' = wait /\ pc' = pc /\ saw' = saw /\ work' = work
      /\ sup' = sup /\ timers' = timers
      /\ was' = was /\ told' = told /\ woken' = woken /\ sends' = sends
  BY Zenon DEF StopFence, StopCloses, EndClosedSuspended, CarryOn, EndAfterTurn, memory, step, running, world, history, bounds
<1>2. /\ mail' \subseteq {"kill", "suspend", "end", "item", "phase", "resume"}
      /\ stop' \in {"idle", "fenced", "unfenced", "closing"} /\ item' \in {"open", "closed", "missed"}
  BY Zenon DEF TypeOK, StopFence, StopCloses, EndClosedSuspended, CarryOn, EndAfterTurn, memory, world
<1>3. /\ turn' \in [Turns -> Results \cup {"none", "running", "lost"}] /\ harness' \in {"up", "dead"}
      /\ \A t \in Turns : turn'[t] = "running" => turn[t] = "running" /\ harness' = harness
  <2>1. (turn' = turn /\ harness' = harness) \/ (turn' = HarnessGone(turn) /\ harness' = "dead")
    BY Zenon DEF StopFence, StopCloses, EndClosedSuspended, CarryOn, EndAfterTurn, memory, running
  <2> QED BY <2>1 DEF TypeOK, HarnessGone
<1>4. \/ row' = row \/ row' = [row EXCEPT !.state = "closed", !.turn = FALSE]
      \/ row.state = "suspended" /\ row' = [row EXCEPT !.state = "closed"]
  BY Zenon DEF StopFence, StopCloses, EndClosedSuspended, CarryOn, EndAfterTurn
<1>5. row \in Rows /\ "closed" \in States /\ "closed" \in Terminal BY StatesApart, Zenon DEF TypeOK
<1>6. row' = row \/ (row' \in Rows /\ Ended(row') /\ row'.state = "closed")
  <2>1. CASE row' = [row EXCEPT !.state = "closed", !.turn = FALSE] BY <1>5, <2>1, StateAndTurn, ZenonT(40) DEF Ended
  <2>2. CASE row' = [row EXCEPT !.state = "closed"] BY <1>5, <2>2, StateWritten, Zenon DEF Ended
  <2> QED BY <1>4, <2>1, <2>2, Zenon
<1>7. row' \in Rows BY <1>5, <1>6, Zenon
<1>8. TypeOK' BY <1>1, <1>2, <1>3, <1>7, Zenon DEF TypeOK
<1>9. row'.state \in Live => row' = row BY <1>6, StatesApart, Zenon DEF Ended
<1>10. row'.state = "paused" => row.state = "paused" BY <1>6, Zenon
<1>11. (row'.turn = row.turn \/ Ended(row')) /\ (Ended(row) => Ended(row')) BY <1>6, Zenon
<1>12. SInv' BY <1>1, <1>3, <1>9, <1>10, <1>11, Beside, Zenon
<1> QED BY <1>8, <1>12

\* The budget is raised.
LEMMA BudgetKeeps ==
    ASSUME TypeOK, SInv, RaiseBudget
    PROVE  TypeOK' /\ SInv'
<1>1. /\ queue' = queue /\ perm' = perm /\ wait' = wait /\ pc' = pc /\ saw' = saw /\ work' = work
      /\ sup' = sup /\ timers' = timers /\ turn' = turn /\ harness' = harness /\ stop' = stop /\ item' = item
      /\ was' = was /\ told' = told /\ woken' = woken /\ sends' = sends
  BY Zenon DEF RaiseBudget, step, running, world, history, bounds
<1>2. mail' \subseteq {"kill", "suspend", "end", "item", "phase", "resume"} BY Zenon DEF TypeOK, RaiseBudget
<1>3. row' \in Rows /\ row'.state = row.state /\ row'.turn = row.turn BY Zenon DEF TypeOK, RaiseBudget, Rows
<1>4. TypeOK' BY <1>1, <1>2, <1>3 DEF TypeOK
<1>5. SInv' BY <1>1, <1>3, Beside, Zenon DEF Ended
<1> QED BY <1>4, <1>5

\* A request comes to the operator.
LEMMA PermissionKeeps ==
    ASSUME TypeOK, SInv, NEW p \in Perms, OnPermission(p)
    PROVE  TypeOK' /\ SInv'
<1>1. /\ queue' = queue /\ wait' = wait /\ pc' = pc /\ saw' = saw /\ work' = work
      /\ sup' = sup /\ timers' = timers /\ turn' = turn /\ harness' = harness /\ stop' = stop /\ item' = item
      /\ was' = was /\ told' = told /\ woken' = woken /\ sends' = sends /\ mail' = mail /\ pc = "idle"
  BY Zenon DEF OnPermission, memory, step, running, world, history, bounds
<1>2. perm' \in [Perms -> {"unasked", "event", "open", "orphan", "closed"}] BY Zenon DEF TypeOK, OnPermission
<1>3. row \in Rows /\ "waiting_on_you" \in States /\ "waiting_on_you" \notin Terminal
  BY StatesApart DEF TypeOK
<1>4. row' = row \/ (~Ended(row) /\ row' = SetState(row, "waiting_on_you")) BY Zenon DEF OnPermission, Fenced
<1>5. row' = row \/ (~Ended(row) /\ row' \in Rows /\ row'.state = "waiting_on_you" /\ row'.turn = row.turn)
  <2>1. row.turn \in BOOLEAN BY <1>3 DEF Rows
  <2> QED BY <1>3, <1>4, <2>1, SetStateIs
<1>6. TypeOK' BY <1>1, <1>2, <1>3, <1>5, ZenonT(40) DEF TypeOK
<1>7. row'.state = "paused" => row.state = "paused" BY <1>5, Zenon
<1>8. SInv' BY <1>1, <1>5, <1>7, Beside, Zenon
<1> QED BY <1>6, <1>8

-----------------------------------------------------------------------------
(* Starts and ends *)

\* An ended or suspended session is asked again, starts, or does not.
LEMMA StartsKeep ==
    ASSUME TypeOK, SInv, Ask \/ StartFails \/ Handoff \/ ClaimRunning
    PROVE  TypeOK' /\ SInv'
<1>1. /\ queue' = queue /\ perm' = perm /\ wait' = wait /\ saw' = saw /\ work' = work /\ sup' = sup
      /\ timers' = timers /\ turn' = turn /\ mail' = mail /\ stop' = stop /\ item' = item
      /\ told' = told /\ woken' = woken /\ sends' = sends
  BY Zenon DEF Ask, StartFails, Handoff, ClaimRunning, running, world, history, bounds
<1>2. row \in Rows /\ was \in States /\ "starting" \in States /\ "running" \in States
  BY StatesApart, Zenon DEF TypeOK, States
<1>3. /\ pc' \in {"none", "starting", "claim", "idle", "finish"} /\ harness' \in {harness, "up"}
      /\ was' \in {was, "failed"} \cup Terminal \cup {"suspended"}
  BY Zenon DEF Ask, StartFails, Handoff, ClaimRunning, running, world
<1>4. \/ row' = row \/ row' = [row EXCEPT !.state = "starting", !.turn = FALSE]
      \/ row.state = "starting" /\ (row' = [row EXCEPT !.state = was] \/ row' = [row EXCEPT !.state = "running"])
  BY Zenon DEF Ask, StartFails, Handoff, ClaimRunning
<1>5. row' \in Rows BY <1>2, <1>4, StateWritten, StateAndTurn, ZenonT(40)
<1>6. TypeOK'
  <2>1. was' \in Terminal \cup {"suspended"} BY <1>3, Zenon DEF TypeOK, Terminal
  <2>2. harness' \in {"up", "dead"} BY <1>3, Zenon DEF TypeOK
  <2>3. pc' \in {"none", "starting", "claim", "idle", "dispatch", "settle", "settled", "back",
               "teardown", "finish"} BY <1>3, Zenon
  <2> QED BY <1>1, <1>5, <2>1, <2>2, <2>3, Zenon DEF TypeOK
<1>7. CASE pc \in {"none", "starting"} /\ (Ask \/ StartFails \/ Handoff)
  <2>1. sup.active = 0 /\ work.kind = "none" /\ (row.state \in Live => woken)
    BY <1>7, Zenon DEF SInv, AtRest, Unclaimed
  <2>2. \A t \in Turns : turn[t] # "running" BY <2>1, NoneWorks, Zenon
  <2>3. row'.state \in Live => woken'
    <3>0. \/ row' = row \/ row' = [row EXCEPT !.state = "starting", !.turn = FALSE] \/ row' = [row EXCEPT !.state = was]
      BY <1>7, Zenon DEF Ask, StartFails, Handoff
    <3>1. row' = row \/ row'.state \in {"starting", was}
      <4>1. CASE row' = [row EXCEPT !.state = "starting", !.turn = FALSE] BY <1>2, <4>1, StateAndTurn, Zenon
      <4>2. CASE row' = [row EXCEPT !.state = was] BY <1>2, <4>2, StateWritten, Zenon
      <4> QED BY <3>0, <4>1, <4>2, Zenon
    <3>2. was \notin Live BY StatesApart, Zenon DEF TypeOK
    <3> QED BY <1>1, <2>1, <3>1, <3>2, StatesApart, Zenon
  <2>4. TurnHeld' /\ RowHeld' /\ PauseHeld' BY <1>1, <2>1, <2>2, Zenon DEF TurnHeld, RowHeld, PauseHeld
  <2>0. work'.kind = "none" /\ sup'.active = 0 BY <1>1, <2>1
  <2>5. CASE pc' \in {"none", "starting"}
    BY <1>6, <2>0, <2>3, <2>4, <2>5, Zenon DEF SInv, AtRest, AtEnd, AtDispatch, AtSettle, AtBack, Unclaimed
  <2>6. CASE pc' = "claim" BY <1>6, <2>0, <2>4, <2>6, ToIdle, Zenon
  <2> QED BY <1>7, <2>5, <2>6, Zenon DEF Ask, StartFails, Handoff
<1>8. CASE ClaimRunning
  <2>1. pc = "claim" /\ pc' \in {"idle", "finish"} /\ harness' = harness BY <1>8, Zenon DEF ClaimRunning, running
  <2>2. work'.kind = "none" BY <1>1, <2>1 DEF SInv, Unclaimed
  <2>3. row' = row \/ (row.state = "starting" /\ row'.state = "running" /\ row'.turn = row.turn)
    BY <1>2, <1>8, StateWritten DEF ClaimRunning
  <2>4. ~(row.state = "starting" /\ Ended(row)) BY StatesApart, Zenon DEF Ended
  <2>5. TurnHeld' /\ RowHeld' /\ PauseHeld'
    BY <1>1, <2>1, <2>3, <2>4, Zenon DEF SInv, TurnHeld, RowHeld, PauseHeld, Ended
  <2> QED BY <1>6, <2>1, <2>2, <2>5, ToIdle, Zenon
<1> QED BY <1>6, <1>7, <1>8, Zenon DEF Ask, StartFails, Handoff, Reopenable

\* What a task that is gone leaves.
LEMMA FreshTyped ==
    /\ Fresh \in Memories /\ Fresh.active = 0 /\ Fresh.paused = 0
    /\ NoWork \in Works /\ NoWork.kind = "none" /\ NoWork.from = "none" /\ NoWork.msgs = << >>
    /\ NoTurns \in [Turns -> Results \cup {"none", "running", "lost"}] /\ \A t \in Turns : NoTurns[t] # "running"
<1>1. Fresh \in Memories /\ Fresh.active = 0 /\ Fresh.paused = 0
  BY ConstAssumption DEF ConstAssumption, Fresh, Memories
<1>2. NoWork \in Works /\ NoWork.kind = "none" /\ NoWork.from = "none" /\ NoWork.msgs = << >> BY DEF NoWork, Works
<1>3. NoTurns \in [Turns -> Results \cup {"none", "running", "lost"}] /\ \A t \in Turns : NoTurns[t] # "running"
  BY DEF NoTurns
<1> QED BY <1>1, <1>2, <1>3

\* Requests and waits keep their kind through every end.
LEMMA EndsTyped ==
    ASSUME TypeOK
    PROVE  /\ \A f \in [Perms -> {"unasked", "event", "open", "orphan", "closed"}] :
                Dropped(f) \in [Perms -> {"unasked", "event", "open", "orphan", "closed"}]
           /\ Rejected \in [Perms -> {"unasked", "event", "open", "orphan", "closed"}]
           /\ [p \in Perms |-> IF perm[p] = "open" THEN "orphan" ELSE perm[p]]
                \in [Perms -> {"unasked", "event", "open", "orphan", "closed"}]
           /\ Forgotten \in [Waits -> {"none", "open", "cleared", "decided", "told"}]
BY DEF TypeOK, Dropped, Rejected, Forgotten

\* The supervisor's task is gone.
LEMMA GoneKeeps ==
    ASSUME TypeOK, SInv, NEW r \in Rows, Gone(r), r.state \in Live => woken,
           perm' \in [Perms -> {"unasked", "event", "open", "orphan", "closed"}],
           queue' = queue, stop' = stop, item' = item, was' = was, told' = told, woken' = woken, sends' = sends
    PROVE  TypeOK' /\ SInv'
<1>1. /\ row' = r \/ (r.state = "suspended" /\ row' = [r EXCEPT !.state = "closed"])
      /\ pc' = "none" /\ saw' = NoRow /\ work' = NoWork /\ sup' = Fresh /\ timers' = {}
      /\ turn' = NoTurns /\ harness' = "dead" /\ mail' = {} /\ wait' = Forgotten
  BY Zenon DEF Gone
<1>2. "closed" \in States /\ "closed" \notin Live BY StatesApart, Zenon
<1>3. row' \in Rows /\ (row'.state \in Live => woken')
  <2>1. CASE row' = r BY <2>1, Zenon
  <2>2. CASE row' = [r EXCEPT !.state = "closed"]
    <3>1. row' \in Rows /\ row'.state = "closed" BY <1>2, <2>2, StateWritten, ZenonT(40)
    <3> QED BY <1>2, <3>1, Zenon
  <2> QED BY <1>1, <2>1, <2>2, Zenon
<1>4. TypeOK'
  <2>1. wait' \in [Waits -> {"none", "open", "cleared", "decided", "told"}] BY <1>1, EndsTyped, Zenon
  <2>2. sup' \in Memories /\ work' \in Works /\ turn' \in [Turns -> Results \cup {"none", "running", "lost"}]
    BY <1>1, FreshTyped, Zenon
  <2> QED BY <1>1, <1>3, <2>1, <2>2, Zenon DEF TypeOK
<1>5. SInv' BY <1>1, <1>3, FreshTyped, ToNone, Zenon
<1> QED BY <1>4, <1>5

\* The supervisor tears down, or finishes a loop that ended without an ending.
LEMMA TeardownKeeps ==
    ASSUME TypeOK, SInv, Teardown \/ Finish
    PROVE  TypeOK' /\ SInv'
<1>1. /\ queue' = queue /\ stop' = stop /\ item' = item /\ was' = was /\ told' = told /\ woken' = woken
      /\ sends' = sends
  BY Zenon DEF Teardown, Finish, world, history, bounds
<1>2. row \in Rows BY Zenon DEF TypeOK
<1>3. perm' \in [Perms -> {"unasked", "event", "open", "orphan", "closed"}]
  BY EndsTyped, Zenon DEF Teardown, Finish
<1>4. CASE Teardown
  <2>1. pc = "teardown" /\ \E r \in Settled(row) \cup {row} : Gone(r) BY <1>4, Zenon DEF Teardown
  <2>2. PICK r \in Settled(row) \cup {row} : Gone(r) BY <2>1, Zenon
  <2>3. r \in Rows /\ r.state = row.state BY <1>2, SettledIs, Zenon
  <2>4. r.state \in Live => woken BY <2>1, <2>3, Zenon DEF SInv, AtEnd
  <2> QED BY <1>1, <1>3, <2>2, <2>3, <2>4, GoneKeeps, Zenon
<1>5. CASE Finish /\ Ended(row)
  <2>1. Gone(row) BY <1>5, Zenon DEF Finish
  <2>2. row.state \in Live => woken BY <1>5, StatesApart, Zenon DEF Ended
  <2> QED BY <1>1, <1>2, <1>3, <2>1, <2>2, GoneKeeps, Zenon
<1>6. CASE Finish /\ ~Ended(row)
  <2>1. PICK r \in Settled(row) \cup {row} : Gone(SetState(r, IF r.spent THEN "killed_budget" ELSE "closed"))
    BY <1>6, Zenon DEF Finish
  <2> DEFINE s == IF r.spent THEN "killed_budget" ELSE "closed"
             q == SetState(r, s)
  <2>2. r \in Rows /\ r.state = row.state BY <1>2, SettledIs, Zenon
  <2>3. s \in Terminal /\ s \in States /\ s \notin Live BY StatesApart, Zenon
  <2>4. ~Ended(r) BY <1>6, <2>2, Zenon DEF Ended
  <2> HIDE DEF s
  <2>5. q \in Rows /\ q.state = s BY <2>2, <2>3, <2>4, SetStateIs, Zenon
  <2>6. Gone(q) BY <2>1, Zenon DEF s
  <2> HIDE DEF q
  <2> QED BY <1>1, <1>3, <2>3, <2>5, <2>6, GoneKeeps, Zenon
<1> QED BY <1>4, <1>5, <1>6, Zenon

\* The process is gone, and the next one reconciles the row.
LEMMA RestartKeeps ==
    ASSUME TypeOK, SInv, Restart
    PROVE  TypeOK' /\ SInv'
<1>1. /\ row' = Reconcile(row) /\ queue' = queue /\ item' = item /\ told' = told /\ woken' = woken /\ sends' = sends
      /\ pc' = "none" /\ saw' = NoRow /\ work' = NoWork /\ sup' = Fresh /\ timers' = {}
      /\ turn' = NoTurns /\ harness' = "dead" /\ mail' = {} /\ stop' = "idle" /\ was' = "failed"
      /\ wait' = [Forgotten EXCEPT !["check"] = IF @ = "none" THEN "none" ELSE "told"]
      /\ perm' = Dropped([p \in Perms |->
                   IF p \notin UnresolvedPerms THEN perm[p]
                   ELSE IF Ended(row) \/ row.state = "suspended" THEN "orphan" ELSE "closed"])
  BY Zenon DEF Restart, history
<1>2. row \in Rows BY Zenon DEF TypeOK
<1>3. row' \in Rows /\ row'.state \in Terminal \cup {"suspended"}
  <2>1. \/ row' = row /\ (Ended(row) \/ row.state = "suspended")
        \/ row' = [row EXCEPT !.state = "suspended", !.why = "waits"]
        \/ row' = [row EXCEPT !.state = "closed", !.turn = FALSE]
    BY <1>1, Zenon DEF Reconcile
  <2>2. "closed" \in States /\ "closed" \in Terminal /\ "suspended" \in States BY StatesApart, Zenon
  <2>3. CASE row' = [row EXCEPT !.state = "suspended", !.why = "waits"] BY <1>2, <2>2, <2>3, Zenon DEF Rows
  <2>4. CASE row' = [row EXCEPT !.state = "closed", !.turn = FALSE] BY <1>2, <2>2, <2>4, StateAndTurn, Zenon
  <2> QED BY <1>2, <2>1, <2>3, <2>4, Zenon DEF Ended
<1>4. wait' \in [Waits -> {"none", "open", "cleared", "decided", "told"}] BY <1>1, EndsTyped, Zenon
<1>5. perm' \in [Perms -> {"unasked", "event", "open", "orphan", "closed"}]
  <2> DEFINE f == [p \in Perms |->
                   IF p \notin UnresolvedPerms THEN perm[p]
                   ELSE IF Ended(row) \/ row.state = "suspended" THEN "orphan" ELSE "closed"]
  <2>1. f \in [Perms -> {"unasked", "event", "open", "orphan", "closed"}] BY Zenon DEF TypeOK
  <2> HIDE DEF f
  <2> QED BY <1>1, <2>1, EndsTyped, Zenon DEF f
<1>6. TypeOK'
  <2>1. sup' \in Memories /\ work' \in Works /\ turn' \in [Turns -> Results \cup {"none", "running", "lost"}]
    BY <1>1, FreshTyped, Zenon
  <2>2. was' \in Terminal \cup {"suspended"} BY <1>1, StatesApart, Zenon
  <2> QED BY <1>1, <1>3, <1>4, <1>5, <2>1, <2>2, Zenon DEF TypeOK
<1>7. row'.state \notin Live BY <1>3, StatesApart, Zenon
<1>8. SInv' BY <1>1, <1>7, FreshTyped, ToNone, Zenon
<1> QED BY <1>6, <1>8

-----------------------------------------------------------------------------
(* Starting a turn *)

\* A turn is started with what was read between turns.
LEMMA StartsTurn ==
    ASSUME TypeOK, SInv, DispatchStarts
    PROVE  TypeOK' /\ SInv'
<1>1. /\ queue' = queue /\ perm' = perm /\ timers' = timers /\ harness' = harness /\ mail' = mail
      /\ stop' = stop /\ item' = item /\ was' = was /\ woken' = woken /\ sends' = sends
      /\ pc = "dispatch" /\ pc' = "idle" /\ saw' = NoRow /\ work' = NoWork /\ TakesTurn(saw)
      /\ told' = told \o work.msgs
      /\ wait' = [w \in Waits |-> IF w \in work.waits THEN "told" ELSE wait[w]]
  BY Zenon DEF DispatchStarts, world, bounds
<1>2. PICK t \in Turns : /\ sup' = [sup EXCEPT !.active = t]
                         /\ turn' = [turn EXCEPT ![t] = IF harness = "up" THEN "running" ELSE "lost"]
  BY Zenon DEF DispatchStarts
<1>3. ~saw.turn /\ saw.state # "paused" /\ ~Ended(saw)
  <2>1. ~saw.turn /\ saw.state \in {"running", "waiting_on_you"} BY <1>1, Zenon DEF TakesTurn, HeldBetweenTurns
  <2> QED BY <2>1, Zenon DEF Ended, Terminal
<1>4. sup.active = 0 /\ row.state # "paused" BY <1>1, <1>3, Zenon DEF SInv, AtDispatch
<1>5. \A u \in Turns : turn[u] # "running" BY <1>4, NoneWorks, Zenon
<1>6. row \in Rows /\ sup \in Memories /\ work \in Works /\ "running" \in States
  BY StatesApart, Zenon DEF TypeOK
<1>7. PICK q \in Rows : q.state # "paused" /\ row' = [q EXCEPT !.turn = TRUE]
  <2>1. SetState(row, "running") \in Rows /\ SetState(row, "running").state # "paused"
    BY <1>4, <1>6, SetStateIs, Zenon
  <2>2. row' = [SetState(row, "running") EXCEPT !.turn = TRUE] \/ row' = [row EXCEPT !.turn = TRUE]
    BY Zenon DEF DispatchStarts
  <2> QED BY <1>4, <1>6, <2>1, <2>2, Zenon
<1>8. row' \in Rows /\ row'.turn = TRUE /\ row'.state # "paused" BY <1>7, Zenon DEF Rows
<1>9. sup' \in Memories /\ sup'.active = t BY <1>2, <1>6 DEF Memories
<1>10. turn' \in [Turns -> Results \cup {"none", "running", "lost"}] BY <1>2 DEF TypeOK
<1>11. told' \in Seq(1..MaxSends)
  <2>1. work.msgs \in Seq(1..MaxSends) BY <1>6, Zenon DEF Works
  <2> QED BY <1>1, <2>1 DEF TypeOK
<1>12. wait' \in [Waits -> {"none", "open", "cleared", "decided", "told"}] BY <1>1, Zenon DEF TypeOK
<1>13. TypeOK' BY <1>1, <1>8, <1>9, <1>10, <1>11, <1>12, FreshTyped, Zenon DEF TypeOK
<1>14. TurnHeld'
  <2>1. \A u \in Turns : turn'[u] = "running" => u = t /\ harness = "up" BY <1>2, <1>5 DEF TypeOK
  <2> QED BY <1>1, <1>9, <2>1, Zenon DEF TurnHeld
<1>15. RowHeld' /\ PauseHeld' BY <1>8, Zenon DEF RowHeld, PauseHeld
<1>16. SInv' BY <1>1, <1>14, <1>15, FreshTyped, ToIdle, Zenon
<1> QED BY <1>13, <1>16

\* What a turn would be started with.
LEMMA WorkTyped ==
    ASSUME NEW k \in {"none", "prompt", "queued", "decisions", "compact", "continue"}, NEW m \in Seq(1..MaxSends),
           NEW w \in SUBSET Waits, NEW f \in States \cup {"none"}, NEW h \in BOOLEAN, NEW v,
           v = [NoWork EXCEPT !.kind = k, !.msgs = m, !.waits = w, !.from = f, !.held = h]
    PROVE  v \in Works /\ v.kind = k /\ v.msgs = m /\ v.from = f
BY Zenon DEF NoWork, Works

\* A turn is not started, and what was claimed for it is put back.
LEMMA RefusesTurn ==
    ASSUME TypeOK, SInv, DispatchRefused
    PROVE  TypeOK' /\ SInv'
<1>1. /\ perm' = perm /\ wait' = wait /\ sup' = sup /\ timers' = timers /\ turn' = turn /\ harness' = harness
      /\ mail' = mail /\ stop' = stop /\ item' = item /\ was' = was /\ told' = told /\ woken' = woken
      /\ sends' = sends /\ pc = "dispatch" /\ saw' = NoRow /\ queue' = ReleaseQueued
      /\ row' = row \/ row' = Hold(row)
      /\ \/ pc' = "idle" /\ work' = NoWork
         \/ work.from # "none" /\ pc' = "settled" /\ work' = [NoWork EXCEPT !.from = work.from, !.held = work.held]
  BY Zenon DEF DispatchRefused, running, world, history, bounds
<1>2. row \in Rows /\ work \in Works /\ queue \in Seq(1..MaxSends) BY Zenon DEF TypeOK
<1>3. work.msgs \in Seq(1..MaxSends) /\ work.from \in States \cup {"none"} /\ work.held \in BOOLEAN
  BY <1>2, Zenon DEF Works
<1>4. /\ row' \in Rows /\ row'.turn = row.turn
      /\ row' = row \/ (row.state = "running" /\ row'.state = "waiting_on_you")
  BY <1>1, <1>2, HoldIs, Zenon
<1>5. queue' \in Seq(1..MaxSends)
  <2>1. work.msgs \o queue \in Seq(1..MaxSends) BY <1>2, <1>3
  <2> QED BY <1>1, <1>2, <2>1, Zenon DEF ReleaseQueued
<1>6. work' \in Works /\ work'.kind = "none"
  <2>1. [NoWork EXCEPT !.from = work.from, !.held = work.held] \in Works BY <1>3, FreshTyped, Zenon DEF Works
  <2>2. [NoWork EXCEPT !.from = work.from, !.held = work.held].kind = "none" BY DEF NoWork
  <2> QED BY <1>1, <2>1, <2>2, FreshTyped, Zenon
<1>7. TypeOK'
  <2>1. pc' \in {"none", "starting", "claim", "idle", "dispatch", "settle", "settled", "back",
               "teardown", "finish"} BY <1>1, Zenon
  <2> QED BY <1>1, <1>4, <1>5, <1>6, <2>1, Zenon DEF TypeOK
<1>8. TurnHeld' BY <1>1, SameTurns, Zenon
<1>9. row'.state = "paused" => row.state = "paused" BY <1>4, Zenon
<1>10. ~(row.state = "running" /\ Ended(row)) BY StatesApart, Zenon DEF Ended
<1>11. RowHeld' /\ PauseHeld' BY <1>1, <1>4, <1>9, <1>10, Zenon DEF SInv, RowHeld, PauseHeld, Ended
<1>12. CASE pc' = "idle" BY <1>6, <1>7, <1>8, <1>11, <1>12, ToIdle, Zenon
<1>13. CASE pc' = "settled" /\ work.from # "none"
  <2>1. sup.active = 0 /\ row.state # "paused" BY <1>1, <1>13, Zenon DEF SInv, AtDispatch
  <2>2. sup'.active = 0 /\ row'.state # "paused" BY <1>1, <1>9, <2>1, Zenon
  <2> QED BY <1>6, <1>7, <1>8, <1>13, <2>2, ToSettle, Zenon
<1> QED BY <1>1, <1>7, <1>12, <1>13, Zenon

\* A prompt is sent, queued, or sent with those queued before it; a compaction is asked for.
LEMMA PromptKeeps ==
    ASSUME TypeOK, SInv, Prompt \/ Compact
    PROVE  TypeOK' /\ SInv'
<1>1. /\ row' = row /\ perm' = perm /\ wait' = wait /\ timers' = timers /\ turn' = turn /\ harness' = harness
      /\ mail' = mail /\ stop' = stop /\ item' = item /\ was' = was /\ told' = told /\ woken' = woken
      /\ pc = "idle" /\ sup' = [sup EXCEPT !.tried = 0]
  BY Zenon DEF Prompt, Compact, running, world, history, bounds
<1>2. row \in Rows /\ sup \in Memories /\ queue \in Seq(1..MaxSends) /\ sends \in 0..MaxSends BY Zenon DEF TypeOK
<1>3. sup' \in Memories /\ sup'.active = sup.active /\ sup'.paused = sup.paused
  <2>1. 0 \in 0..PerTurn BY ConstAssumption DEF ConstAssumption
  <2> QED BY <1>1, <1>2, <2>1 DEF Memories
<1>4. sends' \in 0..MaxSends /\ (Prompt => sends + 1 \in 1..MaxSends)
  BY <1>2, ConstAssumption DEF ConstAssumption, Prompt, Compact
<1>5. /\ queue' \in Seq(1..MaxSends)
      /\ \/ pc' = "dispatch" /\ saw' = row /\ work' \in Works /\ work'.from = "none"
         \/ pc' = pc /\ saw' = saw /\ work' = work
  <2>1. CASE Compact
    <3>1. pc' = "dispatch" /\ saw' = row /\ work' = [NoWork EXCEPT !.kind = "compact"] /\ queue' = queue
      BY <2>1, Zenon DEF Compact, Dispatching
    <3>2. work' \in Works /\ work'.from = "none" BY <3>1, FreshTyped DEF Works
    <3> QED BY <1>2, <3>1, <3>2, Zenon
  <2>2. CASE Prompt
    <3>1. sends + 1 \in 1..MaxSends BY <1>4, <2>2, Zenon
    <3>2. CASE Dispatching([NoWork EXCEPT !.kind = "prompt", !.msgs = <<sends + 1>>]) /\ queue' = queue
      <4>1. pc' = "dispatch" /\ saw' = row /\ work' = [NoWork EXCEPT !.kind = "prompt", !.msgs = <<sends + 1>>]
        BY <3>2, Zenon DEF Dispatching
      <4>2. <<sends + 1>> \in Seq(1..MaxSends) BY <3>1
      <4>3. work' \in Works /\ work'.from = "none" BY <4>1, <4>2, FreshTyped, Zenon DEF Works
      <4> QED BY <1>2, <3>2, <4>1, <4>3, Zenon
    <3>3. CASE queue' = Append(queue, sends + 1) /\ pc' = pc /\ saw' = saw /\ work' = work
      <4>1. queue' \in Seq(1..MaxSends) BY <1>2, <3>1, <3>3
      <4> QED BY <3>3, <4>1, Zenon
    <3>4. CASE Dispatching([NoWork EXCEPT !.kind = "queued", !.msgs = Append(queue, sends + 1)]) /\ queue' = << >>
      <4>1. pc' = "dispatch" /\ saw' = row /\ work' = [NoWork EXCEPT !.kind = "queued", !.msgs = Append(queue, sends + 1)]
        BY <3>4, Zenon DEF Dispatching
      <4>2. Append(queue, sends + 1) \in Seq(1..MaxSends) BY <1>2, <3>1
      <4>3. work' \in Works /\ work'.from = "none" BY <4>1, <4>2, FreshTyped, Zenon DEF Works
      <4>4. queue' \in Seq(1..MaxSends) BY <3>4
      <4> QED BY <4>1, <4>3, <4>4, Zenon
    <3> QED BY <2>2, <3>2, <3>3, <3>4, Zenon DEF Prompt, step
  <2> QED BY <2>1, <2>2, Zenon
<1>6. TypeOK'
  <2>1. saw' \in Rows \cup {NoRow} /\ work' \in Works BY <1>2, <1>5, Zenon DEF TypeOK
  <2>2. pc' \in {"none", "starting", "claim", "idle", "dispatch", "settle", "settled", "back",
               "teardown", "finish"} BY <1>1, <1>5, Zenon
  <2> QED BY <1>1, <1>3, <1>4, <1>5, <2>1, <2>2, Zenon DEF TypeOK
<1>7. TurnHeld' /\ RowHeld' /\ PauseHeld' BY <1>1, <1>3, Zenon DEF SInv, TurnHeld, RowHeld, PauseHeld
<1>8. CASE pc' = "dispatch" /\ saw' = row /\ work'.from = "none" BY <1>1, <1>6, <1>7, <1>8, ToDispatch, Zenon
<1>9. CASE pc' = pc /\ work' = work
  <2>1. work'.kind = "none" BY <1>1, <1>9, Zenon DEF SInv, Unclaimed
  <2> QED BY <1>1, <1>6, <1>7, <1>9, <2>1, ToIdle, Zenon
<1> QED BY <1>5, <1>6, <1>8, <1>9, Zenon

-----------------------------------------------------------------------------
(* Between turns *)

\* The row as Shutdown writes it has ended.
LEMMA ShutdownIs ==
    ASSUME NEW r \in Rows, NEW s \in Terminal, Shutdown(r, s)
    PROVE  /\ row' \in Rows /\ Ended(row') /\ pc' = "teardown" /\ saw' = NoRow /\ work' = NoWork
<1>1. s \in States BY StatesApart, Zenon
<1>2. row' = SetState(r, s) /\ pc' = "teardown" /\ saw' = NoRow /\ work' = NoWork BY Zenon DEF Shutdown
<1> QED BY <1>1, <1>2, SetStateIs, Zenon DEF Ended

\* Held, ended or no longer held, once nothing is left to deliver.
LEMMA RestKeeps ==
    ASSUME TypeOK, SInv, NEW state, NEW held, SettleRest(state, held), pc \in {"settle", "settled"},
           queue' = queue, perm' = perm, wait' = wait, timers' = timers, turn' = turn, harness' = harness,
           mail' = mail, stop' = stop, item' = item, was' = was, told' = told, woken' = woken, sends' = sends
    PROVE  TypeOK' /\ SInv'
<1>1. sup.active = 0 /\ row.state # "paused" /\ row \in Rows /\ sup \in Memories
  BY Zenon DEF SInv, AtSettle, TypeOK
<1>2. "closed" \in Terminal /\ "running" \in States BY StatesApart, Zenon
<1>3. /\ row' \in Rows /\ saw' = NoRow /\ work' = NoWork /\ sup' \in Memories /\ sup'.active = sup.active
      /\ (pc' = "idle" /\ row'.state # "paused") \/ (pc' = "teardown" /\ Ended(row'))
  <2>1. CASE sup' = [sup EXCEPT !.endAfter = "none"] /\ Shutdown(row, "closed")
    <3>1. sup' \in Memories /\ sup'.active = sup.active BY <1>1, <2>1 DEF Memories
    <3> QED BY <1>1, <1>2, <2>1, <3>1, ShutdownIs, Zenon
  <2>2. CASE row' = row /\ pc' = "idle" /\ saw' = NoRow /\ work' = NoWork /\ sup' = sup BY <1>1, <2>2, Zenon
  <2>3. CASE row' = Hold(row) /\ pc' = "idle" /\ saw' = NoRow /\ work' = NoWork /\ sup' = sup
    <3>1. row' \in Rows /\ row'.state # "paused" BY <1>1, <2>3, HoldIs, Zenon
    <3> QED BY <1>1, <2>3, <3>1, Zenon
  <2>4. CASE row' = SetState(row, "running") /\ pc' = "idle" /\ saw' = NoRow /\ work' = NoWork /\ sup' = sup
    <3>1. row' \in Rows /\ row'.state # "paused" BY <1>1, <1>2, <2>4, SetStateIs, Zenon
    <3> QED BY <1>1, <2>4, <3>1, Zenon
  <2> QED BY <2>1, <2>2, <2>3, <2>4, Zenon DEF SettleRest
<1>4. TypeOK' BY <1>3, FreshTyped, Zenon DEF TypeOK
<1>5. TurnHeld' /\ RowHeld' /\ PauseHeld' BY <1>1, <1>3, SameTurns, Zenon DEF RowHeld, PauseHeld
<1>6. SInv' BY <1>3, <1>5, FreshTyped, ToIdle, ToTeardown, Zenon
<1> QED BY <1>4, <1>6

\* settle_waits delivers, or does the rest.
LEMMA SettleKeeps ==
    ASSUME TypeOK, SInv, SettleWaits \/ SettleGoesOn
    PROVE  TypeOK' /\ SInv'
<1>1. /\ perm' = perm /\ wait' = wait /\ timers' = timers /\ turn' = turn /\ harness' = harness
      /\ mail' = mail /\ stop' = stop /\ item' = item /\ was' = was /\ told' = told /\ woken' = woken
      /\ sends' = sends /\ pc \in {"settle", "settled"}
  BY Zenon DEF SettleWaits, SettleGoesOn, running, world, history, bounds
<1>2. CASE queue' = queue /\ \E state, held : SettleRest(state, held) BY <1>1, <1>2, RestKeeps, Zenon
<1>3. CASE /\ pc' = "dispatch" /\ saw' = row /\ row' = row /\ sup' = sup
           /\ work' \in Works /\ queue' \in Seq(1..MaxSends)
  <2>1. sup.active = 0 /\ row.state # "paused" /\ row \in Rows BY <1>1, Zenon DEF SInv, AtSettle, TypeOK
  <2>2. TypeOK' BY <1>1, <1>3, <2>1, Zenon DEF TypeOK
  <2>3. TurnHeld' /\ RowHeld' /\ PauseHeld' BY <1>1, <1>3, <2>1, SameTurns, Zenon DEF RowHeld, PauseHeld
  <2> QED BY <1>3, <2>1, <2>2, <2>3, ToDispatch, Zenon
<1>4. CASE SettleWaits /\ ~(queue' = queue /\ \E state, held : SettleRest(state, held))
  <2>1. saw.state \in States \cup {"none"} /\ queue \in Seq(1..MaxSends) /\ Untold \in SUBSET Waits
    BY DEF TypeOK, Rows, NoRow, Untold
  <2>2. CASE /\ Dispatching([NoWork EXCEPT !.kind = "decisions", !.waits = Untold, !.from = saw.state])
             /\ row' = row /\ queue' = queue /\ sup' = sup
    <3>1. work' \in Works BY <2>1, <2>2, FreshTyped, Zenon DEF Dispatching, Works
    <3> QED BY <1>3, <2>1, <2>2, <3>1, Zenon DEF Dispatching
  <2>3. CASE /\ Dispatching([NoWork EXCEPT !.kind = "queued", !.msgs = queue, !.from = saw.state,
                                            !.held = OpenWaits # {}])
             /\ row' = row /\ queue' = << >> /\ sup' = sup
    <3>1. work' \in Works BY <2>1, <2>3, FreshTyped, Zenon DEF Dispatching, Works
    <3>2. queue' \in Seq(1..MaxSends) BY <2>3
    <3> QED BY <1>3, <2>3, <3>1, <3>2, Zenon DEF Dispatching
  <2> QED BY <1>4, <2>2, <2>3, Zenon DEF SettleWaits
<1> QED BY <1>2, <1>4, Zenon DEF SettleGoesOn

\* The supervisor looks between turns.
LEMMA LooksKeep ==
    ASSUME NEW s, NEW r, NEW p, Settling(s, r, p)
    PROVE  /\ work' = NoWork
           /\ \/ pc' = "settle" /\ saw' = r /\ s.active = 0 /\ r.state # "paused"
              \/ pc' = "idle" /\ saw' = NoRow
<1>1. SettleLooks(s, r, p) => s.active = 0 /\ r.state # "paused" BY Zenon DEF SettleLooks
<1> QED BY <1>1, Zenon DEF Settling

\* The tick looks between turns.
LEMMA TickKeeps ==
    ASSUME TypeOK, SInv, Tick
    PROVE  TypeOK' /\ SInv'
<1>1. /\ row' = row /\ queue' = queue /\ perm' = perm /\ wait' = wait /\ sup' = sup /\ timers' = timers
      /\ turn' = turn /\ harness' = harness /\ mail' = mail /\ stop' = stop /\ item' = item /\ was' = was
      /\ told' = told /\ woken' = woken /\ sends' = sends /\ Settling(sup, row, perm)
  BY Zenon DEF Tick, running, world, history, bounds
<1>2. /\ work' = NoWork
      /\ \/ pc' = "settle" /\ saw' = row /\ sup.active = 0 /\ row.state # "paused"
         \/ pc' = "idle" /\ saw' = NoRow
  BY <1>1, LooksKeep, Zenon
<1>3. TypeOK' BY <1>1, <1>2, FreshTyped, Zenon DEF TypeOK
<1>4. TurnHeld' /\ RowHeld' /\ PauseHeld' BY <1>1, SameTurns, Zenon DEF SInv, RowHeld, PauseHeld
<1>5. SInv' BY <1>1, <1>2, <1>4, FreshTyped, ToIdle, ToSettle, Zenon
<1> QED BY <1>3, <1>5

-----------------------------------------------------------------------------
(* Fencing *)

\* The row is paused, or left ended.
LEMMA PausingIs ==
    ASSUME TypeOK, NEW r \in Rows, NEW q \in [Perms -> {"unasked", "event", "open", "orphan", "closed"}],
           NEW why \in {"none", "budget"}, Pausing(r, q, why)
    PROVE  /\ row' \in Rows /\ perm' \in [Perms -> {"unasked", "event", "open", "orphan", "closed"}]
           /\ Ended(r) => row'.state = r.state /\ row'.turn = r.turn
           /\ ~Ended(r) => row'.state = "paused" /\ row'.turn = r.turn
<1>1. "paused" \in States /\ "paused" \notin Terminal BY StatesApart, Zenon
<1>2. /\ SetState(r, "paused") \in Rows /\ r.turn \in BOOLEAN
      /\ Ended(r) => SetState(r, "paused") = r
      /\ ~Ended(r) => SetState(r, "paused").state = "paused" /\ SetState(r, "paused").turn = r.turn
  <2>1. r.turn \in BOOLEAN BY DEF Rows
  <2> QED BY <1>1, <2>1, SetStateIs
<1>3. row' = [SetState(r, "paused") EXCEPT !.why = why] BY Zenon DEF Pausing
<1>4. row' \in Rows /\ row'.state = SetState(r, "paused").state /\ row'.turn = SetState(r, "paused").turn
  BY <1>2, <1>3 DEF Rows
<1>5. perm' \in [Perms -> {"unasked", "event", "open", "orphan", "closed"}] BY DEF Pausing
<1> QED BY <1>2, <1>4, <1>5, Zenon

\* The operator pauses; where the turn cannot be interrupted, the session fails.
LEMMA PauseKeeps ==
    ASSUME TypeOK, SInv, Pause
    PROVE  TypeOK' /\ SInv'
<1>1. /\ queue' = queue /\ wait' = wait /\ pc' = pc /\ saw' = saw /\ work' = work /\ mail' = mail
      /\ stop' = stop /\ item' = item /\ was' = was /\ told' = told /\ woken' = woken /\ sends' = sends
      /\ pc = "idle" /\ ~Ended(row)
  BY Zenon DEF Pause, step, world, history, Fenced
<1>2. row \in Rows /\ sup \in Memories /\ work.kind = "none" /\ sup.active \in Turns \cup {0}
  BY <1>1, Zenon DEF TypeOK, SInv, Unclaimed, Memories
<1>3. CASE /\ Pausing(row, perm, "none") /\ sup' = [sup EXCEPT !.paused = sup.active]
           /\ timers' = timers \cup ({sup.active} \ {0}) /\ turn' = turn /\ harness' = harness
  <2>1. /\ row' \in Rows /\ perm' \in [Perms -> {"unasked", "event", "open", "orphan", "closed"}]
        /\ row'.state = "paused" /\ row'.turn = row.turn
    BY <1>1, <1>2, <1>3, PausingIs, Zenon DEF TypeOK
  <2>2. sup' \in Memories /\ sup'.paused = sup.active /\ sup'.active = sup.active BY <1>2, <1>3 DEF Memories
  <2>3. timers' \subseteq Turns BY <1>2, <1>3, Zenon DEF TypeOK
  <2>4. TypeOK' BY <1>1, <1>3, <2>1, <2>2, <2>3, ZenonT(40) DEF TypeOK
  <2>5. TurnHeld' BY <1>3, <2>2, SameTurns, Zenon
  <2>6. RowHeld' /\ PauseHeld' BY <1>1, <2>1, <2>2, Zenon DEF SInv, RowHeld, PauseHeld
  <2> QED BY <1>1, <1>2, <2>4, <2>5, <2>6, ToIdle, Zenon
<1>4. CASE /\ (\E r \in Settled(SetState(row, "failed")) : row' = r) /\ perm' = Rejected
           /\ sup' = [sup EXCEPT !.active = 0, !.paused = sup.active]
           /\ harness' = "dead" /\ turn' = HarnessGone(turn) /\ timers' = timers
  <2>1. SetState(row, "failed") \in Rows /\ SetState(row, "failed").state = "failed"
    BY <1>1, <1>2, SetStateIs, StatesApart, Zenon
  <2>2. row' \in Rows /\ row'.state = "failed" BY <1>4, <2>1, SettledIs, Zenon
  <2>3. sup' \in Memories /\ sup'.active = 0 BY <1>2, <1>4, Zenon DEF Memories
  <2>4. /\ turn' \in [Turns -> Results \cup {"none", "running", "lost"}]
        /\ \A t \in Turns : turn'[t] # "running"
    BY <1>4 DEF TypeOK, HarnessGone
  <2>5. TypeOK' BY <1>1, <1>4, <2>2, <2>3, <2>4, EndsTyped, Zenon DEF TypeOK
  <2>6. TurnHeld' /\ RowHeld' /\ PauseHeld' BY <2>3, <2>4, Zenon DEF TurnHeld, RowHeld, PauseHeld
  <2> QED BY <1>1, <1>2, <2>5, <2>6, ToIdle, Zenon
<1> QED BY <1>3, <1>4, Zenon DEF Pause

\* A paused session is resumed.
LEMMA ResumeKeeps ==
    ASSUME TypeOK, SInv, Resume
    PROVE  TypeOK' /\ SInv'
<1>1. /\ queue' = queue /\ perm' = perm /\ wait' = wait /\ pc' = pc /\ saw' = saw /\ work' = work
      /\ timers' = timers /\ turn' = turn /\ harness' = harness /\ stop' = stop /\ item' = item /\ was' = was
      /\ told' = told /\ woken' = woken /\ sends' = sends /\ pc = "idle" /\ row.state = "paused"
      /\ row' = [SetState(row, "running") EXCEPT !.why = "none"] /\ sup' = [sup EXCEPT !.fails = 0]
      /\ mail' \subseteq mail
  BY Zenon DEF Resume, MayResume, step, running, world, history, bounds
<1>2. row \in Rows /\ sup \in Memories /\ work.kind = "none" BY <1>1, Zenon DEF TypeOK, SInv, Unclaimed
<1>3. ~Ended(row) /\ "running" \in States /\ "running" \notin Terminal BY <1>1, StatesApart, Zenon DEF Ended
<1>4. row' \in Rows /\ row'.state = "running" /\ row'.turn = row.turn
  <2>1. /\ SetState(row, "running") \in Rows /\ SetState(row, "running").state = "running"
        /\ SetState(row, "running").turn = row.turn
    <3>1. row.turn \in BOOLEAN BY <1>2 DEF Rows
    <3> QED BY <1>2, <1>3, <3>1, SetStateIs
  <2> QED BY <1>1, <2>1 DEF Rows
<1>5. sup' \in Memories /\ sup'.active = sup.active BY <1>1, <1>2, ConstAssumption DEF ConstAssumption, Memories
<1>6. TypeOK' BY <1>1, <1>4, <1>5, Zenon DEF TypeOK
<1>7. TurnHeld' /\ RowHeld' /\ PauseHeld'
  BY <1>1, <1>3, <1>4, <1>5, SameTurns, Zenon DEF SInv, RowHeld, PauseHeld
<1>8. SInv' BY <1>1, <1>2, <1>7, ToIdle, Zenon
<1> QED BY <1>6, <1>8

\* A quiesce timer runs out.
LEMMA QuiesceKeeps ==
    ASSUME TypeOK, SInv, QuiesceTimeout
    PROVE  TypeOK' /\ SInv'
<1>1. /\ queue' = queue /\ perm' = perm /\ wait' = wait /\ sup' = sup /\ mail' = mail
      /\ turn' = turn /\ harness' = harness /\ stop' = stop /\ item' = item /\ was' = was
      /\ told' = told /\ woken' = woken /\ sends' = sends /\ pc = "idle" /\ timers' \subseteq timers
      /\ Shutdown(row, "failed") \/ (row' = row /\ pc' = pc /\ saw' = saw /\ work' = work)
  BY Zenon DEF QuiesceTimeout, step, world, history, bounds
<1>2. TurnHeld' /\ row \in Rows /\ "failed" \in Terminal BY <1>1, SameTurns, StatesApart, Zenon DEF TypeOK
<1>3. CASE Shutdown(row, "failed")
  <2>1. row' \in Rows /\ Ended(row') /\ pc' = "teardown" /\ saw' = NoRow /\ work' = NoWork
    BY <1>2, <1>3, ShutdownIs, Zenon
  <2>2. TypeOK' BY <1>1, <2>1, FreshTyped, Zenon DEF TypeOK
  <2>3. RowHeld' BY <2>1, Zenon DEF RowHeld
  <2> QED BY <1>2, <2>1, <2>2, <2>3, FreshTyped, ToTeardown, Zenon
<1>4. CASE row' = row /\ pc' = pc /\ saw' = saw /\ work' = work
  <2>1. TypeOK' BY <1>1, <1>4, Zenon DEF TypeOK
  <2> QED BY <1>1, <1>4, <2>1, BesideRow, Zenon
<1> QED BY <1>1, <1>3, <1>4, Zenon

-----------------------------------------------------------------------------
(* The end of a turn *)

\* What follows a completion that was taken.
LEMMA AfterTurnIs ==
    ASSUME TypeOK, NEW t, NEW how, NEW r \in Rows, NEW s \in Memories, s.active = 0,
           NEW q \in [Perms -> {"unasked", "event", "open", "orphan", "closed"}], AfterTurn(t, how, r, q, s)
    PROVE  /\ row' \in Rows /\ perm' \in [Perms -> {"unasked", "event", "open", "orphan", "closed"}]
           /\ sup' \in Memories /\ sup'.active = 0 /\ work' = NoWork /\ saw' \in Rows \cup {NoRow}
           /\ \/ pc' = "idle" \/ (pc' = "teardown" /\ Ended(row'))
              \/ pc' = "settle" /\ row'.state # "paused"
<1>1. "failed" \in Terminal /\ "closed" \in Terminal /\ "paused" \in States BY StatesApart, Zenon
<1>2. CASE /\ sup' = [s EXCEPT !.paused = 0] /\ row' = r /\ perm' = q
           /\ pc' = "idle" /\ saw' = NoRow /\ work' = NoWork
  <2>1. sup' \in Memories /\ sup'.active = 0 BY <1>2 DEF Memories
  <2> QED BY <1>2, <2>1, Zenon
<1>3. CASE sup' = s /\ perm' = q /\ Shutdown(SetState(r, "paused"), "failed")
  <2>1. SetState(r, "paused") \in Rows BY <1>1, SetStateIs, Zenon
  <2> QED BY <1>1, <1>3, <2>1, ShutdownIs, Zenon
<1>4. CASE /\ sup' = s /\ row' = r /\ perm' = q /\ pc' = "idle" /\ saw' = NoRow /\ work' = NoWork
  BY <1>4, Zenon
<1>5. CASE /\ sup' = s /\ (\E why \in {"none", "budget"} : Pausing(r, q, why))
           /\ pc' = "idle" /\ saw' = NoRow /\ work' = NoWork
  <2>1. row' \in Rows /\ perm' \in [Perms -> {"unasked", "event", "open", "orphan", "closed"}]
    BY <1>5, PausingIs, Zenon
  <2> QED BY <1>5, <2>1, Zenon
<1>6. CASE sup' = [s EXCEPT !.endAfter = "none"] /\ perm' = q /\ Shutdown(r, "closed")
  <2>1. sup' \in Memories /\ sup'.active = 0 BY <1>6 DEF Memories
  <2> QED BY <1>1, <1>6, <2>1, ShutdownIs, Zenon
<1>7. CASE sup' = s /\ row' = r /\ perm' = q /\ Settling(s, r, q)
  <2>1. /\ work' = NoWork
        /\ \/ pc' = "settle" /\ saw' = r /\ s.active = 0 /\ r.state # "paused"
           \/ pc' = "idle" /\ saw' = NoRow
    BY <1>7, LooksKeep, Zenon
  <2> QED BY <1>7, <2>1, Zenon
<1> QED BY <1>2, <1>3, <1>4, <1>5, <1>6, <1>7, Zenon DEF AfterTurn

\* A turn is done: the active one, or one that no longer matters.
LEMMA TurnDoneKeeps ==
    ASSUME TypeOK, SInv, NEW t \in Turns, TurnDone(t)
    PROVE  TypeOK' /\ SInv'
<1>1. /\ queue' = queue /\ wait' = wait /\ harness' = harness /\ mail' = mail
      /\ stop' = stop /\ item' = item /\ was' = was /\ told' = told /\ woken' = woken /\ sends' = sends
      /\ pc = "idle" /\ timers' \subseteq timers /\ turn[t] \in Results /\ turn' = [turn EXCEPT ![t] = "none"]
  BY Zenon DEF TurnDone, world, history, bounds
<1>2. /\ turn' \in [Turns -> Results \cup {"none", "running", "lost"}] /\ turn[t] # "running"
      /\ \A u \in Turns : turn'[u] = "running" => turn[u] = "running"
  BY <1>1 DEF TypeOK, Results
<1>3. row \in Rows /\ sup \in Memories /\ work.kind = "none" BY <1>1, Zenon DEF TypeOK, SInv, Unclaimed
<1>4. CASE row' = row /\ perm' = perm /\ pc' = pc /\ saw' = saw /\ work' = work /\ sup' = sup
  <2>1. TypeOK' BY <1>1, <1>2, <1>4, Zenon DEF TypeOK
  <2> QED BY <1>1, <1>2, <1>4, <2>1, BesideRow, Zenon
<1>5. ASSUME ~ForeignTurn(t), sup' \in Memories, sup'.active = 0
      PROVE  TurnHeld' /\ RowHeld' /\ PauseHeld'
  <2>1. \A u \in Turns : turn'[u] # "running" BY <1>2, <1>5, Zenon DEF SInv, TurnHeld, ForeignTurn
  <2> QED BY <1>5, <2>1, Zenon DEF TurnHeld, RowHeld, PauseHeld
<1>6. CASE /\ ~ForeignTurn(t) /\ sup' = [sup EXCEPT !.active = 0, !.died = TRUE] /\ row' \in Settled(row)
           /\ perm' = perm /\ pc' = pc /\ saw' = saw /\ work' = work
  <2>1. sup' \in Memories /\ sup'.active = 0 BY <1>3, <1>6, Zenon DEF Memories
  <2>2. row' \in Rows BY <1>3, <1>6, SettledIs, Zenon
  <2>3. TypeOK' BY <1>1, <1>2, <1>6, <2>1, <2>2, Zenon DEF TypeOK
  <2> QED BY <1>1, <1>3, <1>5, <1>6, <2>1, <2>3, ToIdle, Zenon
<1>7. CASE /\ ~ForeignTurn(t)
           /\ \E r \in Settled(AfterDrain(row)) :
                AfterTurn(t, turn[t], r, Drained(row),
                          [sup EXCEPT !.active = 0,
                                      !.fails = IF turn[t] = "end" THEN 0
                                                ELSE IF @ < FailureLimit THEN @ + 1 ELSE @])
  <2> DEFINE s == [sup EXCEPT !.active = 0,
                                      !.fails = IF turn[t] = "end" THEN 0
                                                ELSE IF @ < FailureLimit THEN @ + 1 ELSE @]
  <2>1. s \in Memories /\ s.active = 0
    <3>1. \A k \in 0..FailureLimit : (IF k < FailureLimit THEN k + 1 ELSE k) \in 0..FailureLimit /\ 0 \in 0..FailureLimit
      BY ConstAssumption DEF ConstAssumption
    <3> QED BY <1>3, <3>1, Zenon DEF Memories
  <2>2. AfterDrain(row) \in Rows BY <1>3, SetStateIs, StatesApart, Zenon DEF AfterDrain
  <2>3. Drained(row) \in [Perms -> {"unasked", "event", "open", "orphan", "closed"}] BY Zenon DEF TypeOK, Drained
  <2> HIDE DEF s
  <2>4. PICK r \in Settled(AfterDrain(row)) : AfterTurn(t, turn[t], r, Drained(row), s) BY <1>7, Zenon DEF s
  <2>5. r \in Rows BY <2>2, SettledIs, Zenon
  <2>6. /\ row' \in Rows /\ perm' \in [Perms -> {"unasked", "event", "open", "orphan", "closed"}]
        /\ sup' \in Memories /\ sup'.active = 0 /\ work' = NoWork /\ saw' \in Rows \cup {NoRow}
        /\ \/ pc' = "idle" \/ (pc' = "teardown" /\ Ended(row'))
           \/ pc' = "settle" /\ row'.state # "paused"
    BY <2>1, <2>3, <2>4, <2>5, AfterTurnIs, Zenon
  <2>7. pc' \in {"none", "starting", "claim", "idle", "dispatch", "settle", "settled", "back",
               "teardown", "finish"} BY <2>6, Zenon
  <2>8. TypeOK' BY <1>1, <1>2, <2>6, <2>7, FreshTyped, Zenon DEF TypeOK
  <2>9. TurnHeld' /\ RowHeld' /\ PauseHeld' BY <1>5, <1>7, <2>6, Zenon
  <2> QED BY <2>6, <2>8, <2>9, FreshTyped, ToIdle, ToTeardown, ToSettle, Zenon
<1> QED BY <1>4, <1>6, <1>7, Zenon DEF TurnDone, step

\* The harness is gone: started again, or the loop ends.
LEMMA ExitedKeeps ==
    ASSUME TypeOK, SInv, Exited
    PROVE  TypeOK' /\ SInv'
<1> DEFINE next == [sup EXCEPT !.active = 0, !.died = FALSE]
<1>1. /\ queue' = queue /\ wait' = wait /\ timers' = timers /\ turn' = turn /\ mail' = mail
      /\ stop' = stop /\ item' = item /\ was' = was /\ told' = told /\ woken' = woken /\ sends' = sends
      /\ pc = "idle" /\ harness = "dead"
  BY Zenon DEF Exited, world, history, bounds
<1>2. row \in Rows /\ sup \in Memories /\ work.kind = "none" /\ work \in Works /\ saw \in Rows \cup {NoRow}
  BY <1>1, Zenon DEF TypeOK, SInv, Unclaimed
<1>3. \A t \in Turns : turn[t] # "running" BY <1>1, NoneWorks
<1>4. next \in Memories /\ next.active = 0 /\ next.relaunches = sup.relaunches /\ next.tried = sup.tried
  BY <1>2, Zenon DEF Memories
<1>5. /\ row' \in Rows /\ row'.state = row.state /\ (~CanRelaunch(row) => row' = row)
      /\ perm' \in [Perms -> {"unasked", "event", "open", "orphan", "closed"}]
      /\ harness' \in {"up", "dead"}
  <2>1. row' = row \/ (CanRelaunch(row) /\ row' \in Settled(row)) BY Zenon DEF Exited
  <2>2. perm' \in {perm, Rejected} /\ harness' \in {harness, "up"} BY Zenon DEF Exited
  <2>3. row' \in Rows /\ row'.state = row.state /\ (~CanRelaunch(row) => row' = row)
    BY <1>2, <2>1, SettledIs, Zenon
  <2> QED BY <1>1, <2>2, <2>3, EndsTyped, ZenonT(40) DEF TypeOK
<1> HIDE DEF next
<1>6. \/ MayRelaunch /\ sup' = [next EXCEPT !.relaunches = @ + 1, !.tried = @ + 1]
      \/ CanRelaunch(row) /\ sup' = next
      \/ ~CanRelaunch(row) /\ sup' = sup
  BY Zenon DEF Exited, next
<1>7. /\ \/ pc' = "dispatch" /\ saw' = row' /\ work' = [NoWork EXCEPT !.kind = "continue"]
         \/ pc' \in {"idle", "finish"} /\ saw' = saw /\ work' = work
  BY <1>1, Zenon DEF Exited, step
<1>8. sup' \in Memories /\ (sup'.active = 0 \/ (sup' = sup /\ row' = row))
  <2>1. CASE MayRelaunch /\ sup' = [next EXCEPT !.relaunches = @ + 1, !.tried = @ + 1]
    <3>1. next.relaunches + 1 \in 0..PerSession /\ next.tried + 1 \in 0..PerTurn
      <4>1. sup.relaunches \in 0..PerSession /\ sup.tried \in 0..PerTurn BY <1>2, Zenon DEF Memories
      <4> QED BY <1>4, <2>1, <4>1, ConstAssumption DEF MayRelaunch, ConstAssumption
    <3> QED BY <1>4, <2>1, <3>1, Zenon DEF Memories
  <2> QED BY <1>2, <1>4, <1>5, <1>6, <2>1, Zenon
<1>9. [NoWork EXCEPT !.kind = "continue"] \in Works /\ [NoWork EXCEPT !.kind = "continue"].from = "none"
  BY FreshTyped DEF Works
<1>10. TypeOK'
  <2>1. saw' \in Rows \cup {NoRow} /\ work' \in Works BY <1>2, <1>5, <1>7, <1>9, Zenon
  <2>2. pc' \in {"none", "starting", "claim", "idle", "dispatch", "settle", "settled", "back",
               "teardown", "finish"} BY <1>7, Zenon
  <2> QED BY <1>1, <1>5, <1>8, <2>1, <2>2, Zenon DEF TypeOK
<1>11. TurnHeld' /\ RowHeld' /\ PauseHeld'
  BY <1>1, <1>3, <1>8, Zenon DEF SInv, TurnHeld, RowHeld, PauseHeld
<1>12. SInv' BY <1>2, <1>7, <1>9, <1>11, ToIdle, ToDispatch, Zenon
<1> QED BY <1>10, <1>12

-----------------------------------------------------------------------------
(* Answers and commands *)

\* A request is answered or expires, and the session goes back to running.
LEMMA AnswersKeep ==
    ASSUME TypeOK, SInv, BackToRunning \/ (\E p \in Perms : AnswerOrExpire(p))
    PROVE  TypeOK' /\ SInv'
<1>1. /\ queue' = queue /\ wait' = wait /\ work' = work /\ sup' = sup /\ timers' = timers /\ turn' = turn
      /\ harness' = harness /\ mail' = mail /\ stop' = stop /\ item' = item /\ was' = was /\ told' = told
      /\ woken' = woken /\ sends' = sends /\ pc \in {"back", "idle"}
  BY Zenon DEF BackToRunning, AnswerOrExpire, running, world, history, bounds
<1>2. perm' \in [Perms -> {"unasked", "event", "open", "orphan", "closed"}]
  BY Zenon DEF TypeOK, BackToRunning, AnswerOrExpire
<1>3. row \in Rows /\ work.kind = "none" /\ TurnHeld' /\ "running" \in States /\ "running" \notin Terminal
  BY <1>1, SameTurns, StatesApart, Zenon DEF TypeOK, SInv, Unclaimed
<1>4. CASE row' = row /\ pc' = "back" /\ saw' = row
  <2>1. TypeOK' BY <1>1, <1>2, <1>3, <1>4, Zenon DEF TypeOK
  <2>2. RowHeld' /\ PauseHeld' BY <1>1, <1>4, Zenon DEF SInv, RowHeld, PauseHeld
  <2> QED BY <1>1, <1>3, <1>4, <2>1, <2>2, ToBack, Zenon
<1>5. CASE row' = Back(row) /\ pc = "back" /\ pc' = "idle" /\ saw' = NoRow
  <2>1. row' = row \/ (row' = SetState(row, "running") /\ saw.state # "paused") BY <1>5, Zenon DEF Back
  <2>2. row.turn \in BOOLEAN BY <1>3 DEF Rows
  <2>3. row' = row \/ (row' \in Rows /\ row'.state = "running" /\ row'.turn = row.turn /\ ~Ended(row))
    BY <1>3, <2>1, <2>2, SetStateIs
  <2>4. TypeOK' BY <1>1, <1>2, <1>3, <1>5, <2>3, Zenon DEF TypeOK
  <2>5. RowHeld' /\ PauseHeld' BY <1>1, <2>3, Zenon DEF SInv, RowHeld, PauseHeld
  <2> QED BY <1>1, <1>3, <1>5, <2>4, <2>5, ToIdle, Zenon
<1> QED BY <1>4, <1>5, Zenon DEF BackToRunning, AnswerOrExpire

\* Suspended between turns, or left ended.
LEMMA SuspendIs ==
    ASSUME NEW why \in {"none", "waits"}, SuspendAs(why), row \in Rows
    PROVE  /\ row' \in Rows /\ (Ended(row') \/ row'.state = "suspended")
           /\ pc' = "teardown" /\ saw' = NoRow /\ work' = NoWork
<1>1. "suspended" \in States BY StatesApart, Zenon
<1>2. (row' = row /\ Ended(row)) \/ row' = [row EXCEPT !.state = "suspended", !.turn = FALSE, !.why = why]
  BY Zenon DEF SuspendAs
<1>3. row' \in Rows /\ (Ended(row') \/ row'.state = "suspended") BY <1>1, <1>2, Zenon DEF Rows, Ended
<1> QED BY <1>3, Zenon DEF SuspendAs

\* A command is taken.
LEMMA CommandsKeep ==
    ASSUME TypeOK, SInv, TakeKill \/ TakeSuspend \/ TakeEnd \/ (\E reason \in {"item", "phase"} : TakeEndAfterTurn(reason))
    PROVE  TypeOK' /\ SInv'
<1>1. /\ queue' = queue /\ perm' = perm /\ wait' = wait /\ timers' = timers /\ turn' = turn
      /\ harness' = harness /\ stop' = stop /\ item' = item /\ was' = was /\ told' = told
      /\ woken' = woken /\ sends' = sends /\ pc = "idle" /\ mail' \subseteq mail
  BY Zenon DEF TakeKill, TakeSuspend, TakeEnd, TakeEndAfterTurn, running, world, history, bounds
<1>2. row \in Rows /\ sup \in Memories /\ work.kind = "none" /\ "closed" \in Terminal
  BY <1>1, StatesApart, Zenon DEF TypeOK, SInv, Unclaimed
<1>3. PICK e \in {"none", "item", "phase"} : sup' = sup \/ sup' = [sup EXCEPT !.endAfter = e]
  BY Zenon DEF TakeKill, TakeSuspend, TakeEnd, TakeEndAfterTurn
<1>4. sup' \in Memories /\ sup'.active = sup.active /\ sup'.paused = sup.paused BY <1>2, <1>3 DEF Memories
<1>5. TurnHeld' BY <1>1, <1>4, SameTurns, Zenon
<1>6. CASE Shutdown(row, "closed")
  <2>1. row' \in Rows /\ Ended(row') /\ pc' = "teardown" /\ saw' = NoRow /\ work' = NoWork
    BY <1>2, <1>6, ShutdownIs, Zenon
  <2>2. TypeOK' BY <1>1, <1>4, <2>1, FreshTyped, Zenon DEF TypeOK
  <2>3. RowHeld' BY <2>1, Zenon DEF RowHeld
  <2> QED BY <1>5, <2>1, <2>2, <2>3, FreshTyped, ToTeardown, Zenon
<1>7. CASE sup.active = 0 /\ \E why \in {"none", "waits"} : SuspendAs(why)
  <2>1. /\ row' \in Rows /\ (Ended(row') \/ row'.state = "suspended")
        /\ pc' = "teardown" /\ saw' = NoRow /\ work' = NoWork
    BY <1>2, <1>7, SuspendIs, Zenon
  <2>2. TypeOK' BY <1>1, <1>4, <2>1, FreshTyped, ZenonT(40) DEF TypeOK
  <2>3. RowHeld' BY <1>4, <1>7, Zenon DEF RowHeld
  <2> QED BY <1>4, <1>5, <1>7, <2>1, <2>2, <2>3, FreshTyped, ToTeardown, Zenon
<1>8. CASE row' = row /\ pc' = pc /\ saw' = saw /\ work' = work
  <2>1. TypeOK' BY <1>1, <1>4, <1>8, Zenon DEF TypeOK
  <2>2. RowHeld' /\ PauseHeld' BY <1>4, <1>8, Zenon DEF SInv, RowHeld, PauseHeld
  <2> QED BY <1>1, <1>2, <1>5, <1>8, <2>1, <2>2, ToIdle, Zenon
<1>9. CASE row' = row /\ Settling(sup', row, perm)
  <2>1. /\ work' = NoWork
        /\ \/ pc' = "settle" /\ saw' = row /\ sup'.active = 0 /\ row.state # "paused"
           \/ pc' = "idle" /\ saw' = NoRow
    BY <1>9, LooksKeep, Zenon
  <2>2. TypeOK' BY <1>1, <1>2, <1>4, <1>9, <2>1, FreshTyped, ZenonT(40) DEF TypeOK
  <2>3. RowHeld' /\ PauseHeld' BY <1>4, <1>9, Zenon DEF SInv, RowHeld, PauseHeld
  <2> QED BY <1>5, <1>9, <2>1, <2>2, <2>3, FreshTyped, ToIdle, ToSettle, Zenon
<1>10. TakeKill => Shutdown(row, "closed") BY Zenon DEF TakeKill
<1> QED BY <1>6, <1>7, <1>8, <1>9, <1>10, Zenon DEF TakeSuspend, TakeEnd, TakeEndAfterTurn, step

-----------------------------------------------------------------------------
(* Every step *)

\* A session starts with nothing under way.
LEMMA InitSInv == Init => TypeOK /\ SInv
<1> SUFFICES ASSUME Init PROVE TypeOK /\ SInv OBVIOUS
<1>1. row \in Rows /\ row.state = "starting" BY StatesApart, Zenon DEF Init, NoRow, Rows
<1>2. /\ saw = NoRow /\ work = NoWork /\ sup = Fresh /\ turn = NoTurns /\ pc = "starting" /\ timers = {}
      /\ queue = << >> /\ told = << >> /\ sends = 0 /\ woken = FALSE /\ was = "failed" /\ mail = {}
      /\ perm = [p \in Perms |-> "unasked"] /\ wait = [w \in Waits |-> "none"] /\ harness = "dead"
      /\ stop = "idle" /\ item = "open"
  BY Zenon DEF Init
<1>3. queue \in Seq(1..MaxSends) /\ told \in Seq(1..MaxSends) /\ sends \in 0..MaxSends
  BY <1>2, ConstAssumption DEF ConstAssumption
<1>4. /\ perm \in [Perms -> {"unasked", "event", "open", "orphan", "closed"}]
      /\ wait \in [Waits -> {"none", "open", "cleared", "decided", "told"}]
      /\ was \in Terminal \cup {"suspended"}
  BY <1>2, StatesApart, Zenon
<1>5. TypeOK BY <1>1, <1>2, <1>3, <1>4, FreshTyped, ZenonT(40) DEF TypeOK
<1>6. row.state \notin Live /\ row.state # "paused" BY <1>1, StatesApart, Zenon
<1>7. SInv
  BY <1>2, <1>6, FreshTyped, Zenon
     DEF SInv, AtRest, AtEnd, AtDispatch, AtSettle, AtBack, Unclaimed, RowHeld, PauseHeld, TurnHeld
<1> QED BY <1>5, <1>7

\* Every step keeps the row, the supervisor and the turns together.
LEMMA NextSInv == TypeOK /\ SInv /\ [Next]_vars => TypeOK' /\ SInv'
<1> SUFFICES ASSUME TypeOK, SInv, [Next]_vars PROVE TypeOK' /\ SInv' OBVIOUS
<1>1. CASE Sweep \/ (\E p \in Perms : AsksPermission(p)) BY <1>1, RequestsKeep, Zenon
<1>2. CASE AsksQuestion \/ Decides \/ PollsStatus \/ CheckFinishes BY <1>2, WaitsKeep, Zenon
<1>3. CASE BeginsCheck \/ CheckClears BY <1>3, ChecksKeep, Zenon
<1>4. CASE ToolDelivers BY <1>4, ToolKeeps, Zenon
<1>5. CASE HarnessDies \/ (\E t \in Turns : TurnEnds(t)) BY <1>5, HarnessKeeps, Zenon
<1>6. CASE StopSends \/ SuspendIdle \/ NodeStops \/ ResumeRefused BY <1>6, MailKeeps, Zenon
<1>7. CASE StopFence \/ StopCloses \/ EndClosedSuspended \/ CarryOn \/ (\E reason \in {"item", "phase"} : EndAfterTurn(reason))
  BY <1>7, EndsKeep, Zenon
<1>8. CASE RaiseBudget \/ (\E p \in Perms : OnPermission(p)) BY <1>8, BudgetKeeps, PermissionKeeps, Zenon
<1>9. CASE Ask \/ StartFails \/ Handoff \/ ClaimRunning BY <1>9, StartsKeep, Zenon
<1>10. CASE Teardown \/ Finish \/ Restart BY <1>10, TeardownKeeps, RestartKeeps, Zenon
<1>11. CASE DispatchStarts \/ DispatchRefused BY <1>11, StartsTurn, RefusesTurn, Zenon
<1>12. CASE Prompt \/ Compact BY <1>12, PromptKeeps, Zenon
<1>13. CASE SettleWaits \/ SettleGoesOn \/ Tick BY <1>13, SettleKeeps, TickKeeps, Zenon
<1>14. CASE Pause \/ Resume \/ QuiesceTimeout BY <1>14, PauseKeeps, ResumeKeeps, QuiesceKeeps, Zenon
<1>15. CASE Exited \/ (\E t \in Turns : TurnDone(t)) BY <1>15, ExitedKeeps, TurnDoneKeeps, Zenon
<1>16. CASE BackToRunning \/ (\E p \in Perms : AnswerOrExpire(p)) BY <1>16, AnswersKeep, Zenon
<1>17. CASE TakeKill \/ TakeSuspend \/ TakeEnd \/ (\E reason \in {"item", "phase"} : TakeEndAfterTurn(reason))
  BY <1>17, CommandsKeep, Zenon
<1>18. CASE UNCHANGED vars
  <2>1. /\ row' = row /\ queue' = queue /\ perm' = perm /\ wait' = wait /\ pc' = pc /\ saw' = saw /\ work' = work
        /\ sup' = sup /\ timers' = timers /\ turn' = turn /\ harness' = harness /\ mail' = mail
        /\ stop' = stop /\ item' = item /\ was' = was /\ told' = told /\ woken' = woken /\ sends' = sends
    BY <1>18, Zenon DEF vars, memory, step, running, world, history, bounds
  <2>2. TypeOK' BY <2>1 DEF TypeOK
  <2> QED BY <2>1, <2>2, BesideRow, Zenon
<1> QED BY <1>1, <1>2, <1>3, <1>4, <1>5, <1>6, <1>7, <1>8, <1>9, <1>10, <1>11, <1>12, <1>13, <1>14, <1>15,
           <1>16, <1>17, <1>18, ZenonT(40) DEF Next, NodeStep

\* The row, the supervisor and the turns stay together.
LEMMA Held == Spec => [](TypeOK /\ SInv)
BY InitSInv, NextSInv, PTL DEF Spec

\* One conversation, one turn at a time (dispatch, reopenable), for any number of
\* turns outstanding, relaunches and events.
THEOREM OneTurnAtATime == Spec => []TurnsDoNotOverlap
<1>1. TypeOK /\ SInv => TurnsDoNotOverlap BY Zenon DEF SInv, TurnHeld, TurnsDoNotOverlap, Working
<1> QED BY <1>1, Held, PTL

\* A row that says a session is live has a supervisor behind it (finish_unexpected,
\* terminate, reconcile_after_restart), but where a check settled over it.
THEOREM LiveIsSupervised == Spec => []RunningHasSupervisor
<1>1. TypeOK /\ SInv => RunningHasSupervisor BY Zenon DEF SInv, AtRest, RunningHasSupervisor, Supervised
<1> QED BY <1>1, Held, PTL

-----------------------------------------------------------------------------
(* The order of messages *)

\* Two runs of messages, one after the other.
LEMMA JoinIs ==
    ASSUME NEW s \in Seq(1..MaxSends), NEW u \in Seq(1..MaxSends), NEW v \in Seq(1..MaxSends), NEW n \in Nat
    PROVE  /\ Ascends(s) /\ Ascends(u) /\ Before(s, u) => Ascends(s \o u)
           /\ Below(s, n) /\ Below(u, n) => Below(s \o u, n)
           /\ Before(s, v) /\ Before(u, v) => Before(s \o u, v)
           /\ s \o << >> = s /\ << >> \o s = s
<1>1. ASSUME Ascends(s), Ascends(u), Before(s, u) PROVE Ascends(s \o u)
  <2> SUFFICES ASSUME NEW i \in DOMAIN (s \o u), NEW j \in DOMAIN (s \o u), i < j
               PROVE  (s \o u)[i] < (s \o u)[j]
    BY DEF Ascends
  <2>1. CASE j <= Len(s) BY <1>1, <2>1 DEF Ascends
  <2>2. CASE i <= Len(s) /\ j > Len(s)
    <3>1. (s \o u)[i] = s[i] /\ i \in DOMAIN s BY <2>2
    <3>2. (s \o u)[j] = u[j - Len(s)] /\ j - Len(s) \in DOMAIN u BY <2>2
    <3> QED BY <1>1, <3>1, <3>2 DEF Before
  <2>3. CASE i > Len(s)
    <3>1. (s \o u)[i] = u[i - Len(s)] /\ i - Len(s) \in DOMAIN u BY <2>3
    <3>2. (s \o u)[j] = u[j - Len(s)] /\ j - Len(s) \in DOMAIN u BY <2>3
    <3> QED BY <1>1, <3>1, <3>2 DEF Ascends
  <2> QED BY <2>1, <2>2, <2>3
<1>2. Below(s, n) /\ Below(u, n) => Below(s \o u, n) BY DEF Below
<1>3. Before(s, v) /\ Before(u, v) => Before(s \o u, v) BY DEF Before
<1>4. s \o << >> = s /\ << >> \o s = s OBVIOUS
<1> QED BY <1>1, <1>2, <1>3, <1>4

\* The next message, after those before it.
LEMMA NextIs ==
    ASSUME NEW n \in Nat, NEW s \in Seq(1..MaxSends), Below(s, n), NEW u \in Seq(1..MaxSends), Below(u, n)
    PROVE  /\ Below(s, n + 1) /\ Before(s, <<n + 1>>)
           /\ Ascends(s) => Ascends(Append(s, n + 1))
           /\ Below(Append(s, n + 1), n + 1)
           /\ Before(u, s) => Before(u, Append(s, n + 1))
<1>0. /\ \A i \in DOMAIN s : s[i] \in Nat /\ s[i] < n + 1
      /\ \A i \in DOMAIN u : u[i] \in Nat /\ u[i] < n + 1
  BY ConstAssumption DEF ConstAssumption, Below
<1> DEFINE m == n + 1
           a == Append(s, m)
<1>1. Below(s, m) /\ Before(s, <<m>>) BY <1>0 DEF Below, Before
<1>2. \A i \in DOMAIN a : (i \in DOMAIN s /\ a[i] = s[i]) \/ (i = Len(s) + 1 /\ a[i] = m) OBVIOUS
<1>3. \A i \in DOMAIN s : i < Len(s) + 1 /\ i \in Nat OBVIOUS
<1>4. m \in Nat /\ Len(s) \in Nat OBVIOUS
<1> HIDE DEF a
<1>5. ASSUME Ascends(s) PROVE Ascends(a)
  <2> SUFFICES ASSUME NEW i \in DOMAIN a, NEW j \in DOMAIN a, i < j PROVE a[i] < a[j] BY DEF Ascends
  <2>1. i \in DOMAIN s /\ a[i] = s[i] BY <1>2, <1>3, <1>4
  <2>2. CASE j \in DOMAIN s /\ a[j] = s[j] BY <1>5, <2>1, <2>2 DEF Ascends
  <2>3. CASE a[j] = m BY <1>0, <2>1, <2>3
  <2> QED BY <1>2, <2>2, <2>3
<1>6. Below(a, m) BY <1>0, <1>2, <1>4 DEF Below
<1>7. ASSUME Before(u, s) PROVE Before(u, a) BY <1>0, <1>2, <1>7 DEF Before
<1> QED BY <1>1, <1>5, <1>6, <1>7 DEF a

\* Nothing comes before and after no message.
LEMMA NoneIs ==
    ASSUME NEW s, NEW n
    PROVE  Before(s, << >>) /\ Before(<< >>, s) /\ Ascends(<< >>) /\ Below(<< >>, n)
BY DEF Before, Ascends, Below

\* The steps that move messages.
Carries == Prompt \/ DispatchStarts \/ DispatchRefused \/ SettleWaits \/ ToolDelivers

\* A step that moves none.
Leaves ==
    /\ queue' = queue /\ told' = told /\ sends' = sends
    /\ \/ pc' = pc /\ work' = work /\ saw' = saw
       \/ pc' = "none"
       \/ pc # "dispatch" /\ pc' # "dispatch"
       \/ pc # "dispatch" /\ work'.kind \notin {"queued", "prompt"} /\ work'.msgs = << >>

\* Every other step leaves them, and a turn being started with them.
LEMMA OthersLeave == [Next]_vars => Carries \/ Leaves
<1> SUFFICES ASSUME [Next]_vars PROVE Carries \/ Leaves OBVIOUS
<1>1. CASE \/ Sweep \/ (\E p \in Perms : AsksPermission(p) \/ OnPermission(p))
           \/ AsksQuestion \/ Decides \/ PollsStatus \/ CheckFinishes \/ BeginsCheck \/ CheckClears
  BY <1>1, Zenon DEF Leaves, Sweep, AsksPermission, OnPermission, AsksQuestion, Decides, PollsStatus, CheckFinishes,
                     BeginsCheck, CheckClears, memory, step, history, bounds
<1>2. CASE \/ HarnessDies \/ (\E t \in Turns : TurnEnds(t)) \/ StopSends \/ SuspendIdle \/ NodeStops \/ ResumeRefused
           \/ RaiseBudget \/ Pause \/ Resume \/ StopFence \/ StopCloses \/ EndClosedSuspended \/ CarryOn
           \/ (\E reason \in {"item", "phase"} : EndAfterTurn(reason))
  BY <1>2, Zenon DEF Leaves, HarnessDies, TurnEnds, StopSends, SuspendIdle, NodeStops, ResumeRefused, RaiseBudget,
                     Pause, Resume, StopFence, StopCloses, EndClosedSuspended, CarryOn, EndAfterTurn,
                     memory, step, history, bounds
<1>3. CASE Ask \/ StartFails \/ Handoff \/ ClaimRunning \/ Teardown \/ Finish \/ Restart
  BY <1>3, Zenon DEF Leaves, Ask, Reopenable, StartFails, Handoff, ClaimRunning, Teardown, Finish, Gone, Restart,
                     history, bounds
<1>4. CASE Compact \/ Exited
  <2>1. \A k \in {"compact", "continue"} :
            [NoWork EXCEPT !.kind = k].kind \notin {"queued", "prompt"} /\ [NoWork EXCEPT !.kind = k].msgs = << >>
    BY DEF NoWork
  <2>2. CASE Compact BY <2>1, <2>2, Zenon DEF Leaves, Compact, Dispatching, history
  <2>3. CASE Exited
    <3>1. /\ queue' = queue /\ told' = told /\ sends' = sends /\ pc = "idle"
          /\ pc' \in {"idle", "finish"} \/ work' = [NoWork EXCEPT !.kind = "continue"]
      BY <2>3, Zenon DEF Exited, step, history, bounds
    <3> QED BY <2>1, <3>1, Zenon DEF Leaves
  <2> QED BY <1>4, <2>2, <2>3, Zenon
<1>5. CASE SettleGoesOn \/ Tick
  <2>1. queue' = queue /\ told' = told /\ sends' = sends /\ pc \in {"settled", "idle"} /\ pc' # "dispatch"
    BY <1>5, Zenon DEF SettleGoesOn, Tick, SettleRest, Shutdown, Settling, history, bounds
  <2> QED BY <2>1, Zenon DEF Leaves
<1>6. CASE QuiesceTimeout \/ TakeKill \/ TakeSuspend \/ TakeEnd \/ BackToRunning \/ (\E p \in Perms : AnswerOrExpire(p))
  <2>1. /\ queue' = queue /\ told' = told /\ sends' = sends
        /\ pc \in {"idle", "back"} /\ pc' \in {"idle", "back", "teardown"}
    BY <1>6, Zenon DEF QuiesceTimeout, TakeKill, TakeSuspend, TakeEnd, BackToRunning, AnswerOrExpire, SuspendAs,
                       Shutdown, step, history, bounds
  <2> QED BY <2>1, Zenon DEF Leaves
<1>7. CASE \E reason \in {"item", "phase"} : TakeEndAfterTurn(reason)
  <2>1. /\ queue' = queue /\ told' = told /\ sends' = sends
        /\ pc = "idle" /\ pc' \in {"idle", "settle", "teardown"}
    BY <1>7, Zenon DEF TakeEndAfterTurn, Settling, Shutdown, step, history, bounds
  <2> QED BY <2>1, Zenon DEF Leaves
<1>9. CASE \E t \in Turns : TurnDone(t)
  <2>1. queue' = queue /\ told' = told /\ sends' = sends /\ pc = "idle"
    BY <1>9, Zenon DEF TurnDone, history, bounds
  <2>2. ASSUME NEW t, NEW how, NEW r, NEW q, NEW s, AfterTurn(t, how, r, q, s)
        PROVE  pc' = "idle" \/ pc' = "settle" \/ pc' = "teardown"
    <3>1. \A x, y : Shutdown(x, y) => pc' = "teardown" BY Zenon DEF Shutdown
    <3>2. Settling(s, r, q) => pc' = "idle" \/ pc' = "settle" BY Zenon DEF Settling
    <3> QED BY <2>2, <3>1, <3>2, Zenon DEF AfterTurn
  <2>3. pc' \in {"idle", "settle", "teardown"} BY <1>9, <2>1, <2>2, Zenon DEF TurnDone, step
  <2> QED BY <2>1, <2>3, Zenon DEF Leaves
<1>8. CASE UNCHANGED vars BY <1>8, Zenon DEF Leaves, vars, memory, step, history, bounds
<1> QED BY <1>1, <1>2, <1>3, <1>4, <1>5, <1>6, <1>7, <1>8, <1>9, Zenon DEF Carries, Next, NodeStep

\* A step that moves no message keeps their order.
LEMMA LeavesKeep ==
    ASSUME QInv, Leaves
    PROVE  QInv'
BY Zenon DEF QInv, Leaves

\* The messages are the agent's,
LEMMA StartsInOrder ==
    ASSUME TypeOK, QInv, DispatchStarts
    PROVE  QInv'
<1>1. /\ queue' = queue /\ sends' = sends /\ pc = "dispatch" /\ pc' = "idle" /\ told' = told \o work.msgs
      /\ TakesTurn(saw)
  BY Zenon DEF DispatchStarts, bounds
<1>2. queue \in Seq(1..MaxSends) /\ told \in Seq(1..MaxSends) /\ work.msgs \in Seq(1..MaxSends) /\ sends \in Nat
  BY DEF TypeOK, Works
<1>3. /\ Ascends(told) /\ Ascends(queue) /\ Before(told, queue) /\ Below(told, sends) /\ Below(queue, sends)
  BY Zenon DEF QInv
<1>4. CASE work.kind = "queued"
  <2>1. queue = << >> /\ Ascends(work.msgs) /\ Before(told, work.msgs) /\ Below(work.msgs, sends)
    BY <1>1, <1>4, Zenon DEF QInv
  <2>2. Ascends(told \o work.msgs) /\ Below(told \o work.msgs, sends) BY <1>2, <1>3, <2>1, JoinIs, Zenon
  <2>3. Before(told', queue) BY <2>1, NoneIs, Zenon
  <2> QED BY <1>1, <1>3, <2>2, <2>3, Zenon DEF QInv
<1>5. CASE work.kind = "prompt"
  <2>1. saw.state \in {"running", "waiting_on_you"} /\ ~saw.turn BY <1>1, Zenon DEF TakesTurn, HeldBetweenTurns
  <2>2. queue = << >> /\ work.msgs = <<sends>> /\ Before(told, work.msgs) BY <1>1, <1>5, <2>1, Zenon DEF QInv
  <2>3. Ascends(work.msgs) /\ Below(work.msgs, sends) BY <1>2, <2>2 DEF Ascends, Below
  <2>4. Ascends(told \o work.msgs) /\ Below(told \o work.msgs, sends) BY <1>2, <1>3, <2>2, <2>3, JoinIs, Zenon
  <2>5. Before(told', queue) BY <2>2, NoneIs, Zenon
  <2> QED BY <1>1, <1>3, <2>4, <2>5, Zenon DEF QInv
<1>6. CASE work.kind \notin {"queued", "prompt"}
  <2>1. work.msgs = << >> BY <1>1, <1>6, Zenon DEF QInv
  <2>2. told' = told BY <1>1, <1>2, <2>1, JoinIs, Zenon
  <2> QED BY <1>1, <1>3, <2>2, Zenon DEF QInv
<1> QED BY <1>4, <1>5, <1>6, Zenon

\* are put back,
LEMMA RefusedInOrder ==
    ASSUME TypeOK, QInv, DispatchRefused
    PROVE  QInv'
<1>1. told' = told /\ sends' = sends /\ pc = "dispatch" /\ pc' # "dispatch" /\ queue' = ReleaseQueued
  BY Zenon DEF DispatchRefused, history, bounds
<1>2. queue \in Seq(1..MaxSends) /\ told \in Seq(1..MaxSends) /\ work.msgs \in Seq(1..MaxSends) BY DEF TypeOK, Works
<1>3. CASE work.kind = "queued"
  <2>1. queue = << >> /\ Ascends(work.msgs) /\ Before(told, work.msgs) /\ Below(work.msgs, sends)
    BY <1>1, <1>3, Zenon DEF QInv
  <2>2. work.msgs \o << >> = work.msgs BY <1>2
  <2>3. queue' = work.msgs BY <1>1, <1>3, <2>1, <2>2, Zenon DEF ReleaseQueued
  <2> QED BY <1>1, <2>1, <2>3, Zenon DEF QInv
<1>4. CASE work.kind # "queued"
  <2>1. queue' = queue BY <1>1, <1>4, Zenon DEF ReleaseQueued
  <2> QED BY <1>1, <2>1, Zenon DEF QInv
<1> QED BY <1>3, <1>4, Zenon

\* are claimed between turns,
LEMMA SettleInOrder ==
    ASSUME TypeOK, QInv, SettleWaits
    PROVE  QInv'
<1>1. told' = told /\ sends' = sends /\ pc = "settle" BY Zenon DEF SettleWaits, history, bounds
<1>2. CASE queue' = queue /\ pc' # "dispatch" BY <1>1, <1>2, Zenon DEF QInv
<1>3. CASE /\ queue' = queue
           /\ work' = [NoWork EXCEPT !.kind = "decisions", !.waits = Untold, !.from = saw.state]
  <2>1. work'.kind \notin {"queued", "prompt"} /\ work'.msgs = << >> BY <1>3 DEF NoWork
  <2> QED BY <1>1, <1>3, <2>1, Zenon DEF QInv
<1>4. CASE /\ queue' = << >>
           /\ work' = [NoWork EXCEPT !.kind = "queued", !.msgs = queue, !.from = saw.state, !.held = OpenWaits # {}]
  <2>1. work'.kind = "queued" /\ work'.msgs = queue BY <1>4 DEF NoWork
  <2>2. Ascends(queue') /\ Before(told, queue') /\ Below(queue', sends) BY <1>4, NoneIs, Zenon
  <2>3. work'.kind # "prompt" BY <2>1
  <2> QED BY <1>1, <1>4, <2>1, <2>2, <2>3, Zenon DEF QInv
<1> QED BY <1>2, <1>3, <1>4, Zenon DEF SettleWaits, SettleRest, Shutdown, Dispatching

\* go with a tool's result,
LEMMA ToolInOrder ==
    ASSUME TypeOK, QInv, ToolDelivers
    PROVE  QInv'
<1>1. /\ queue # << >> /\ told' = told \o queue /\ queue' = << >> /\ sends' = sends
      /\ pc' = pc /\ work' = work /\ saw' = saw
  BY Zenon DEF ToolDelivers, memory, step, bounds
<1>2. queue \in Seq(1..MaxSends) /\ told \in Seq(1..MaxSends) /\ work.msgs \in Seq(1..MaxSends) /\ sends \in Nat
  BY DEF TypeOK, Works
<1>3. Ascends(told') /\ Below(told', sends) BY <1>1, <1>2, JoinIs, Zenon DEF QInv
<1>4. Ascends(queue') /\ Before(told', queue') /\ Below(queue', sends) BY <1>1, NoneIs, Zenon
<1>5. ~(pc = "dispatch" /\ work.kind = "queued") BY <1>1, Zenon DEF QInv
<1>6. pc = "dispatch" /\ work.kind = "prompt" => Before(told', work.msgs) /\ Before(queue', work.msgs)
  BY <1>1, <1>2, JoinIs, NoneIs, ZenonT(40) DEF QInv
<1> QED BY <1>1, <1>3, <1>4, <1>5, <1>6, Zenon DEF QInv

\* and are sent: the newest goes last.
LEMMA PromptInOrder ==
    ASSUME TypeOK, SInv, QInv, Prompt
    PROVE  QInv'
<1>1. told' = told /\ sends' = sends + 1 /\ pc = "idle" BY Zenon DEF Prompt, history
<1>2. queue \in Seq(1..MaxSends) /\ told \in Seq(1..MaxSends) /\ sends \in Nat BY DEF TypeOK
<1>3. Below(told, sends) /\ Below(queue, sends) /\ Ascends(told) /\ Ascends(queue) /\ Before(told, queue)
  BY Zenon DEF QInv
<1>4. /\ Below(told, sends') /\ Below(queue, sends')
      /\ Before(told, <<sends'>>) /\ Before(queue, <<sends'>>)
      /\ Ascends(Append(queue, sends')) /\ Below(Append(queue, sends'), sends')
      /\ Before(told, Append(queue, sends'))
  BY <1>1, <1>2, <1>3, NextIs
<1>5. CASE /\ ~Queues(row) /\ pc' = "dispatch" /\ saw' = row /\ queue' = queue
           /\ work' = [NoWork EXCEPT !.kind = "prompt", !.msgs = <<sends + 1>>]
  <2>1. work'.kind = "prompt" /\ work'.kind # "queued" /\ work'.msgs = <<sends'>> BY <1>1, <1>5 DEF NoWork
  <2>2. row.state \in {"running", "waiting_on_you"} => queue = << >> BY <1>5, Zenon DEF Queues
  <2> QED BY <1>1, <1>3, <1>4, <1>5, <2>1, <2>2, Zenon DEF QInv
<1>6. CASE queue' = Append(queue, sends + 1) /\ pc' = pc
  <2>1. pc' # "dispatch" /\ queue' = Append(queue, sends') BY <1>1, <1>6, Zenon
  <2> QED BY <1>1, <1>3, <1>4, <2>1, Zenon DEF QInv
<1>7. CASE /\ queue' = << >> /\ work' = [NoWork EXCEPT !.kind = "queued", !.msgs = Append(queue, sends + 1)]
  <2>1. work'.kind = "queued" /\ work'.kind # "prompt" /\ work'.msgs = Append(queue, sends') BY <1>1, <1>7 DEF NoWork
  <2>2. Ascends(queue') /\ Before(told, queue') /\ Below(queue', sends') BY <1>7, NoneIs, Zenon
  <2> QED BY <1>1, <1>3, <1>4, <1>7, <2>1, <2>2, Zenon DEF QInv
<1> QED BY <1>5, <1>6, <1>7, Zenon DEF Prompt, Dispatching, step

\* Every step keeps the order of messages.
LEMMA NextQInv == TypeOK /\ SInv /\ QInv /\ [Next]_vars => QInv'
<1> SUFFICES ASSUME TypeOK, SInv, QInv, [Next]_vars PROVE QInv' OBVIOUS
<1>1. Carries \/ Leaves BY OthersLeave, Zenon
<1> QED BY <1>1, LeavesKeep, StartsInOrder, RefusedInOrder, SettleInOrder, ToolInOrder, PromptInOrder, Zenon DEF Carries

\* What the operator said arrives in the order they said it, and no message twice
\* (on_operator_prompt, claim_queued_prompts, release_queued_prompts), for any number
\* of messages.
THEOREM MessagesInOrder == Spec => []InOrderOnce
<1>1. Init => QInv
  <2> SUFFICES ASSUME Init PROVE QInv OBVIOUS
  <2>1. told = << >> /\ queue = << >> /\ pc = "starting" BY Zenon DEF Init
  <2> QED BY <2>1, NoneIs, Zenon DEF QInv
<1>2. QInv => InOrderOnce BY Zenon DEF QInv, Ascends, InOrderOnce
<1> QED BY <1>1, <1>2, Held, NextQInv, PTL DEF Spec

-----------------------------------------------------------------------------
(* Nothing taken for the agent is dropped *)

\* What two runs of messages hold.
LEMMA RangeIs ==
    ASSUME NEW s \in Seq(1..MaxSends), NEW u \in Seq(1..MaxSends)
    PROVE  Range(s) \subseteq Range(s \o u) /\ Range(u) \subseteq Range(s \o u)
<1>1. ASSUME NEW i \in DOMAIN s PROVE s[i] \in Range(s \o u)
  <2>1. i \in DOMAIN (s \o u) /\ (s \o u)[i] = s[i] OBVIOUS
  <2> QED BY <2>1, Zenon DEF Range
<1>2. ASSUME NEW i \in DOMAIN u PROVE u[i] \in Range(s \o u)
  <2>1. Len(s) + i \in DOMAIN (s \o u) /\ (s \o u)[Len(s) + i] = u[i] OBVIOUS
  <2> QED BY <2>1, Zenon DEF Range
<1> QED BY <1>1, <1>2, Zenon DEF Range

\* What a queue holds with one message more.
LEMMA AppendHolds ==
    ASSUME NEW s \in Seq(1..MaxSends), NEW n \in 1..MaxSends
    PROVE  Range(s) \subseteq Range(Append(s, n))
<1>1. ASSUME NEW i \in DOMAIN s PROVE s[i] \in Range(Append(s, n))
  <2>1. i \in DOMAIN Append(s, n) /\ Append(s, n)[i] = s[i] OBVIOUS
  <2> QED BY <2>1, Zenon DEF Range
<1> QED BY <1>1, Zenon DEF Range

\* A message queued or claimed stays so or is given to the agent, but where the process
\* is gone between the claim and the turn (deliver_queued, release_queued_prompts).
THEOREM NothingDropped == Spec => HeldNeverDropped
<1> DEFINE A == \/ Range(queue) \cup Claimed \subseteq Range(queue') \cup Claimed' \cup Range(told')
                \/ pc = "dispatch" /\ pc' = "none"
<1>1. TypeOK /\ SInv /\ [Next]_vars => [A]_vars
  <2> SUFFICES ASSUME TypeOK, SInv, [Next]_vars PROVE A OBVIOUS
  <2>1. Carries \/ Leaves BY OthersLeave, Zenon
  <2>2. queue \in Seq(1..MaxSends) /\ told \in Seq(1..MaxSends) /\ work.msgs \in Seq(1..MaxSends)
    BY DEF TypeOK, Works
  <2>3. pc # "dispatch" => Claimed = {} BY Zenon DEF SInv, Unclaimed, Claimed
  <2>4. CASE Leaves
    <3>1. queue' = queue BY <2>4, Zenon DEF Leaves
    <3>2. CASE work' = work BY <3>1, <3>2, Zenon DEF Claimed
    <3>3. CASE pc # "dispatch" BY <2>3, <3>1, <3>3, Zenon
    <3> QED BY <2>4, <3>1, <3>2, <3>3, Zenon DEF Leaves
  <2>5. CASE DispatchStarts
    <3>1. queue' = queue /\ told' = told \o work.msgs BY <2>5, Zenon DEF DispatchStarts
    <3>2. Range(work.msgs) \subseteq Range(told') BY <2>2, <3>1, RangeIs, Zenon
    <3> QED BY <3>1, <3>2, Zenon DEF Claimed
  <2>6. CASE DispatchRefused
    <3>1. queue' = ReleaseQueued BY <2>6, Zenon DEF DispatchRefused
    <3>2. CASE work.kind # "queued"
      BY <3>1, <3>2, Zenon DEF ReleaseQueued, Claimed
    <3>3. CASE work.kind = "queued"
      <4>1. queue' = work.msgs \o queue BY <3>1, <3>3, Zenon DEF ReleaseQueued
      <4>2. Range(queue) \subseteq Range(queue') /\ Range(work.msgs) \subseteq Range(queue')
        BY <2>2, <4>1, RangeIs
      <4> QED BY <4>2, Zenon DEF Claimed
    <3> QED BY <3>2, <3>3, Zenon
  <2>7. CASE SettleWaits
    <3>1. pc = "settle" BY <2>7, Zenon DEF SettleWaits
    <3>2. CASE queue' = queue BY <2>3, <3>1, <3>2, Zenon
    <3>3. CASE work' = [NoWork EXCEPT !.kind = "queued", !.msgs = queue, !.from = saw.state, !.held = OpenWaits # {}]
      <4>1. work'.kind = "queued" /\ work'.msgs = queue BY <3>3 DEF NoWork
      <4> QED BY <2>3, <3>1, <4>1, Zenon DEF Claimed
    <3> QED BY <2>7, <3>2, <3>3, Zenon DEF SettleWaits, Dispatching
  <2>8. CASE ToolDelivers
    <3>1. work' = work /\ told' = told \o queue /\ queue # << >> BY <2>8, Zenon DEF ToolDelivers, memory, step
    <3>2. Range(queue) \subseteq Range(told') BY <2>2, <3>1, RangeIs
    <3> QED BY <3>1, <3>2, Zenon DEF Claimed
  <2>9. CASE Prompt
    <3>1. pc = "idle" /\ sends + 1 \in 1..MaxSends
      BY <2>9, ConstAssumption, SMTT(40) DEF Prompt, TypeOK, ConstAssumption
    <3>2. Range(queue) \subseteq Range(Append(queue, sends + 1)) BY <2>2, <3>1, AppendHolds, Zenon
    <3>3. CASE queue' = queue BY <2>3, <3>1, <3>3, Zenon
    <3>4. CASE queue' = Append(queue, sends + 1) BY <2>3, <3>1, <3>2, <3>4, Zenon
    <3>5. CASE work' = [NoWork EXCEPT !.kind = "queued", !.msgs = Append(queue, sends + 1)]
      <4>1. work'.kind = "queued" /\ work'.msgs = Append(queue, sends + 1) BY <3>5 DEF NoWork
      <4> QED BY <2>3, <3>1, <3>2, <4>1, Zenon DEF Claimed
    <3> QED BY <2>9, <3>3, <3>4, <3>5, Zenon DEF Prompt, Dispatching
  <2> HIDE DEF A
  <2> QED BY <2>1, <2>4, <2>5, <2>6, <2>7, <2>8, <2>9, Zenon DEF Carries
<1> QED BY <1>1, Held, PTL DEF Spec, HeldNeverDropped

-----------------------------------------------------------------------------
(* Fences *)

\* The row stays behind the fence it is behind.
Kept(q) ==
    /\ row.state = "paused" => q.state \in Terminal \cup {"paused", "suspended"}
    /\ Ended(row) => q.state \in Terminal

\* A row written behind the fence.
LEMMA KeptIs ==
    ASSUME row \in Rows
    PROVE  /\ \A q : q.state = row.state => Kept(q)
           /\ \A q : q.state \in Terminal => Kept(q)
           /\ \A q : ~Fenced(row) => Kept(q)
           /\ \A s \in Terminal \cup {"paused"}, r \in Rows : r.state = row.state => Kept(SetState(r, s))
           /\ \A s \in States : row.state # "paused" => Kept(SetState(row, s))
<1>1. /\ \A q : q.state = row.state => Kept(q)
      /\ \A q : q.state \in Terminal => Kept(q)
      /\ \A q : ~Fenced(row) => Kept(q)
  BY Zenon DEF Kept, Ended, Fenced
<1>2. ASSUME NEW s \in States, NEW r \in Rows, r.state = row.state, s \in Terminal \cup {"paused"} \/ row.state # "paused"
      PROVE  Kept(SetState(r, s))
  <2>1. CASE Ended(row)
    <3>1. SetState(r, s) = r BY <1>2, <2>1, SetStateIs, Zenon DEF Ended
    <3> QED BY <1>1, <1>2, <3>1, Zenon
  <2>2. CASE ~Ended(row)
    <3>1. SetState(r, s).state = s BY <1>2, <2>2, SetStateIs, Zenon DEF Ended
    <3> QED BY <1>2, <2>2, <3>1, Zenon DEF Kept
  <2> QED BY <2>1, <2>2
<1>3. \A s \in Terminal \cup {"paused"} : s \in States BY StatesApart, Zenon
<1> QED BY <1>1, <1>2, <1>3, Zenon

\* A turn settled, or the row paused, behind the fence.
LEMMA KeptPast ==
    ASSUME row \in Rows, NEW r \in Rows, r.state = row.state \/ ~Fenced(row)
    PROVE  /\ \A q \in Settled(r) : q \in Rows /\ q.state = r.state /\ Kept(q)
           /\ \A s \in Terminal \cup {"paused"} : Kept(SetState(r, s))
<1>1. ASSUME NEW q \in Settled(r) PROVE q \in Rows /\ q.state = r.state /\ Kept(q)
  BY <1>1, SettledIs, KeptIs, Zenon
<1>2. ASSUME NEW s \in Terminal \cup {"paused"} PROVE Kept(SetState(r, s)) BY <1>2, KeptIs, Zenon
<1> QED BY <1>1, <1>2, Zenon

\* What follows a completion leaves the row behind its fence.
LEMMA AfterTurnKept ==
    ASSUME row \in Rows, NEW t, NEW how, NEW r \in Rows, NEW q, NEW s, AfterTurn(t, how, r, q, s),
           r.state = row.state \/ ~Fenced(row)
    PROVE  Kept(row')
<1>1. CASE row' = r BY <1>1, KeptIs, Zenon
<1>2. CASE Shutdown(SetState(r, "paused"), "failed")
  <2>1. SetState(r, "paused") \in Rows /\ "failed" \in Terminal /\ "paused" \in States BY SetStateIs, StatesApart, Zenon
  <2>2. Ended(row') BY <1>2, <2>1, ShutdownIs, Zenon
  <2> QED BY <2>2, KeptIs, Zenon DEF Ended
<1>3. CASE \E why : Pausing(r, q, why)
  <2>1. PICK why : row' = [SetState(r, "paused") EXCEPT !.why = why] BY <1>3, Zenon DEF Pausing
  <2>2. SetState(r, "paused") \in Rows /\ Kept(SetState(r, "paused")) BY SetStateIs, StatesApart, KeptPast, Zenon
  <2>3. row'.state = SetState(r, "paused").state BY <2>1, <2>2, SMTT(40) DEF Rows
  <2> QED BY <2>2, <2>3, Zenon DEF Kept
<1>4. CASE Shutdown(r, "closed")
  <2>1. Ended(row') BY <1>4, StatesApart, ShutdownIs, Zenon
  <2> QED BY <2>1, KeptIs, Zenon DEF Ended
<1> QED BY <1>1, <1>2, <1>3, <1>4, Zenon DEF AfterTurn

\* A step keeps the row behind its fence, is the resume of a session whose turn has
\* settled, or asks an ended session again.
LEMMA FenceKept ==
    ASSUME TypeOK, SInv, Next
    PROVE  \/ Kept(row')
           \/ row.state = "paused" /\ row'.state = "running" /\ sup.paused = 0 /\ ~row.spent /\ Working = {}
           \/ row.state # "paused" /\ row'.state = "starting"
<1>1. row \in Rows BY Zenon DEF TypeOK
<1>2. CASE row' = row BY <1>1, <1>2, KeptIs, Zenon
<1>3. CASE \/ Sweep \/ (\E p \in Perms : AsksPermission(p)) \/ AsksQuestion \/ Decides \/ PollsStatus \/ CheckFinishes
           \/ ToolDelivers \/ HarnessDies \/ (\E t \in Turns : TurnEnds(t)) \/ StopSends \/ SuspendIdle \/ NodeStops
           \/ ResumeRefused \/ Handoff \/ Prompt \/ Compact \/ Tick \/ (\E p \in Perms : AnswerOrExpire(p))
  <2>1. row' = row
    BY <1>3, Zenon DEF Sweep, AsksPermission, AsksQuestion, Decides, PollsStatus, CheckFinishes, ToolDelivers,
                       HarnessDies, TurnEnds, StopSends, SuspendIdle, NodeStops, ResumeRefused, Handoff, Prompt,
                       Compact, Tick, AnswerOrExpire
  <2> QED BY <1>2, <2>1
<1>4. CASE BeginsCheck \/ CheckClears
  <2>1. PICK c \in BOOLEAN : row' = SetChecking(row, c) BY <1>4, Zenon DEF BeginsCheck, CheckClears
  <2>2. Fenced(row) => row' = row BY <1>1, <2>1, SetCheckingIs, Zenon
  <2> QED BY <1>1, <2>2, KeptIs, Zenon
<1>5. CASE \/ StopFence \/ StopCloses \/ EndClosedSuspended \/ CarryOn
           \/ (\E reason \in {"item", "phase"} : EndAfterTurn(reason))
  <2>1. \/ row' = row \/ row' = [row EXCEPT !.state = "closed", !.turn = FALSE] \/ row' = [row EXCEPT !.state = "closed"]
    BY <1>5, Zenon DEF StopFence, StopCloses, EndClosedSuspended, CarryOn, EndAfterTurn
  <2>2. "closed" \in Terminal /\ "closed" \in States BY StatesApart, Zenon
  <2>3. row' = row \/ row'.state = "closed"
    <3>1. CASE row' = [row EXCEPT !.state = "closed", !.turn = FALSE] BY <1>1, <2>2, <3>1, StateAndTurn, ZenonT(40)
    <3>2. CASE row' = [row EXCEPT !.state = "closed"] BY <1>1, <2>2, <3>2, StateWritten, Zenon
    <3> QED BY <2>1, <3>1, <3>2, Zenon
  <2> QED BY <1>1, <2>2, <2>3, KeptIs, Zenon
<1>6. CASE RaiseBudget
  <2>1. row'.state = row.state BY <1>1, <1>6 DEF RaiseBudget, Rows
  <2> QED BY <1>1, <2>1, KeptIs, Zenon
<1>7. CASE \E p \in Perms : OnPermission(p)
  BY <1>1, <1>7, KeptIs, Zenon DEF OnPermission
<1>8. CASE Ask
  <2>1. row' = [row EXCEPT !.state = "starting", !.turn = FALSE] /\ row.state \in Terminal \cup {"suspended"}
    BY <1>8, Zenon DEF Ask
  <2>2. row'.state = "starting" BY <1>1, <2>1, StateAndTurn, StatesApart, Zenon
  <2>3. row.state # "paused" BY <2>1, StatesApart, Zenon
  <2> QED BY <2>2, <2>3
<1>9. CASE StartFails \/ ClaimRunning
  <2>1. row' = row \/ row.state = "starting" BY <1>9, Zenon DEF StartFails, ClaimRunning
  <2>2. row.state = "starting" => ~Fenced(row) BY StatesApart, Zenon DEF Fenced, Ended
  <2> QED BY <1>1, <2>1, <2>2, KeptIs, Zenon
<1>10. CASE Teardown \/ Finish
  <2>1. PICK r \in Rows : Gone(r) /\ Kept(r)
    <3>1. \A q \in Settled(row) \cup {row} : q \in Rows /\ q.state = row.state /\ Kept(q) BY <1>1, KeptPast, KeptIs, Zenon
    <3>2. ASSUME NEW q \in Settled(row) \cup {row}
          PROVE  /\ SetState(q, IF q.spent THEN "killed_budget" ELSE "closed") \in Rows
                 /\ Kept(SetState(q, IF q.spent THEN "killed_budget" ELSE "closed"))
      <4>1. (IF q.spent THEN "killed_budget" ELSE "closed") \in Terminal
            /\ (IF q.spent THEN "killed_budget" ELSE "closed") \in States
        BY StatesApart, Zenon
      <4> QED BY <1>1, <3>1, <4>1, KeptPast, SetStateIs, Zenon
    <3>3. CASE \E r \in Settled(row) \cup {row} : Gone(r) BY <3>1, <3>3, Zenon
    <3>4. CASE \E r \in Settled(row) \cup {row} : Gone(SetState(r, IF r.spent THEN "killed_budget" ELSE "closed"))
      BY <3>2, <3>4, Zenon
    <3> QED BY <1>10, <3>3, <3>4, Zenon DEF Teardown, Finish
  <2>2. row' = r \/ row' = [r EXCEPT !.state = "closed"] BY <2>1, Zenon DEF Gone
  <2>3. "closed" \in Terminal /\ "closed" \in States BY StatesApart, Zenon
  <2>4. row' = r \/ row'.state = "closed" BY <2>2, <2>3, StateWritten, ZenonT(40)
  <2> QED BY <1>1, <2>1, <2>3, <2>4, KeptIs, Zenon
<1>11. CASE Restart
  <2>1. \/ row' = row
        \/ row' = [row EXCEPT !.state = "closed", !.turn = FALSE]
        \/ row.state \in {"running", "waiting_on_you"}
    BY <1>11, Zenon DEF Restart, Reconcile
  <2>2. "closed" \in Terminal /\ "closed" \in States BY StatesApart, Zenon
  <2>3. row.state \in {"running", "waiting_on_you"} => ~Fenced(row) BY StatesApart, Zenon DEF Fenced, Ended
  <2>4. ASSUME row' = [row EXCEPT !.state = "closed", !.turn = FALSE] PROVE row'.state = "closed"
    BY <1>1, <2>2, <2>4, StateAndTurn, ZenonT(40)
  <2> QED BY <1>1, <2>1, <2>2, <2>3, <2>4, KeptIs, Zenon
<1>12. CASE DispatchStarts
  <2>1. pc = "dispatch" /\ \E q \in {row, SetState(row, "running")} :
            row' = [q EXCEPT !.turn = TRUE] /\ (q = row \/ HeldBetweenTurns(saw))
    BY <1>12, Zenon DEF DispatchStarts
  <2>2. PICK q \in {row, SetState(row, "running")} :
            row' = [q EXCEPT !.turn = TRUE] /\ (q = row \/ HeldBetweenTurns(saw))
    BY <2>1, Zenon
  <2>3. q = row \/ row.state # "paused" BY <2>1, <2>2, Zenon DEF SInv, AtDispatch, HeldBetweenTurns
  <2>4. q \in Rows /\ Kept(q) BY <1>1, <2>3, KeptIs, SetStateIs, StatesApart, ZenonT(40)
  <2>5. row'.state = q.state BY <2>2, <2>4 DEF Rows
  <2> QED BY <2>4, <2>5, Zenon DEF Kept
<1>13. CASE DispatchRefused
  <2>1. row' = row \/ row' = Hold(row) BY <1>13, Zenon DEF DispatchRefused
  <2>2. row' = row \/ row.state = "running" BY <1>1, <2>1, HoldIs, Zenon
  <2>3. row.state = "running" => ~Fenced(row) BY StatesApart, Zenon DEF Fenced, Ended
  <2> QED BY <1>1, <2>2, <2>3, KeptIs, Zenon
<1>14. CASE SettleWaits \/ SettleGoesOn
  <2>1. row.state # "paused" BY <1>14, Zenon DEF SInv, AtSettle, SettleWaits, SettleGoesOn
  <2>2. \/ row' = row \/ row' = Hold(row) \/ row' = SetState(row, "running") \/ row' = SetState(row, "closed")
    BY <1>14, Zenon DEF SettleWaits, SettleGoesOn, SettleRest, Shutdown
  <2>3. row' = row \/ row.state = "running" \/ row' = SetState(row, "running") \/ row' = SetState(row, "closed")
    BY <1>1, <2>2, HoldIs, Zenon
  <2>4. row.state = "running" => ~Fenced(row) BY StatesApart, Zenon DEF Fenced, Ended
  <2> QED BY <1>1, <2>1, <2>3, <2>4, KeptIs, StatesApart, Zenon
<1>15. CASE Pause \/ QuiesceTimeout
  <2>1. row' = row \/ ~Fenced(row) \/ row' = SetState(row, "failed")
    BY <1>15, Zenon DEF Pause, QuiesceTimeout, Shutdown
  <2> QED BY <1>1, <2>1, KeptIs, StatesApart, Zenon
<1>16. CASE Resume
  <2>1. /\ row.state = "paused" /\ sup.paused = 0 /\ ~row.spent
        /\ row' = [SetState(row, "running") EXCEPT !.why = "none"]
    BY <1>16, Zenon DEF Resume, MayResume
  <2>2. ~Ended(row) BY <2>1, StatesApart, Zenon DEF Ended
  <2>3. SetState(row, "running") \in Rows /\ SetState(row, "running").state = "running"
    BY <1>1, <2>2, SetStateIs, StatesApart, Zenon
  <2>4. row'.state = "running" BY <2>1, <2>3 DEF Rows
  <2>5. sup.active = 0 BY <2>1, Zenon DEF SInv, PauseHeld
  <2> QED BY <2>1, <2>4, <2>5, NoneWorks, Zenon
<1>17. CASE \E t \in Turns : TurnDone(t)
  <2>1. PICK t \in Turns : TurnDone(t) BY <1>17, Zenon
  <2>2. CASE row' = row BY <1>2, <2>2
  <2>3. CASE row' \in Settled(row) BY <1>1, <2>3, KeptPast, Zenon
  <2>4. CASE \E r \in Settled(AfterDrain(row)) : \E s : AfterTurn(t, turn[t], r, Drained(row), s)
    <3>1. PICK r \in Settled(AfterDrain(row)) : \E s : AfterTurn(t, turn[t], r, Drained(row), s) BY <2>4, Zenon
    <3>2. AfterDrain(row) \in Rows /\ (AfterDrain(row) = row \/ ~Fenced(row))
      BY <1>1, SetStateIs, StatesApart, Zenon DEF AfterDrain
    <3>3. r \in Rows /\ (r.state = row.state \/ ~Fenced(row)) BY <3>2, SettledIs, Zenon
    <3> QED BY <1>1, <3>1, <3>3, AfterTurnKept, Zenon
  <2> QED BY <2>1, <2>2, <2>3, <2>4, Zenon DEF TurnDone
<1>18. CASE Exited
  <2>1. row' \in Settled(row) \cup {row} BY <1>18, Zenon DEF Exited
  <2> QED BY <1>1, <2>1, KeptPast, KeptIs, Zenon
<1>19. CASE BackToRunning
  <2>1. row' = row \/ (row' = SetState(row, "running") /\ pc = "back" /\ saw.state # "paused")
    BY <1>19, Zenon DEF BackToRunning, Back
  <2>2. row' = row \/ (row' = SetState(row, "running") /\ row.state # "paused") BY <2>1, Zenon DEF SInv, AtBack
  <2> QED BY <1>1, <2>2, KeptIs, StatesApart, Zenon
<1>20. CASE TakeKill \/ TakeSuspend \/ TakeEnd \/ (\E reason \in {"item", "phase"} : TakeEndAfterTurn(reason))
  <2>1. row' = row \/ row' = SetState(row, "closed") \/ \E why \in {"none", "waits"} : SuspendAs(why)
    BY <1>20, Zenon DEF TakeKill, TakeSuspend, TakeEnd, TakeEndAfterTurn, Shutdown
  <2>2. ASSUME NEW why \in {"none", "waits"}, SuspendAs(why) PROVE Kept(row')
    <3>1. CASE Ended(row) BY <1>1, <2>2, <3>1, KeptIs, Zenon DEF SuspendAs
    <3>2. CASE ~Ended(row)
      <4>1. Ended(row') \/ row'.state = "suspended" BY <1>1, <2>2, SuspendIs, Zenon
      <4> QED BY <3>2, <4>1, Zenon DEF Kept, Ended
    <3> QED BY <3>1, <3>2
  <2> QED BY <1>1, <2>1, <2>2, KeptIs, StatesApart, Zenon
<1> QED BY <1>3, <1>4, <1>5, <1>6, <1>7, <1>8, <1>9, <1>10, <1>11, <1>12, <1>13, <1>14, <1>15, <1>16, <1>17, <1>18,
           <1>19, <1>20, ZenonT(40) DEF Next, NodeStep

\* A paused session runs again only through resume, once the turn it interrupted has
\* settled and with budget left, and an ended one only by being asked again, whatever
\* arrives late (set_state, set_checking, update_session_unless).
THEOREM FencesHold == Spec => FenceHolds
<1> DEFINE A == /\ row.state = "paused" =>
                     \/ row'.state \in Terminal \cup {"paused", "suspended"}
                     \/ row'.state = "running" /\ sup.paused = 0 /\ ~row.spent /\ Working = {}
                /\ Ended(row) => row'.state \in Terminal \cup {"starting"}
<1>1. TypeOK /\ SInv /\ [Next]_vars => [A]_vars
  <2> SUFFICES ASSUME TypeOK, SInv, Next PROVE A OBVIOUS
  <2>1. \/ Kept(row')
        \/ row.state = "paused" /\ row'.state = "running" /\ sup.paused = 0 /\ ~row.spent /\ Working = {}
        \/ row.state # "paused" /\ row'.state = "starting"
    BY FenceKept, Zenon
  <2>2. row.state = "paused" => ~Ended(row) BY StatesApart, Zenon DEF Ended
  <2> QED BY <2>1, <2>2, Zenon DEF Kept
<1> QED BY <1>1, Held, PTL DEF Spec, FenceHolds

=============================================================================
