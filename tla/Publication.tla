----------------------------- MODULE Publication -----------------------------
(***************************************************************************)
(* Publishing an approved review: the claim on the review, the publication *)
(* record written before each side effect, the push, the change and its    *)
(* comment on the forge, retries and the operator's own settlement         *)
(* (node/src/authority.rs publish_review and reconcile_publication,        *)
(* node/src/review/publish.rs, node/src/store/publication.rs and the       *)
(* publish claims of node/src/store/mod.rs).                               *)
(*                                                                         *)
(* One review with a few revisions on one branch.  Requests run side by    *)
(* side, the node may stop between any two steps, the forge may fail to    *)
(* answer for what it did, and others use the branch too.                  *)
(***************************************************************************)
EXTENDS Integers, Sequences

CONSTANTS
    Tasks,        \* requests that can be under way at once
    Texts,        \* titles and descriptions an approval may carry
    MaxRevisions, MaxRequests,
    MaxBeside,    \* bound: requests past it arrive when no other is under way
    MaxFaults,    \* bound: stops of the node and answers the forge loses
    MaxOthers,    \* bound: what others do to the branch and its changes
    MaxTurns      \* bound: revisions and acts of others together

ASSUME ConstAssumption ==
    /\ MaxRevisions \in Nat \ {0}
    /\ {MaxRequests, MaxBeside, MaxFaults, MaxOthers, MaxTurns} \subseteq Nat
    /\ 0 \notin Texts

Nothing == 0
Revisions == 1 .. MaxRevisions
Other == MaxRevisions + 1      \* the commit others push
Commits == 1 .. Other          \* revision r is commit r
NoText == 0

\* Target: a first commit on the branch, a new change, or the number of one.
InitialCommit == -1
NewChange == 0

VARIABLES
    review,      \* the state of the review
    latest,      \* its latest revision
    target,      \* where it publishes
    intent,      \* per revision: what its push may replace, and whether it is forced
    line,        \* per commit: what it builds on, itself included
    row,         \* the publication record of each revision
    task,        \* the memory of each request
    branch,      \* the forge: what the branch holds,
    changes,     \* the changes opened from it, by number,
    opens,       \* history: how many of them each revision's publication opened,
    landed,      \* history: the commits the branch has held
    raced,       \* history: a claim taken beside another, or on a record that had moved on
    requests, faults, others

forge == <<branch, changes, opens, landed>>
bounds == <<requests, faults, others>>
vars == <<review, latest, target, intent, line, row, task, forge, raced, bounds>>

NoRow == [state |-> "none", mine |-> FALSE, contacted |-> FALSE, pushed |-> FALSE, text |-> NoText,
          change |-> 0]
Idle == [pc |-> "idle", how |-> "none", rev |-> 0, text |-> NoText, was |-> NoRow, stale |-> "none",
         resume |-> FALSE, had |-> FALSE, change |-> 0]

\* The claim is held from begin_publish to finish_publish, abort_publish or an
\* outcome that is unknown.
Held == {"begin", "authorize", "local", "change", "observe", "push", "confirm", "opening",
         "lookup", "open", "edit", "comment", "opened", "finish", "abort"}
Waiting == {"look", "claim", "ask", "recheck", "settle"}

States == {"none", "pending", "pushed", "opening", "opened", "failed", "uncertain"}
Rows == [state: States, mine: BOOLEAN, contacted: BOOLEAN, pushed: BOOLEAN, text: Texts \cup {NoText},
         change: Nat]
Requests == [pc: {"idle"} \cup Held \cup Waiting, how: {"none", "approve", "recover", "reconcile"},
             rev: 0 .. MaxRevisions, text: Texts \cup {NoText}, was: Rows,
             stale: {"none", "claimed", "publishing", "approved"}, resume: BOOLEAN, had: BOOLEAN,
             change: Nat]
Changes == [status: {"open", "merged", "closed"}, head: Commits, text: Texts \cup {NoText},
            notes: [Revisions -> Nat]]

\* The record, the claim and the forge's contents keep their shapes, and a task
\* that is not under way remembers nothing.
TypeOK ==
    /\ review \in {"claimed", "publishing", "approved"} /\ latest \in Revisions
    /\ target \in InitialCommit .. Len(changes)
    /\ branch \in Commits \cup {Nothing} /\ changes \in Seq(Changes)
    /\ opens \in [Revisions -> Nat] /\ landed \subseteq Revisions /\ raced \in BOOLEAN
    /\ row \in [Revisions -> Rows] /\ task \in [Tasks -> Requests]
    /\ \A r \in Revisions : row[r].state = "none" => row[r] = NoRow
    /\ \A t \in Tasks : task[t].pc = "idle" => task[t] = Idle

NoIntent == [lease |-> Nothing, rewrite |-> FALSE]

\* A review waits for its first decision, and its branch is not on the forge yet
\* (others may take the name at any time).
Init ==
    /\ review = "claimed" /\ latest = 1 /\ target \in {InitialCommit, NewChange}
    /\ intent = [r \in Revisions |-> NoIntent]
    /\ line = [c \in Commits |-> {c}]
    /\ row = [r \in Revisions |-> NoRow]
    /\ task = [t \in Tasks |-> Idle]
    /\ branch = Nothing /\ changes = <<>> /\ landed = {}
    /\ opens = [r \in Revisions |-> 0]
    /\ raced = FALSE /\ requests = 0 /\ faults = 0 /\ others = 0

Fault == faults < MaxFaults /\ faults' = faults + 1
At(t, pc) == task[t].pc = pc
Goes(t, pc) == task' = [task EXCEPT ![t].pc = pc]
Ends(t) == task' = [task EXCEPT ![t] = Idle]
Rev(t) == task[t].rev
IsUpdate == target > NewChange

Quiet == \A t \in Tasks : task[t].pc = "idle"

-----------------------------------------------------------------------------
(* The record *)

\* publication_set: the evidence of an earlier attempt is kept.
Set(r, state) == row' = [row EXCEPT ![r].state = state]
Pushed(r) == row' = [row EXCEPT ![r].state = "pushed", ![r].pushed = TRUE]

\* PublicationRow::outcome
Outcome(r) ==
    CASE row[r].state = "opened" -> "published"
      [] row[r].state = "uncertain" -> "uncertain"
      [] row[r].state = "failed" /\ ~row[r].contacted /\ ~row[r].pushed -> "not_attempted"
      [] row[r].state = "failed" /\ (row[r].contacted \/ row[r].pushed) -> "failed"
      [] row[r].state \in {"pending", "pushed", "opening"} /\ row[r].mine -> "in_progress"
      [] OTHER -> "uncertain"

Unsettled(r) == row[r] # NoRow /\ Outcome(r) \in {"not_attempted", "failed", "uncertain"}

FailedIsClean(was) == was # NoRow /\ was.state # "failed"

MayHaveReached(was) == was # NoRow /\ (was.state # "failed" \/ was.pushed)

-----------------------------------------------------------------------------
(* Requests, up to the claim *)

Asks(t, how, r, x, n) ==
    /\ At(t, "idle") /\ requests < MaxRequests /\ requests' = requests + 1
    /\ requests < MaxBeside \/ Quiet
    /\ task' = [task EXCEPT ![t] = [Idle EXCEPT
                    !.pc = IF how = "reconcile" THEN "ask" ELSE "look",
                    !.how = how, !.rev = r, !.text = x, !.stale = review, !.change = n]]
    /\ UNCHANGED <<review, latest, target, intent, line, row, forge, raced, faults, others>>

\* An approval, the operator's or a grant's, is of the revision it was decided on.
Approve(t, x) == review # "approved" /\ Asks(t, "approve", latest, x, 0)

\* recovery_refusal: a retry of a recorded attempt, with the text recorded.
MayRecover(r) == Unsettled(r) /\ review # "approved" /\ latest = r /\ row[r].text # NoText

Recover(t, r) == MayRecover(r) /\ Asks(t, "recover", r, row[r].text, 0)

\* reconcile_publication: the operator names the change they opened by hand.
Reconcile(t, r, n) ==
    /\ Unsettled(r) /\ review # "approved" /\ (IsUpdate => target = n)
    /\ Asks(t, "reconcile", r, row[r].text, n)

\* Snapshot, staleness, required checks, prose; then the record is read, before the
\* claim is taken.  A request refused here has changed nothing.
Look(t) ==
    /\ At(t, "look")
    /\ task' = [task EXCEPT ![t].pc = "claim", ![t].was = row[Rev(t)]]
    /\ UNCHANGED <<review, latest, target, intent, line, row, forge, raced, bounds>>

\* begin_publish, reclaim_publish: the revision is still the latest.
BeginPublish(r) == latest = r /\ review = "claimed"
ReclaimPublish(r) == latest = r /\ review = "publishing"

ClaimsAnyRevision(t) ==
    \/ review = "claimed"
    \/ /\ review = "publishing"
       /\ (task[t].was # NoRow /\ ~task[t].was.mine) \/ task[t].how = "recover"

Claims(t) ==
    \/ BeginPublish(Rev(t))
    \/ /\ (task[t].was # NoRow /\ ~task[t].was.mine) \/ task[t].how = "recover"
       /\ ReclaimPublish(Rev(t))

\* Whether another request is between its claim and its end, or has written the
\* record since it was read.
Races(t) == (\E u \in Tasks \ {t} : task[u].pc \in Held) \/ row[Rev(t)] # task[t].was

AlreadyOpened(was) == was.state = "opened"

\* A publication already opened is only recorded on the review.
Claim(t) ==
    /\ At(t, "claim")
    /\ IF Claims(t)
       THEN /\ review' = "publishing" /\ raced' = (raced \/ Races(t))
            /\ IF AlreadyOpened(task[t].was)
               THEN task' = [task EXCEPT ![t].pc = "finish", ![t].change = task[t].was.change]
               ELSE Goes(t, "begin")
       ELSE Ends(t) /\ UNCHANGED <<review, raced>>
    /\ UNCHANGED <<latest, target, intent, line, row, forge, bounds>>

-----------------------------------------------------------------------------
(* The attempt *)

\* publication_begin: what an earlier attempt observed is kept.
BegunAfresh(r) == [NoRow EXCEPT !.state = "pending", !.mine = TRUE]

Begun(r) ==
    [row[r] EXCEPT !.state = IF @ = "opened" THEN "opened" ELSE "pending", !.mine = TRUE]

Begin(t) ==
    /\ At(t, "begin")
    /\ row' = [row EXCEPT ![Rev(t)] = Begun(Rev(t))]
    /\ task' = [task EXCEPT ![t].resume = MayHaveReached(task[t].was), ![t].had = row[Rev(t)].pushed,
                            ![t].was = NoRow, ![t].stale = "none", ![t].pc = "authorize"]
    /\ UNCHANGED <<review, latest, target, intent, line, forge, raced, bounds>>

\* publication_authorized
Authorize(t) ==
    /\ At(t, "authorize")
    /\ row' = [row EXCEPT ![Rev(t)].text = task[t].text] /\ Goes(t, "local")
    /\ UNCHANGED <<review, latest, target, intent, line, forge, raced, bounds>>

\* journal.failed, then abort_publish.
Fails(t) ==
    /\ Set(Rev(t), "failed") /\ Goes(t, "abort")
    /\ UNCHANGED <<review, latest, target, intent, line, raced, requests, others>>

\* journal.uncertain; the claim stays.
Unknown(t) ==
    /\ Set(Rev(t), "uncertain") /\ Ends(t)
    /\ UNCHANGED <<review, latest, target, intent, line, raced, requests, others>>

Step(t, pc) ==
    /\ Goes(t, pc)
    /\ UNCHANGED <<review, latest, target, intent, line, raced, requests, others>>

\* A check on this node, a question asked before the push, or an authority that
\* was withdrawn meanwhile ends the attempt ...
Refused(t) ==
    /\ task[t].pc \in {"local", "change", "push", "opening"}
    /\ Fails(t) /\ UNCHANGED <<forge, faults>>

\* ... and a question the forge does not answer leaves its outcome open.
Unanswered(t) ==
    /\ Fault /\ task[t].pc \in {"change", "observe", "confirm", "lookup"}
    /\ Unknown(t) /\ UNCHANGED forge

\* contacting: from here on every command speaks to the forge.
LooksAtBranch(t) ==
    task[t].resume \/ IsUpdate \/ intent[Rev(t)].lease # Nothing \/ target = InitialCommit

Contact(t) ==
    /\ At(t, "local")
    /\ row' = [row EXCEPT ![Rev(t)].contacted = TRUE]
    /\ Goes(t, IF IsUpdate THEN "change" ELSE IF LooksAtBranch(t) THEN "observe" ELSE "push")
    /\ UNCHANGED <<review, latest, target, intent, line, forge, raced, bounds>>

\* An existing change is only updated while it is open.
CheckChange(t) ==
    /\ At(t, "change")
    /\ IF changes[target].status = "open" THEN Step(t, "observe") /\ UNCHANGED row ELSE Fails(t)
    /\ UNCHANGED <<forge, faults>>

\* Look before acting: whether what the branch holds lets the attempt push.
MayPush(t, found) ==
    LET lease == intent[Rev(t)].lease
    IN /\ found \in {Nothing, lease} \/ lease = Nothing
       /\ ~task[t].had
       /\ target = InitialCommit => found = Nothing

Observe(t) ==
    /\ At(t, "observe")
    /\ \/ /\ branch = Rev(t) /\ Pushed(Rev(t)) /\ Goes(t, "opening")
          /\ UNCHANGED <<review, latest, target, intent, line, raced, requests, others>>
       \/ branch # Rev(t) /\ MayPush(t, branch) /\ Step(t, "push") /\ UNCHANGED row
       \/ branch # Rev(t) /\ ~MayPush(t, branch) /\ Fails(t)
    /\ UNCHANGED <<forge, faults>>

\* A rewrite is forced over exactly its lease; any other push must be a fast-forward.
ReplacesAnything(r) == Commits \cup {Nothing}

Replaces(r) ==
    IF intent[r].rewrite /\ intent[r].lease # Nothing
    THEN {intent[r].lease}
    ELSE {Nothing} \cup line[r]

Accepts(r) == branch \in Replaces(r)

Lands(r) == branch' = r /\ landed' = landed \cup {r} /\ UNCHANGED <<changes, opens>>

\* The push is accepted and reported, accepted and its answer lost (git then fails
\* as it does when refused), or reported and not kept.
Push(t) ==
    /\ At(t, "push")
    /\ \/ Accepts(Rev(t)) /\ Lands(Rev(t)) /\ Step(t, "confirm") /\ UNCHANGED <<row, faults>>
       \/ Fault /\ Accepts(Rev(t)) /\ Lands(Rev(t)) /\ Fails(t)
       \/ Fault /\ Step(t, "confirm") /\ UNCHANGED <<row, forge>>

\* A push that reports success is checked.
Confirm(t) ==
    /\ At(t, "confirm")
    /\ IF branch = Rev(t)
       THEN /\ Pushed(Rev(t)) /\ Goes(t, "opening")
            /\ UNCHANGED <<review, latest, target, intent, line, raced, requests, others>>
       ELSE Fails(t)
    /\ UNCHANGED <<forge, faults>>

\* journal.opening, and what there is to open.
Opening(t) ==
    /\ At(t, "opening")
    /\ Set(Rev(t), "opening")
    /\ task' = [task EXCEPT
            ![t].pc = IF target = InitialCommit THEN "opened" ELSE IF IsUpdate THEN "edit"
                      ELSE IF task[t].resume THEN "lookup" ELSE "open",
            ![t].change = IF IsUpdate THEN target ELSE 0]
    /\ UNCHANGED <<review, latest, target, intent, line, forge, raced, bounds>>

\* A change follows its branch while it is open.
HeadOf(n) == IF changes[n].status = "open" THEN branch ELSE changes[n].head

\* recognise: by the commit and the approved text, whatever became of it since.
AtHead(r) == {n \in DOMAIN changes : HeadOf(n) = r}
Ours(t) == {n \in AtHead(Rev(t)) : changes[n].text = task[t].text}

Lookup(t) ==
    /\ At(t, "lookup")
    /\ \/ AtHead(Rev(t)) = {} /\ Step(t, "open") /\ UNCHANGED row
       \/ /\ \E n \in Ours(t) : /\ Ours(t) = {n}
                                /\ task' = [task EXCEPT ![t].pc = "comment", ![t].change = n]
          /\ UNCHANGED <<review, latest, target, intent, line, row, raced, requests, others>>
       \/ AtHead(Rev(t)) # {} /\ (\A n \in Ours(t) : Ours(t) # {n}) /\ Unknown(t)
    /\ UNCHANGED <<forge, faults>>

\* The forge opens one change per branch at a time, of a branch that exists.
CanOpen == branch # Nothing /\ \A n \in DOMAIN changes : changes[n].status # "open"

Created(x) ==
    changes' = Append(changes, [status |-> "open", head |-> branch, text |-> x, notes |-> [r \in Revisions |-> 0]])

\* The change is opened and reported; opened, and the answer is a failure or does
\* not come in time; or it is not opened.
Open(t) ==
    /\ At(t, "open")
    /\ \/ /\ CanOpen /\ Created(task[t].text) /\ opens' = [opens EXCEPT ![Rev(t)] = @ + 1]
          /\ \/ /\ task' = [task EXCEPT ![t].pc = "comment", ![t].change = Len(changes) + 1]
                /\ UNCHANGED <<review, latest, target, intent, line, row, raced, requests, faults, others>>
             \/ Fault /\ (Fails(t) \/ Unknown(t))
          /\ UNCHANGED <<branch, landed>>
       \/ Fails(t) /\ UNCHANGED <<forge, faults>>
       \/ Fault /\ Unknown(t) /\ UNCHANGED forge

\* edit_description (and set_ready): said again on a resumed attempt.
Edit(t) ==
    /\ At(t, "edit")
    /\ \/ /\ changes' = [changes EXCEPT ![task[t].change].text = task[t].text]
          /\ Step(t, "comment") /\ UNCHANGED <<row, branch, opens, landed, faults>>
       \/ Fails(t) /\ UNCHANGED <<forge, faults>>
       \/ Fault /\ Unknown(t) /\ UNCHANGED forge

\* post_comment_once: a resumed attempt asks first.  (The forge lists a page of a hundred
\* comments, and a change has no more here; likewise the fifty changes Lookup is shown.)
AlreadyPosted(t) == task[t].resume /\ changes[task[t].change].notes[Rev(t)] > 0

Comment(t) ==
    /\ At(t, "comment")
    /\ \/ AlreadyPosted(t) /\ Step(t, "opened") /\ UNCHANGED <<row, forge, faults>>
       \/ /\ ~AlreadyPosted(t)
          /\ changes' = [changes EXCEPT ![task[t].change].notes[Rev(t)] = @ + 1]
          /\ \/ Step(t, "opened") /\ UNCHANGED <<row, faults>>
             \/ Fault /\ (Fails(t) \/ Unknown(t))
          /\ UNCHANGED <<branch, opens, landed>>
       \/ Fails(t) /\ UNCHANGED <<forge, faults>>
       \/ Fault /\ Unknown(t) /\ UNCHANGED forge

\* journal.opened
Opened(t) ==
    /\ At(t, "opened")
    /\ row' = [row EXCEPT ![Rev(t)].state = "opened", ![Rev(t)].change = task[t].change]
    /\ Goes(t, "finish")
    /\ UNCHANGED <<review, latest, target, intent, line, forge, raced, bounds>>

\* finish_publish: the review is settled, and its next revision updates the change.
Finish(t) ==
    /\ At(t, "finish") /\ Ends(t)
    /\ review' = IF review = "publishing" THEN "approved" ELSE review
    /\ target' = IF review = "publishing" /\ ~IsUpdate /\ task[t].change # 0 THEN task[t].change ELSE target
    /\ UNCHANGED <<latest, intent, line, row, forge, raced, bounds>>

\* abort_publish
Abort(t) ==
    /\ At(t, "abort") /\ Ends(t)
    /\ review' = IF review = "publishing" THEN "claimed" ELSE review
    /\ UNCHANGED <<latest, target, intent, line, row, forge, raced, bounds>>

-----------------------------------------------------------------------------
(* The operator's own settlement *)

\* change_state, reconcile_refusal: open or merged, with the pushed commit at its head.
Ask(t) ==
    /\ At(t, "ask")
    /\ IF changes[task[t].change].status # "closed" /\ HeadOf(task[t].change) = Rev(t)
       THEN Goes(t, "recheck") ELSE Ends(t)
    /\ UNCHANGED <<review, latest, target, intent, line, row, forge, raced, bounds>>

\* The record is read again: a retry may have started while the forge was asked ...
Recheck(t) ==
    /\ At(t, "recheck")
    /\ IF Unsettled(Rev(t))
       THEN task' = [task EXCEPT ![t].pc = "settle", ![t].was = row[Rev(t)]]
       ELSE Ends(t)
    /\ UNCHANGED <<review, latest, target, intent, line, row, forge, raced, bounds>>

\* ... and the claim is taken as the review was when the operator asked.
Settle(t) ==
    /\ At(t, "settle")
    /\ IF IF task[t].stale = "publishing" THEN ReclaimPublish(Rev(t)) ELSE BeginPublish(Rev(t))
       THEN /\ review' = "publishing" /\ raced' = (raced \/ Races(t))
            /\ task' = [task EXCEPT ![t].pc = "opened", ![t].was = NoRow]
       ELSE Ends(t) /\ UNCHANGED <<review, raced>>
    /\ UNCHANGED <<latest, target, intent, line, row, forge, bounds>>

-----------------------------------------------------------------------------
(* Revisions, restarts, and what others do on the forge *)

\* forge_intent: what the push of a submitted revision may replace.
Lease(to, rewrite) ==
    IF to > NewChange THEN HeadOf(to) ELSE IF to = NewChange /\ rewrite THEN branch ELSE Nothing

\* A revision is submitted, on top of what the branch or the last revision holds
\* or rewritten, for the target the review has or an open change the agent names
\* (submitting a second one for the branch is refused only where the forge can be
\* asked); its lease is what the branch held.
Submit(to, onto, rewrite) ==
    /\ latest < MaxRevisions /\ latest + others < MaxTurns /\ review \in {"claimed", "approved"}
    /\ to = target \/ (target = NewChange /\ to > NewChange)
    /\ LET r == latest + 1
           lease == Lease(to, rewrite)
           own == {r} \cup (IF onto = Nothing THEN {} ELSE line[onto])
       IN /\ to > NewChange => changes[to].status = "open" /\ (rewrite \/ lease \in own)
          /\ latest' = r /\ review' = "claimed" /\ target' = to
          /\ line' = [line EXCEPT ![r] = own]
          /\ intent' = [intent EXCEPT ![r] = [lease |-> lease,
                            rewrite |-> rewrite /\ lease # Nothing /\ lease \notin own]]
    /\ UNCHANGED <<row, task, forge, raced, bounds>>

\* publication_reconcile_interrupted and reconcile_publishing_without_record, at the
\* start of the next process.
Relabelled(rw) ==
    IF rw = NoRow THEN rw
    ELSE [rw EXCEPT !.mine = FALSE, !.state = IF @ \in {"pending", "opening"} THEN "uncertain" ELSE @]

StaysClaimed == FALSE

ReturnsToQueue == review = "publishing" /\ \A r \in Revisions : row[r] = NoRow

Restart ==
    /\ Fault
    /\ task' = [t \in Tasks |-> Idle]
    /\ row' = [r \in Revisions |-> Relabelled(row[r])]
    /\ review' = IF ReturnsToQueue THEN "claimed" ELSE review
    /\ UNCHANGED <<latest, target, intent, line, forge, raced, requests, others>>

\* Others push to the branch or delete it, and close, merge or open changes by hand.
Others ==
    /\ others < MaxOthers /\ latest + others < MaxTurns /\ others' = others + 1
    /\ \/ /\ branch # Other /\ branch' = Other
          /\ line' = [line EXCEPT ![Other] = {Other} \cup (IF branch = Nothing THEN {} ELSE line[branch])]
          /\ UNCHANGED changes
       \/ branch # Nothing /\ branch' = Nothing /\ UNCHANGED <<changes, line>>
       \/ /\ \E n \in DOMAIN changes, s \in {"merged", "closed"} :
                /\ changes[n].status = "open" /\ branch # Nothing
                /\ changes' = [changes EXCEPT ![n].status = s, ![n].head = branch]
          /\ UNCHANGED <<branch, line>>
       \/ CanOpen /\ (\E x \in Texts \cup {NoText} : Created(x)) /\ UNCHANGED <<branch, line>>
    /\ UNCHANGED <<review, latest, target, intent, row, task, opens, landed, raced, requests, faults>>

Attempt(t) ==
    \/ Begin(t) \/ Authorize(t) \/ Contact(t) \/ CheckChange(t) \/ Observe(t) \/ Push(t) \/ Confirm(t)
    \/ Opening(t) \/ Lookup(t) \/ Open(t) \/ Edit(t) \/ Comment(t) \/ Opened(t) \/ Finish(t) \/ Abort(t)
    \/ Refused(t) \/ Unanswered(t)

Next ==
    \/ \E t \in Tasks :
        \/ \E x \in Texts : Approve(t, x)
        \/ \E r \in Revisions : Recover(t, r) \/ \E n \in DOMAIN changes : Reconcile(t, r, n)
        \/ Look(t) \/ Claim(t) \/ Ask(t) \/ Recheck(t) \/ Settle(t) \/ Attempt(t)
    \/ \E to \in {target} \cup DOMAIN changes, onto \in {Nothing, branch, latest}, rewrite \in BOOLEAN :
            Submit(to, onto, rewrite)
    \/ Restart \/ Others

Spec == Init /\ [][Next]_vars

-----------------------------------------------------------------------------
(* Properties *)

\* Somebody's own commits went into a change of the branch, and it was closed or merged
\* with them: its last commit is not one the node knows it by.
Carried == \E n \in DOMAIN changes : changes[n].status # "open" /\ changes[n].head = Other

\* A publication opens its change once and posts its comment, which the forge would
\* take twice, once, however often it is retried after a stop, a failure or a lost
\* answer, while one request at a time holds the claim: whatever reached the forge
\* left a record that makes the next attempt look first.  (It finds a change by its
\* last commit, so not one that was carried on and closed between the look at the
\* branch and the look for the change.)
HappensOnce ==
    raced \/ Carried \/ \A r \in Revisions : opens[r] <= 1 /\ \A n \in DOMAIN changes : changes[n].notes[r] <= 1

\* "Refused before any attempt spoke to the forge: nothing can exist there because
\* of it" (PublicationOutcome::NotAttempted).
NotAttemptedMeansNothing ==
    \A r \in Revisions :
        row[r] # NoRow /\ Outcome(r) = "not_attempted"
            => r \notin landed /\ opens[r] = 0 /\ \A n \in DOMAIN changes : changes[n].notes[r] = 0

\* A review settled as published is settled for its latest revision, whose commit
\* the forge has held and whose record says where; every record is well formed.
ApprovedWasPublished ==
    /\ TypeOK
    /\ review = "approved" /\ ~raced => row[latest].state = "opened" /\ latest \in landed

\* "A push may replace exactly this and nothing else" (Intent::lease), and one
\* without a lease only what it builds on: nobody's commits are lost to a push.  A
\* branch moved or deleted after the push was confirmed is not pushed to again
\* (attempt: "do not quietly push over whatever is there now").
NothingPushedOver ==
    [][\A t \in Tasks : At(t, "push") /\ branch' # branch /\ task'[t] # task[t]
            => /\ branch \in {Nothing, intent[Rev(t)].lease} \cup line[Rev(t)]
               /\ ~row[Rev(t)].pushed \/ raced]_vars

\* A review is not left in `publishing` with no way out (publication.rs): a retry
\* may be asked for, or an approval would take the claim back.
WayOut ==
    review = "publishing" /\ Quiet =>
        MayRecover(latest) \/ (row[latest] # NoRow /\ ~row[latest].mine)

\* The same, as long as no earlier revision of the review has a record.
WayOutOfFirst == (\A r \in Revisions : r # latest => row[r] = NoRow) => WayOut

=============================================================================
