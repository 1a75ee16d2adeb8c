------------------------------- MODULE Rollouts -------------------------------
(***************************************************************************)
(* How a signed policy bundle is rolled out to peers                       *)
(* (node/src/store/policy_rollouts.rs, node/src/http/policy_admin.rs,      *)
(* node/src/policy/bundle.rs, the rollout parts of                         *)
(* node/src/mesh/client.rs and mirror.rs).                                 *)
(*                                                                         *)
(* The signing node keeps a durable row per rollout and target.  Queueing  *)
(* a bundle and marking its row are two steps with no lock across them, and *)
(* the HTTP handlers, the heartbeat and the pull loop run side by side: what *)
(* one of them is about to queue is read some time before it is queued.    *)
(* Only an apply holds the policy lock until it has dispatched its rollout. *)
(***************************************************************************)
EXTENDS Integers, Sequences, FiniteSets

CONSTANTS
    Targets,
    Bundles,          \* signed bundles, numbered
    Versions,         \* the assignments of versions to bundles considered
    MaxRollouts,      \* bound: bundles applied at the signing node
    MaxInFlight,      \* bound: frames waiting for one target, or from one
    MaxFaults         \* bound: frames lost, sends refused, restarts, local installs

ASSUME ConstAssumption ==
    /\ Bundles \subseteq Nat \ {0} /\ Versions \subseteq [Bundles -> Nat \ {0}]
    /\ MaxRollouts \in Nat /\ MaxInFlight \in Nat /\ MaxFaults \in Nat

NoBundle == 0
Status == {"none", "pending", "sent", "offline", "applied", "rejected", "superseded"}
Rollouts == 1 .. MaxRollouts

VARIABLES
    version,  \* version[b]: the version bundle b carries, fixed once it is signed
    count,    \* rollouts and target-less applies so far, oldest first
    bundle,   \* bundle[r]: the bundle applied with r
    row,      \* row[r][t]: policy_rollout_target's status
    applying, \* <<r, t>> that the apply holding the policy lock has yet to mark
    todo,     \* <<r, t>> read as due, not queued yet (memory of the tasks)
    queued,   \* <<r, t>> queued, not marked yet (memory of the tasks)
    toPeer,   \* toPeer[t]: rollouts whose bundle is on its way to t
    receipts, \* receipts[t]: on their way from t, through its outbox
    hellos,   \* hellos[t]: on their way from t, posted past its outbox
    runs,     \* runs[t]: the bundle t has installed
    torn,     \* torn[t]: t's bundle and signature are of two bundles and do not verify
    reach,    \* reach[t]: t counts as reachable at the signing node
    said,     \* said[t]: history, the bundle t's last hello read here named
    ran,      \* ran[t]: history, every bundle t had installed
    strayed,  \* history: targets whose operator installed a bundle, or that
              \* stopped in the middle of an install
    faults

vars == <<version, count, bundle, row, applying, todo, queued, toPeer, receipts, hellos, runs, torn, reach, said, ran, strayed, faults>>

\* Every piece of state has the shape the code gives it; what a task is about to
\* queue or mark belongs to a rollout that exists.
TypeOK ==
    /\ version \in Versions /\ count \in 0 .. MaxRollouts /\ faults \in 0 .. MaxFaults
    /\ bundle \in [Rollouts -> Bundles \cup {NoBundle}]
    /\ row \in [Rollouts -> [Targets -> Status]]
    /\ applying \subseteq todo \cup queued /\ todo \cup queued \subseteq (1 .. count) \X Targets
    /\ toPeer \in [Targets -> Seq(1 .. count)]
    /\ receipts \in [Targets -> Seq([r : 1 .. count, applied : BOOLEAN])]
    /\ hellos \in [Targets -> Seq(Bundles \cup {NoBundle})]
    /\ runs \in [Targets -> Bundles \cup {NoBundle}]
    /\ ran \in [Targets -> SUBSET (Bundles \cup {NoBundle})]
    /\ reach \in [Targets -> BOOLEAN] /\ torn \in [Targets -> BOOLEAN]
    /\ strayed \subseteq Targets

Init ==
    /\ version \in Versions /\ count = 0 /\ bundle = [r \in Rollouts |-> NoBundle]
    /\ row = [r \in Rollouts |-> [t \in Targets |-> "none"]]
    /\ applying = {} /\ todo = {} /\ queued = {}
    /\ toPeer = [t \in Targets |-> <<>>] 
    /\ receipts = [t \in Targets |-> <<>>] /\ hellos = [t \in Targets |-> <<>>]
    /\ runs = [t \in Targets |-> NoBundle] /\ torn = [t \in Targets |-> FALSE]
    /\ reach = [t \in Targets |-> TRUE]
    /\ said = [t \in Targets |-> NoBundle] /\ ran = [t \in Targets |-> {NoBundle}]
    /\ strayed = {} /\ faults = 0

Fault == faults < MaxFaults /\ faults' = faults + 1

-----------------------------------------------------------------------------
(* The signing node *)

\* supersede_older, within create_policy_rollout's transaction or alone.
SupersedeOlder(rows, r) ==
    [x \in Rollouts |-> [t \in Targets |->
        IF x # r /\ rows[x][t] \in {"pending", "sent", "offline", "rejected"}
        THEN "superseded" ELSE rows[x][t]]]

\* apply: install bundle b here, record a rollout to ts (none for an empty
\* selection) and go on to dispatch it.  The bundle's version is not compared
\* with the one installed.
Apply(b, ts) ==
    /\ count < MaxRollouts /\ applying = {}
    /\ LET r == count + 1
           rows == [row EXCEPT ![r] = [t \in Targets |-> IF t \in ts THEN "pending" ELSE "none"]]
       IN /\ row' = SupersedeOlder(rows, r)
          /\ bundle' = [bundle EXCEPT ![r] = b]
          /\ todo' = todo \cup ({r} \X ts)
          /\ applying' = {r} \X ts
    /\ count' = count + 1
    /\ UNCHANGED <<version, queued, toPeer, receipts, hellos, runs, torn, reach, said, ran, faults, strayed>>

\* retry: dispatch_policy_rollout again, to what is neither applied, superseded
\* nor rejected.
Retry(r) ==
    /\ LET due == {t \in Targets : row[r][t] \in {"pending", "sent", "offline"}}
       IN due # {} /\ todo' = todo \cup ({r} \X due)
    /\ UNCHANGED <<version, count, bundle, applying, row, queued, toPeer, receipts, hellos, runs, torn, reach, said, ran, faults, strayed>>

\* policy_rollout_reconcile_targets: the newest rollout that includes t and is not
\* superseded for it; 0 if there is none.
Newest(rows, t) ==
    LET live == {r \in 1 .. count : rows[r][t] \notin {"none", "superseded"}}
    IN IF live = {} THEN 0 ELSE CHOOSE r \in live : \A x \in live : x <= r

\* redelivery_due.  RESEND_AFTER, half an hour, may pass at any time.
DueOnlyWhenNeverQueued(status, reachable) == status \in {"pending", "offline"}

RedeliveryDue(status, reachable) ==
    status \in {"pending", "offline"} \/ (status = "sent" /\ reachable)

\* reconcile_policy_rollouts for t, given whether t is reachable: from the
\* heartbeat, or when t comes back.
Reconciled(rows, t, reachable) ==
    LET r == Newest(rows, t)
    IN IF r # 0 /\ RedeliveryDue(rows[r][t], reachable) THEN todo \cup {<<r, t>>} ELSE todo

Reconcile(t) ==
    /\ todo' = Reconciled(row, t, reach[t])
    /\ UNCHANGED <<version, count, bundle, applying, row, queued, toPeer, receipts, hellos, runs, torn, reach, said, ran, faults, strayed>>

\* queue_policy_bundle: enqueue_direct ...
Enqueue(r, t) ==
    /\ <<r, t>> \in todo /\ Len(toPeer[t]) < MaxInFlight
    /\ toPeer' = [toPeer EXCEPT ![t] = Append(@, r)]
    /\ todo' = todo \ {<<r, t>>} /\ queued' = queued \cup {<<r, t>>}
    /\ UNCHANGED <<version, count, bundle, applying, row, receipts, hellos, runs, torn, reach, said, ran, faults, strayed>>

\* ... then mark_policy_rollout_sent, unless the row is settled ...
Mark(r, t) ==
    row' = [row EXCEPT ![r][t] = IF @ \in {"applied", "superseded"} THEN @ ELSE "sent"]

MarkSent(r, t) ==
    /\ <<r, t>> \in queued
    /\ Mark(r, t)
    /\ queued' = queued \ {<<r, t>>} /\ applying' = applying \ ({<<r, t>>} \ todo)
    /\ UNCHANGED <<version, count, bundle, todo, toPeer, receipts, hellos, runs, torn, reach, said, ran, faults, strayed>>

\* ... or mark_policy_rollout_offline when it could not be sealed.
EnqueueFails(r, t) ==
    /\ Fault /\ <<r, t>> \in todo
    /\ row' = [row EXCEPT ![r][t] = IF @ \in {"applied", "superseded"} THEN @ ELSE "offline"]
    /\ todo' = todo \ {<<r, t>>} /\ applying' = applying \ ({<<r, t>>} \ queued)
    /\ UNCHANGED <<version, count, bundle, queued, toPeer, receipts, hellos, runs, torn, reach, said, ran, strayed>>

\* The node stops: what its tasks held in memory is gone, the rows are not.
Restart ==
    /\ Fault /\ todo \cup queued # {}
    /\ applying' = {} /\ todo' = {} /\ queued' = {}
    /\ UNCHANGED <<version, count, bundle, row, toPeer, receipts, hellos, runs, torn, reach, said, ran, strayed>>

\* presence_tick: the hub is down, or no hello within three heartbeats.
GoesQuiet(t) ==
    /\ Fault /\ reach[t]
    /\ reach' = [reach EXCEPT ![t] = FALSE]
    /\ UNCHANGED <<version, count, bundle, applying, row, todo, queued, toPeer, receipts, hellos, runs, torn, said, ran, strayed>>

\* presence_tick once the hub is back: reconcile_deliveries for t.
ComesBack(t) ==
    /\ ~reach[t]
    /\ reach' = [reach EXCEPT ![t] = TRUE]
    /\ todo' = Reconciled(row, t, TRUE)
    /\ UNCHANGED <<version, count, bundle, applying, row, queued, toPeer, receipts, hellos, runs, torn, said, ran, faults, strayed>>

\* record_policy_receipt: a refusal never overwrites applied or superseded.
RecordReceipt(status, applied) ==
    IF applied THEN "applied"
    ELSE IF status \in {"applied", "superseded"} THEN status ELSE "rejected"

ReceiveReceipt(t) ==
    /\ receipts[t] # <<>>
    /\ LET m == Head(receipts[t])
       IN row' = [row EXCEPT ![m.r][t] = RecordReceipt(@, m.applied)]
    /\ receipts' = [receipts EXCEPT ![t] = Tail(@)]
    /\ UNCHANGED <<version, count, bundle, applying, todo, queued, toPeer, hellos, runs, torn, reach, said, ran, faults, strayed>>

\* confirm_policy_rollout_by_hello: every rollout of exactly that bundle.
ConfirmedByVersion(rows, t, b) ==
    [r \in Rollouts |-> [rows[r] EXCEPT ![t] =
        IF @ # "none" /\ b # NoBundle /\ version[bundle[r]] <= version[b] THEN "applied" ELSE @]]

ConfirmedByHello(rows, t, b) ==
    [r \in Rollouts |-> [rows[r] EXCEPT ![t] = IF @ # "none" /\ bundle[r] = b THEN "applied" ELSE @]]

\* apply_node, and for a peer that was quiet reconcile_deliveries.
ReceiveHello(t) ==
    /\ hellos[t] # <<>>
    /\ LET b == Head(hellos[t])
           rows == ConfirmedByHello(row, t, b)
       IN /\ row' = rows
          /\ said' = [said EXCEPT ![t] = b]
          /\ todo' = IF reach[t] THEN todo ELSE Reconciled(rows, t, TRUE)
    /\ reach' = [reach EXCEPT ![t] = TRUE]
    /\ hellos' = [hellos EXCEPT ![t] = Tail(@)]
    /\ UNCHANGED <<version, count, bundle, applying, queued, toPeer, receipts, runs, torn, ran, faults, strayed>>

-----------------------------------------------------------------------------
(* A target *)

Installs(t, b) ==
    /\ runs' = [runs EXCEPT ![t] = b] /\ torn' = [torn EXCEPT ![t] = FALSE]
    /\ ran' = [ran EXCEPT ![t] = @ \cup {b}]

\* judge_offer, for bundles of the key the target trusts.
OfferByPresence(installed, b) ==
    IF installed = b THEN "already" ELSE "install"

JudgeOffer(installed, b) ==
    IF installed = NoBundle THEN "install"
    ELSE IF installed = b THEN "already"
    ELSE IF version[b] <= version[installed] THEN "refuse"
    ELSE "install"

\* current: the installed bundle if it verifies.
Verified(t) == IF torn[t] THEN NoBundle ELSE runs[t]

\* open_and_apply of a PolicyBundle, answered with a receipt.
ReceiveBundle(t) ==
    /\ toPeer[t] # <<>> /\ Len(receipts[t]) < MaxInFlight
    /\ LET r == Head(toPeer[t])
           offer == JudgeOffer(Verified(t), bundle[r])
       IN /\ IF offer = "install" THEN Installs(t, bundle[r]) ELSE UNCHANGED <<runs, torn, ran>>
          /\ receipts' = [receipts EXCEPT ![t] = Append(@, [r |-> r, applied |-> offer # "refuse"])]
    /\ toPeer' = [toPeer EXCEPT ![t] = Tail(@)]
    /\ UNCHANGED <<version, count, bundle, applying, row, todo, queued, hellos, reach, said, faults, strayed>>

\* The target stops after install has renamed the signature and before the bundle.
\* The frame is in its seen set, so it is not opened again.
CrashInstalling(t) ==
    /\ Fault /\ toPeer[t] # <<>> /\ runs[t] # NoBundle
    /\ JudgeOffer(Verified(t), bundle[Head(toPeer[t])]) = "install"
    /\ torn' = [torn EXCEPT ![t] = TRUE] /\ strayed' = strayed \cup {t}
    /\ toPeer' = [toPeer EXCEPT ![t] = Tail(@)]
    /\ UNCHANGED <<version, count, bundle, applying, row, todo, queued, receipts, hellos, runs, reach, said, ran>>

\* The target's own operator applies a bundle of the same key, of any version.
ApplyThere(t, b) ==
    /\ Fault /\ b # runs[t]
    /\ Installs(t, b) /\ strayed' = strayed \cup {t}
    /\ UNCHANGED <<version, count, bundle, applying, row, todo, queued, toPeer, receipts, hellos, reach, said>>

\* The heartbeat's hello names the bundle installed, none when it does not verify.
Hello(t) ==
    /\ Len(hellos[t]) < MaxInFlight
    /\ hellos' = [hellos EXCEPT ![t] = Append(@, Verified(t))]
    /\ UNCHANGED <<version, count, bundle, applying, row, todo, queued, toPeer, receipts, runs, torn, reach, said, ran, faults, strayed>>

\* The hub prunes a frame, or its reader stops on it.
LoseBundle(t) ==
    /\ Fault /\ toPeer[t] # <<>>
    /\ toPeer' = [toPeer EXCEPT ![t] = Tail(@)]
    /\ UNCHANGED <<version, count, bundle, applying, row, todo, queued, receipts, hellos, runs, torn, reach, said, ran, strayed>>

LoseAnswer(t) ==
    /\ Fault
    /\ \/ receipts[t] # <<>> /\ receipts' = [receipts EXCEPT ![t] = Tail(@)] /\ UNCHANGED hellos
       \/ hellos[t] # <<>> /\ hellos' = [hellos EXCEPT ![t] = Tail(@)] /\ UNCHANGED receipts
    /\ UNCHANGED <<version, count, bundle, applying, row, todo, queued, toPeer, runs, torn, reach, said, ran, strayed>>

Next ==
    \/ \E b \in Bundles, ts \in SUBSET Targets : Apply(b, ts)
    \/ \E r \in Rollouts : Retry(r)
    \/ \E r \in Rollouts, t \in Targets : Enqueue(r, t) \/ MarkSent(r, t) \/ EnqueueFails(r, t)
    \/ Restart
    \/ \E t \in Targets :
        \/ Reconcile(t) \/ GoesQuiet(t) \/ ComesBack(t) \/ ReceiveReceipt(t) \/ ReceiveHello(t)
        \/ ReceiveBundle(t) \/ CrashInstalling(t) \/ Hello(t) \/ LoseBundle(t) \/ LoseAnswer(t)
        \/ \E b \in Bundles : ApplyThere(t, b)

Spec == Init /\ [][Next]_vars

-----------------------------------------------------------------------------
(* Properties *)

\* A target recorded as applied did install exactly that rollout's bundle, whatever
\* was lost, repeated or late (policy_rollouts.rs: queueing "is delivery progress,
\* not installation"); rows and what is on its way are well formed throughout.
AppliedWasInstalled ==
    /\ TypeOK
    /\ \A r \in 1 .. count, t \in Targets : row[r][t] = "applied" => bundle[r] \in ran[t]

\* The operator has applied bundles in version order.
InOrder == \A r \in 1 .. count : \A x \in 1 .. r - 1 :
    bundle[x] = bundle[r] \/ version[bundle[x]] < version[bundle[r]]

\* Once everything sent to and by a target has been read and its last hello named
\* what it runs, a newest live rollout recorded as applied is what it runs: no
\* order of receipts, hellos and supersessions leaves a row that misleads, while
\* bundles are applied in version order and only the mesh installs them.
RecordsTellWhatRuns ==
    InOrder => \A t \in Targets \ strayed :
        LET r == Newest(row, t)
        IN toPeer[t] = <<>> /\ receipts[t] = <<>> /\ hellos[t] = <<>> /\ said[t] = runs[t] /\ r # 0
           => (row[r][t] = "applied" => runs[t] = bundle[r])

\* A bundle delivered over the mesh never moves a target back to an older version
\* (judge_offer), however late or repeated: a target only the mesh has installed
\* bundles on, and that never stopped in an install, takes one that is newer than
\* every bundle it ran.
NeverMovedBack ==
    [][\A t \in Targets \ strayed' : runs'[t] # runs[t]
            => \A b \in ran[t] \ {NoBundle} : version[b] < version[runs'[t]]]_vars

-----------------------------------------------------------------------------
(* Liveness *)

\* The loops keep running: heartbeats say hello, reconcile and read; the handlers
\* finish what they started.  That is the tokio runtime's fairness; nothing is
\* assumed of Apply, Retry, or any fault.  MaxInFlight bounds queues that block
\* nobody in the code, and what is due may be queued by another task first: the
\* steps these disable for a while recur with every beat and are strongly fair.
Fairness ==
    \A t \in Targets :
        /\ WF_vars(Hello(t) \/ ReceiveHello(t)) /\ WF_vars(ReceiveReceipt(t))
        /\ SF_vars(ReceiveBundle(t)) /\ SF_vars(Reconcile(t) /\ todo' # todo)
        /\ SF_vars(\E r \in Rollouts : Enqueue(r, t)) /\ WF_vars(\E r \in Rollouts : MarkSent(r, t))

FairSpec == Spec /\ Fairness

\* Every target of a rollout ends up applied, rejected or superseded, although
\* frames are lost and nodes restart: what is unconfirmed is sent again, and no
\* late mark of a frame leaves a row owed for ever.
EveryTargetSettles ==
    []<>(\A r \in Rollouts, t \in Targets : row[r][t] \notin {"pending", "sent", "offline"})

=============================================================================
