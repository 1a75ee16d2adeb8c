-------------------------------- MODULE Revokes --------------------------------
(***************************************************************************)
(* Delivery of one credential revoke to one peer it is owed to             *)
(* (node/src/store/credential_revokes.rs, the revoke parts of              *)
(* node/src/mesh/client.rs and mirror.rs, remove_credential of             *)
(* node/src/http/api.rs).  It is sent again until it is answered, given up *)
(* after REVOKE_MAX_ATTEMPTS sends, and taken up again when the peer comes *)
(* back or announces another build.  What a revoke does to the broker that *)
(* receives it is module Credentials.  Rows of two peers share nothing, so *)
(* one peer stands for all.                                                *)
(*                                                                         *)
(* The HTTP handler, the pull loop, the heartbeat, the presence tick and   *)
(* whoever else talks to the hub are tasks that run side by side; each     *)
(* reads the row, and queues and marks it later, with no lock across these *)
(* steps.                                                                  *)
(***************************************************************************)
EXTENDS Integers, Sequences, FiniteSets

CONSTANTS
    Loops,         \* the tasks beside "http" and "pull": "beat", "tick", and the drain and
                   \* event loops and other handlers that hear from the hub
    MaxAttempts,   \* REVOKE_MAX_ATTEMPTS (48 in the code)
    MaxInFlight,   \* bound: revokes, receipts or hellos on their way (copies are alike)
    MaxFaults,     \* bound: frames lost, writes refused, restarts, silences, cancels
    StartsOld      \* whether the peer starts on a build that cannot read a revoke

ASSUME ConstAssumption ==
    /\ IsFiniteSet(Loops) /\ MaxAttempts \in Nat \ {0}
    /\ MaxInFlight \in Nat /\ MaxFaults \in Nat /\ StartsOld \in BOOLEAN

Tasks == {"http", "pull"} \cup Loops
Jobs == {"idle", "queue", "mark", "abandon"}
Status == {"none", "pending", "sent", "offline", "confirmed", "abandoned"}
Open(status) == status \in {"pending", "sent", "offline"}

VARIABLES
    removal,   \* the removal here: "no", "saving", "saved" or "failed"
    st,        \* credential_revoke_target's status; "none" when there is no row
    tries,     \* its attempts
    job,       \* job[k]: what task k has read the row to need
    toPeer,    \* revokes on their way to the peer
    receipts,  \* receipts on their way back
    hellos,    \* hellos on their way back, each whether its build reads revokes
    reads,     \* whether the peer's build reads revokes
    known,     \* what the peer's node row here says of that
    up,        \* the hub's state here: Connected
    heard,     \* the peer's last hello came within three heartbeats
    reach,     \* the peer's node row has reachable set
    applied,   \* history: the peer has acted on the revoke
    faults

row == <<st, tries>>
peer == <<reads, applied>>
presence == <<up, heard, reach>>
revokeVars == <<removal, st, tries, job, toPeer, receipts, hellos, reads, known, up, heard, reach, applied, faults>>

\* Every piece of state has the shape the code gives it.  Sends go past
\* REVOKE_MAX_ATTEMPTS by at most one per other task, which had read the row first.
RevokeTypeOK ==
    /\ removal \in {"no", "saving", "saved", "failed"}
    /\ st \in Status /\ tries \in 0 .. MaxAttempts + Cardinality(Tasks) - 1
    /\ job \in [Tasks -> Jobs]
    /\ toPeer \in 0 .. MaxInFlight /\ receipts \in 0 .. MaxInFlight
    /\ hellos \in Seq(BOOLEAN) /\ Len(hellos) <= MaxInFlight
    /\ reads \in BOOLEAN /\ known \in BOOLEAN /\ applied \in BOOLEAN
    /\ up \in BOOLEAN /\ heard \in BOOLEAN /\ reach \in BOOLEAN
    /\ faults \in 0 .. MaxFaults

RevokeInit ==
    /\ removal = "no" /\ st = "none" /\ tries = 0 /\ job = [k \in Tasks |-> "idle"]
    /\ toPeer = 0 /\ receipts = 0 /\ hellos = <<>>
    /\ reads = ~StartsOld /\ known = ~StartsOld /\ up = TRUE /\ heard = TRUE /\ reach = TRUE
    /\ applied = FALSE /\ faults = 0

\* One more copy on its way, up to the bound; nobody waits for room.
OneMore(n) == IF n < MaxInFlight THEN n + 1 ELSE n

Fault == faults < MaxFaults /\ faults' = faults + 1

-----------------------------------------------------------------------------
(* The removal *)

\* remove_credential: create_credential_revoke, before the store is saved ...
Create ==
    /\ removal = "no" /\ removal' = "saving"
    /\ st' = "pending"
    /\ UNCHANGED <<tries, job, toPeer, receipts, hellos, peer, known, presence, faults>>

\* ... then the store is saved and dispatch_credential_revoke reads the row ...
Dispatch ==
    /\ removal = "saving" /\ removal' = "saved"
    /\ job' = [job EXCEPT !["http"] = IF st \in {"none", "confirmed"} THEN "idle" ELSE "queue"]
    /\ UNCHANGED <<row, toPeer, receipts, hellos, peer, known, presence, faults>>

\* ... or it cannot be saved and the revoke is cancelled.
SaveFails ==
    /\ Fault /\ removal = "saving" /\ removal' = "failed"
    /\ st' = "none" /\ tries' = 0
    /\ UNCHANGED <<job, toPeer, receipts, hellos, peer, known, presence>>

\* cancel_credential_revoke, by the operator.
Cancel ==
    /\ Fault /\ removal = "saved" /\ st # "none"
    /\ st' = "none" /\ tries' = 0
    /\ UNCHANGED <<removal, job, toPeer, receipts, hellos, peer, known, presence>>

-----------------------------------------------------------------------------
(* Delivery *)

\* redelivery_due; RESEND_AFTER, half an hour, may pass at any time.
DueOnlyWhenNeverQueued(status, reachable) == status \in {"pending", "offline"}

RedeliveryDue(status, reachable) ==
    status \in {"pending", "offline"} \/ (status = "sent" /\ reachable)

\* What reconcile_credential_revokes does with the row it has read.
Judge(status, count, reachable) ==
    IF ~RedeliveryDue(status, reachable) THEN "idle"
    ELSE IF count >= MaxAttempts THEN "abandon" ELSE "queue"

\* peer_reachable
Reachable == up /\ reach

\* heartbeat_loop: reconcile_deliveries(None) after a hello the hub took.
Reconcile(k) ==
    /\ k = "beat" /\ up /\ job[k] = "idle"
    /\ job' = [job EXCEPT ![k] = Judge(st, tries, Reachable)]
    /\ UNCHANGED <<removal, row, toPeer, receipts, hellos, peer, known, presence, faults>>

\* set_state_ok, by whichever task first hears from a hub that was down:
\* reconcile_deliveries(None).
HubUp(k) ==
    /\ k \in Tasks \ {"http", "tick"} /\ ~up /\ job[k] = "idle"
    /\ up' = TRUE
    /\ job' = [job EXCEPT ![k] = Judge(st, tries, reach)]
    /\ UNCHANGED <<removal, row, toPeer, receipts, hellos, peer, known, heard, reach, faults>>

\* rearm_credential_revokes, then reconcile_credential_revokes(Some(peer)) when
\* the peer is returning.
Rearm(k, again, returning) ==
    LET rearmed == again /\ st = "abandoned"
        status == IF rearmed THEN "pending" ELSE st
        count  == IF rearmed THEN 0 ELSE tries
    IN /\ st' = status /\ tries' = count
       /\ job' = IF returning THEN [job EXCEPT ![k] = Judge(status, count, TRUE)] ELSE job

\* queue_credential_revoke: enqueue_direct ...
Enqueue(k) ==
    /\ job[k] = "queue"
    /\ toPeer' = OneMore(toPeer)
    /\ job' = [job EXCEPT ![k] = "mark"]
    /\ UNCHANGED <<removal, row, receipts, hellos, peer, known, presence, faults>>

\* ... then mark_credential_revoke_sent, or _offline when it could not be queued.
Mark(status) ==
    IF Open(st) THEN st' = status /\ tries' = tries + 1 ELSE UNCHANGED row

MarkSent(k) ==
    /\ job[k] = "mark" /\ Mark("sent")
    /\ job' = [job EXCEPT ![k] = "idle"]
    /\ UNCHANGED <<removal, toPeer, receipts, hellos, peer, known, presence, faults>>

EnqueueFails(k) ==
    /\ Fault /\ job[k] = "queue" /\ Mark("offline")
    /\ job' = [job EXCEPT ![k] = "idle"]
    /\ UNCHANGED <<removal, toPeer, receipts, hellos, peer, known, presence>>

\* abandon_credential_revoke
Abandon(k) ==
    /\ job[k] = "abandon"
    /\ st' = IF Open(st) THEN "abandoned" ELSE st
    /\ job' = [job EXCEPT ![k] = "idle"]
    /\ UNCHANGED <<removal, tries, toPeer, receipts, hellos, peer, known, presence, faults>>

\* The node stops.  The rows are kept, a store not saved yet still has the
\* credential, and a client starts with its hub unreachable.
Restart ==
    /\ Fault /\ (removal = "saving" \/ \E k \in Tasks : job[k] # "idle")
    /\ removal' = IF removal = "saving" THEN "failed" ELSE removal
    /\ job' = [k \in Tasks |-> "idle"] /\ up' = FALSE
    /\ UNCHANGED <<row, toPeer, receipts, hellos, peer, known, heard, reach>>

\* set_state_down: the hub cannot be reached, and presence_tick runs at once.
HubDown ==
    /\ Fault /\ up
    /\ up' = FALSE /\ reach' = FALSE
    /\ UNCHANGED <<removal, row, job, toPeer, receipts, hellos, peer, known, heard>>

\* Three heartbeats pass without a hello.
FallsSilent ==
    /\ Fault /\ heard
    /\ heard' = FALSE
    /\ UNCHANGED <<removal, row, job, toPeer, receipts, hellos, peer, known, up, reach>>

\* presence_tick: reachable is whether the hub is up and the last hello is fresh; a
\* peer that becomes reachable is reconciled.
GoesQuiet ==
    /\ "tick" \in Loops /\ job["tick"] = "idle" /\ reach /\ ~(up /\ heard)
    /\ reach' = FALSE
    /\ UNCHANGED <<removal, row, job, toPeer, receipts, hellos, peer, known, up, heard, faults>>

ComesBack ==
    /\ "tick" \in Loops /\ job["tick"] = "idle" /\ ~reach /\ up /\ heard
    /\ reach' = TRUE
    /\ Rearm("tick", TRUE, TRUE)
    /\ UNCHANGED <<removal, toPeer, receipts, hellos, peer, known, up, heard, faults>>

\* confirm_credential_revoke: from any status, abandoned included.
ReceiveReceipt ==
    /\ receipts > 0 /\ up /\ job["pull"] = "idle"
    /\ receipts' = receipts - 1
    /\ st' = IF st = "none" THEN st ELSE "confirmed"
    /\ UNCHANGED <<removal, tries, job, toPeer, hellos, peer, known, presence, faults>>

\* apply_node re-arms for a peer on another build; one that was quiet is also
\* re-armed and reconciled at once.
ReceiveHello ==
    /\ hellos # <<>> /\ up /\ job["pull"] = "idle"
    /\ hellos' = Tail(hellos) /\ known' = Head(hellos) /\ heard' = TRUE /\ reach' = TRUE
    /\ Rearm("pull", ~reach \/ known # Head(hellos), ~reach)
    /\ UNCHANGED <<removal, toPeer, receipts, peer, up, faults>>

-----------------------------------------------------------------------------
(* The peer and the hub *)

\* open_and_apply of a CredentialRevoke.  An older build drops the frame.
ReceiveRevoke ==
    /\ toPeer > 0
    /\ toPeer' = toPeer - 1
    /\ applied' = (applied \/ reads)
    /\ receipts' = IF reads THEN OneMore(receipts) ELSE receipts
    /\ UNCHANGED <<removal, row, job, hellos, reads, known, presence, faults>>

\* The peer's store cannot be written: dropped, and not answered.
AnswersUnsaved ==
    /\ Fault /\ toPeer > 0 /\ reads
    /\ toPeer' = toPeer - 1 /\ receipts' = OneMore(receipts)
    /\ UNCHANGED <<removal, row, job, hellos, peer, known, presence>>

RevokeNotSaved ==
    /\ Fault /\ toPeer > 0 /\ reads
    /\ toPeer' = toPeer - 1
    /\ UNCHANGED <<removal, row, job, receipts, hellos, peer, known, presence>>

Upgrade ==
    /\ ~reads /\ reads' = TRUE
    /\ UNCHANGED <<removal, row, job, toPeer, receipts, hellos, applied, known, presence, faults>>

\* A hello is posted past the outbox that receipts wait in.
Hello ==
    /\ Len(hellos) < MaxInFlight
    /\ hellos' = Append(hellos, reads)
    /\ UNCHANGED <<removal, row, job, toPeer, receipts, peer, known, presence, faults>>

\* The hub prunes a frame before it is read.
Lose ==
    /\ Fault
    /\ \/ toPeer > 0 /\ toPeer' = toPeer - 1 /\ UNCHANGED <<receipts, hellos>>
       \/ receipts > 0 /\ receipts' = receipts - 1 /\ UNCHANGED <<toPeer, hellos>>
       \/ hellos # <<>> /\ hellos' = Tail(hellos) /\ UNCHANGED <<toPeer, receipts>>
    /\ UNCHANGED <<removal, row, job, peer, known, presence>>

RevokeNext ==
    \/ Create \/ Dispatch \/ SaveFails \/ Cancel
    \/ \E k \in Tasks :
        Reconcile(k) \/ HubUp(k) \/ Enqueue(k) \/ MarkSent(k) \/ EnqueueFails(k) \/ Abandon(k)
    \/ Restart \/ HubDown \/ FallsSilent \/ GoesQuiet \/ ComesBack \/ ReceiveReceipt \/ ReceiveHello
    \/ ReceiveRevoke \/ RevokeNotSaved \/ Upgrade \/ Hello \/ Lose

RevokeSpec == RevokeInit /\ [][RevokeNext]_revokeVars

\* A task that has read the row goes on to queue and mark it, the heartbeat reconciles
\* while the hub takes its hellos, and the presence tick runs.  This is what the tokio
\* runtime gives its tasks; nothing is assumed of the peer, the hub or the operator.
FairSpec ==
    /\ RevokeSpec
    /\ \A k \in Tasks : WF_revokeVars(Enqueue(k) \/ MarkSent(k) \/ Abandon(k))
    /\ WF_revokeVars(Reconcile("beat") /\ job' # job) /\ WF_revokeVars(ComesBack)

-----------------------------------------------------------------------------
(* Properties *)

\* A revoke recorded as confirmed was acted on by the peer (credential_revokes.rs:
\* "only the peer's authenticated receipt is confirmation"), although sends are
\* repeated, receipts late and the peer's store may refuse the write; and the sends
\* stay within the bound RevokeTypeOK gives them.
ConfirmedWasApplied == RevokeTypeOK /\ (st = "confirmed" => applied)

\* No revoke stays open while the hub is up and the peer is heard from: it is
\* confirmed, given up, or cancelled, although tasks that send, re-arm and give up
\* interleave, the node stops and frames are lost (reconcile_credential_revokes).  One
\* that was sent to a peer that is never heard from again stays sent.
EveryRevokeSettles == Open(st) ~> ~Open(st) \/ ~(up /\ heard)

=============================================================================
