# TLA+ verification of tracon

tracon runs coding agents on machines their operator owns (*nodes*). Nodes form a
mesh through a relay (*the hub*) that stores sealed frames and cannot read most of
them. Everything two nodes agree on (records, who holds a provider's sign-in, which
policy is installed, who has dropped a revoked credential) is agreed on by frames
that may be late, repeated or lost, sent from durable tables by tasks that run side
by side. Within a node, a session, a publication and the configuration file are each
driven by several tasks, by a harness or forge outside tracon, and by restarts. This
development models both, checks them with TLC and proves with TLAPS, for every size of the
system, the safety properties the runs check on small instances (section 5 lists them).

Paths below are relative to `src/`. `PROJECT.json` maps every definition to the lines
it translates.

## 1. Inventory

### Components, their state and their operations

| Component | State | Operations | What makes it correct |
|---|---|---|---|
| Replicated records (`sync/`) | hybrid logical clock, `change_log`, rows with stamps | `write_change`, `apply_changes`, `prune_tombstones`, backfill query | replicas with the same changes hold the same rows; a row only moves forward |
| Mesh client (`node/src/mesh/client.rs`) | outbox, cursors, seen set, held frames, pending commands, connection state | drain, pull, ingest, hold/replay, presence, reconcile | an outage costs latency, not state; every committed change arrives |
| Forwarding (`mesh/forward.rs`) | pending map, executor | command, ack, snapshots, change backfill | a command runs at most once, never long after its sender gave up |
| Hub (`hub/`) | frame log per channel, members, enrollment slots, claims, recent signatures, replica tables | post, page, prune, admit, enroll, claim, ingest | an acknowledged frame is given to every reader or reported gone |
| Broker and sign-ins (`broker/`, `providers.rs`) | encrypted credentials, tombstones, renewals in progress | sign in, import, share, renew, remove, disconnect, bind channels | one renewal per version; removed stays removed; a revoke reaches every copy |
| Revoke delivery (`store/credential_revokes.rs`) | a row per revoke and peer with status and attempts | create, mark, abandon, re-arm, confirm, cancel | confirmed means dropped; nothing is sent for ever |
| Policy rollouts (`store/policy_rollouts.rs`, `policy/bundle.rs`) | a row per rollout and target; three files at the target | apply, retry, reconcile, receipt, hello, offer, install | applied means installed; no delivery moves a node back |
| Enrollment (`mesh/enroll.rs`, hub slots) | slot, member list, handed-over keys | invite, accept, admit, hand off, cancel | one invitee per code; a member has the keys it was admitted to |
| Configuration (`config/edit.rs`, `config/last_good.rs`) | node.toml, last-good, start counter, audit rows | edit, count a start, restore, promote | a bad edit never leaves the node down for good; no restore loop |
| Review and publication (`review/`, `store/publication.rs`) | review revisions, publication record | submit, decide, push, open, comment, recover | no second push or change after a crash |
| Sessions (`session/`) | session row, waits, queued prompts, permissions, budget, the supervisor's memory | start, prompt, pause, settle, suspend, end, relaunch, reconcile | one turn at a time; a fence holds; what is held reaches the agent; nothing is left behind |
| Tools and authority (`mcp/`, `authority.rs`) | approvals, grants, egress grants | ask, decide, use, revoke | a revoked or spent grant is not used |
| Step-up (`http/passkey.rs`, `http/device.rs`) | challenges, enroll windows, device requests | challenge, assert, approve | an assertion confirms one action once |
| Native agent (`agent/`) | journal, conversation, sub-agents | record, restore, prune, summarise | restore never guesses what a call did |
| Sandboxes, gateway, adapters, wrapper, web interface | processes and streams outside the repository | | mostly integration; not modelled |

### How they interact

```
 write_change ─commit─> tap ─> outbox ─post─> hub frame log ─page─> ingest ─> apply_changes
 (Records)              (memory)  (MeshSync)   (FsFrames)           (MeshSync)   (Records)
 remove_credential ─> revoke rows ─> outbox ...> peer's broker ─> receipt ─> rows
 policy apply      ─> target rows ─> outbox ...> peer's install ─> receipt, hello ─> rows
 command           ─> pending map ─> outbox ...> owner's task   ─> ack ─> caller
 renewal           ─> hub claim ─> provider ─> broker ─> handoff frames to the holders
 operator, checks, MCP tools ─> session row, queue, waits <─> supervisor ─> harness
 approve, retry    ─> claim on the review ─> publication record ─> push, change, comment
 edit, text editor ─> node.toml ─> start, second look ─> live keys; last-good ─> restore
```

Local calls within a node share one SQLite store and one broker file. Between nodes
there are only frames through the hub. HTTP handlers, the outbox drain, the pull loop,
the 30-second heartbeat and the presence tick are tokio tasks without a common lock.

### What is hard

* **Ordering.** Changes reach replicas in any order; receipts and hellos take
  different ways (a hello is posted past the outbox); renewals cross shares.
* **Two-step operations.** Frame file then `.seq`; record then save; queue then mark;
  seen set then apply; signature then bundle. A stop or another task fits between.
* **State read before an await.** A renewal reads the credential, then asks the hub
  and the provider; reconciliation reads rows, then queues them; a supervisor reads its
  session's row, then dispatches; a publication looks at its record, then claims.
* **Effects outside.** A forge may do what it does not answer for; a harness may die in
  a turn; a process may stop between any two writes of a file.
* **Loss.** The tap drops when full, retention prunes, answers to posts get lost.
* **Time.** Clocks jump, counters overflow, claims lapse, commands expire on another
  machine's clock.

Each of these is a hazard in `PROJECT.json`, at its line, with the properties that
watch it, or with a note on why none does.

## 2. Modules

Lines are those of the code; actions carry the names of the functions they translate.

| Module | Models | State and how it corresponds |
|---|---|---|
| `Hlc` | `sync/src/hlc.rs` | pure operators `Bump`, `Tick`, `Observe` on stamps with bounded width; `NoStamp` is the `None` of an exhausted clock |
| `Records` | `sync/src/apply.rs` | per site `hlc`, `log` (the `change_log` table), `rows`. `Write` is `write_change`, `Deliver` one change of `apply_changes`; a row is the change it was last written from |
| `MeshSync` | `mesh/client.rs`, `mesh/forward.rs`, the tap of `stream.rs` | `unsent` (tap), `outbox`, hub `log`/`lo`, `cursor`, `page`/`pos` (memory of a pull), `seen`, `key`, `held`. Actions for commit, tap drop, drain with its three outcomes, prune, fetch, 410, ingest, key arrival, the parked frames opened one by one, crashes |
| `FrameLog` | the `FrameStore` trait with `MemoryFrames`, read through `get_frames` | the abstract promise: numbered frames, oldest dropped first, readers given or told |
| `FsFrames` | `FsFrames` of `hub/src/store.rs` | `files`, `.seq`, an append half done, readers. Refined to `FrameLog` (`ImplementsFrameLog`) |
| `Broker` | rules of `broker/mod.rs` | pure operators on one name's credential and tombstone: put, revoke, handoff, refuse |
| `Credentials` | `providers.rs`, claims, handoff and revoke frames | one provider name on every node: `broker`, `outbox`, `inbox`, `owed`, `claims`, `handing` (handoffs not queued yet), `renew` (a renewal between its awaits), and the provider's own view of tokens (external) |
| `Revokes` | `store/credential_revokes.rs`, reconcile and re-arm of the client, `remove_credential` | one row, and per task what it has read it to need (`job`); whether the hub is up and the peer was heard (`up`, `heard`, `reach`); frames in flight; what the peer reads and has done |
| `Rollouts` | `store/policy_rollouts.rs`, `policy_admin.rs`, `policy/bundle.rs`, client, mirror | rows per rollout and target, what tasks have read (`todo`) and queued but not marked (`queued`), the policy lock (`applying`), what each target runs |
| `Commands` | `mesh/forward.rs` | one command: caller, pending map, outbox, hub copies, seen set, the owner's task, ack; time and clock offset |
| `NodeConfig` | `config/edit.rs`, `config/live.rs`, `config/last_good.rs`, `store/config_audit.rs`, the load and its migration (`config.rs`, `legacy.rs`), the start of `serve` | versions of `node.toml`, last-good, the start counter, kept failed files and audit rows; how far the serving process has come (`pc`) and its memory (`node`); the edit that holds the lock. Every write of a start, its migration, a restore, an edit and a promotion is its own action, and any process may be killed between two |
| `Publication` | `authority.rs`, `review/publish.rs`, `store/publication.rs`, the publish claims of `store/mod.rs` | one review: its state, the record of each revision, the memory of each request under way (`task`), and the forge (external): branch, changes, what others do. An action per step of `attempt` between two effects |
| `Session` | `session/supervisor.rs`, `session/mod.rs`, `session/waits.rs`, queued prompts, orphaned permissions | one session: `row`, `queue`, `perm`, `wait` are in the store; `pc`, `saw`, `work`, `sup` are the supervisor's; `mail` its commands; `turn` and `harness` the process; `stop`, `item`, `stopping` what comes from outside |

The `MC` modules only give constants values. `RecordsProofs` (records and commands),
`FsFramesProofs` (the frame store and revokes), `MeshProofs`, `RolloutsProofs`,
`NodeConfigProofs`, `PublicationProofs` and `SessionProofs` hold the theorems. `Commands`
and `Revokes` prefix the names of their specification (`CommandSpec`, `RevokeSpec`), since
a module of proofs extends them beside another component's. `Credentials` uses `Broker`; `FsFrames` instantiates `FrameLog`;
`Records` uses `Hlc`. `MeshSync` takes from `Records` that applying a change is
idempotent and order does not matter (proved there), and keeps only which changes a
node has; it takes from `FrameLog` that a reader is given frames in order or told they
are gone.

Abstractions common to all: payloads, names, keys and signatures are model values;
frames that fail verification or come from a non-member are left out; time is explicit
only in `Commands`; elsewhere a timer (half an hour before a resend, a claim's two
minutes, three heartbeats of silence) may fire at any moment, which includes the real
schedule.

## 3. Runs

All bounds are CONSTANTS of the modules. A pass explores every state of its instance.

| Run | States | Instance | Shows |
|---|---|---|---|
| `records` | 176,001 | 2 sites, 2 records, 2 channels, 2 writes each, stamps of 2 ms x 3 counters | the row is the latest logged change, replicas converge, rows only advance |
| `mesh_sync` | 264,614 | writer, late-keyed reader, 2 changes, a tap of 1, 1 fault of any kind, fair | every hole is being filled and gets filled, skipped changes are asked for, held frames are opened, or dropped for their age and fetched again |
| `fs_frames` | 5,496 | 3 frames, 2 envelopes, up to 2 interrupted appends | acknowledged frames stay stored; until the first interruption the store is a `FrameLog` and nothing is skipped |
| `credentials` | 1,095,511 | five scenarios: 3 holders that renew; 2 nodes, 2 sign-ins and any one of eight events; imports, shares and disconnects; and handoffs queued apart from the copy's storing, with a crash or a missing key between, for 3 holders and for 2 | a revoke reaches every copy, one renewal per version, holders agree, removed stays removed, tokens belong to their sign-in |
| `rollouts` | 159,182 | 1 target, 2 bundles of rising or equal versions, 2 rollouts in any order, 1 fault, fair | applied means installed, records agree with what runs, never moved back, every target settles |
| `revokes` | 361,822 | 5 tasks, 2 attempts, 2 faults, fair | confirmed means applied; every revoke settles while the hub is up and the peer is heard from |
| `commands` | 21,110 | timeout 2, skew 1, clock offsets, 2 faults, with and without a deadline | at most once, answers are true, a command without a deadline runs in the end |
| `node_config` | 877,895 | 5 versions (one differs in a live key, one dies at start, one does not load, one names a retired harness), 2 writes, 1 kill or failed write, 3 failed starts, fair | the audit log tells the truth, nothing is lost, no restore loop, the node comes to serve, live keys follow the file |
| `publication` | 1,490,404 | 2 revisions, 3 requests, 2 of them at once, 1 stop or lost answer, 2 acts of others, 3 faults and acts together | a change is opened and commented once, "not attempted" means nothing is there, approved means published, nobody's commits are pushed over, a first revision has a way out |
| `publication_stuck` | violation | the same | a second revision has no way out of `publishing` |
| `sessions` | 452,726 | 2 prompts, 1 permission request, 1 question, 1 check, 4 events, limits of 1, fair | turns do not overlap, messages arrive once and in order, live rows have a supervisor, fences hold, held messages are not dropped and reach the agent, nothing is left behind |
| `sessions_check` | violation | the same | a late check puts a session back to running with nothing behind it |

Each module has one type invariant. In runs it is the first conjunct of one safety
invariant (`HeldFramesAreOpened`, `RevokeReachesEveryCopy`, `AppliedWasInstalled`,
`ConfirmedWasApplied`, `LogTellsTheTruth`, `ApprovedWasPublished`,
`TurnsDoNotOverlap`); the proofs establish them as well.

**Why the bounds are enough.** Each property is about a pair: two changes of one
record, two copies of one sign-in, two rollouts to one target, a send and its receipt.
The instances have two of everything the property relates and a fault that can fall
between any two steps. Rows of different peers, rollout targets and commands share no
state, so one stands for all; `credentials` has three nodes because its sharing
schedule needs a third holder. What is proved (section 5) does not rest on bounds. Two
revisions are the fewest in which one has an earlier record; two turn identities the
fewest in which a late turn is told from the current one; the versions of the file are
one for each way a start can go, and one for a live key alone. The four events of `sessions` are drawn from a dozen
kinds (prompts, requests, questions, checks, pauses, Stops, deaths, restarts and so
on), and every order of any four is covered.
`MaxInFlight` in `Revokes` caps copies without blocking
anyone; in `Rollouts` it makes a sender wait, which is why its fairness is strong.

`CHECK_DEADLOCK FALSE` is set where the bounded workload ends (all writes made, all
bundles applied, all events had); `revokes` and `node_config` have none to end and check
deadlock.

**Conditions in the properties.** Some properties hold only while something has not
happened, and say so themselves instead of being checked on a model without it:

* `Credentials`: a behaviour starts with a `scenario`, which bounds it and names the
  events that may occur in it; `happened` records the ones that did, and whether a copy
  was replaced or shared in the middle of its renewal (`mid_renewal`), a copy others hold
  was listed for one more (`later_share`), a handoff was lost on its way or never queued
  (`lost_handoff`), or a copy was removed before its handoffs were queued (`overtaken`).
  Storing a copy and queueing its handoffs are two steps in the scenarios with `gap` and
  one in the others.
  `Without(events)` in a property excludes the states after the named ones; section 4 says
  what each leads to.
* `Rollouts`: `strayed` collects targets whose own operator installed a bundle, or that
  stopped inside an install; `NeverMovedBack` and `RecordsTellWhatRuns` are about the
  others, the second also only while bundles are applied in version order (`InOrder`):
  the code lets an operator apply an older bundle again.
* `FsFrames`: `AckedNotSkipped` and `ImplementsFrameLog` hold until the first
  interrupted append.
* `MeshSync`: `ControlLoss` names the control frames (requests, answers) that retention
  may drop; it is empty in `mesh_sync`.
* `NodeConfig`: `behind` collects versions written beside the lock, by a text editor or
  by a migration in the middle of an edit; `slipped` says a write fell between the load and
  the read of its text; `unsettled` that a start settled the log while an edit held the
  lock, that a restore took the file from a version a pending row names, or that a
  migration did and its start did not come to settle that row; `Reverts` is an edit that
  puts back a version an earlier row or a migration replaced.
* `Publication`: `raced` says that a claim was taken beside another, or on a record that
  had moved on since it was read. `HappensOnce` is also not about a change that somebody
  else carried on and closed (`Carried`).
* `Session`: `woken` says that a check settled over a row put away or starting again
  (`NothingLeftBehind` then excepts its permission requests);
  `item = "missed"` that the item was closed while the session was starting.

### Fairness

Only steps the tokio runtime and the node's own loops guarantee are fair.

* `LiveSpec` of `MeshSync`: tap drain, outbox drain (retried with backoff for ever),
  the pull of every channel, and the key a joining node is given. No fault is fair.
* `CommandFairSpec`: the sender's drain, the owner's pull and the task it spawns.
* `FairSpec` of `Revokes`: a task that has read the row finishes; the heartbeat
  reconciles while the hub takes its hellos; the presence tick runs. Nothing is assumed
  of the peer or the hub: `EveryRevokeSettles` asks nothing while the hub is down or the
  peer silent.
* `FairSpec` of `Rollouts`: hellos, reads, reconciliation and marking are fair. Steps
  the in-flight bound disables for a while, or that another task may do first, are
  strongly fair because the heartbeat brings them back.
* `FairSpec` of `NodeConfig`: the steps of a start (the service manager starts a stopped
  node again), the rest of an edit under way, and the second look. Not kills or saves.
* `Spec` of `Session` has weak fairness of `NodeStep`, the steps of the node together:
  the supervisor's loop, turns that end (each has a timeout), the sweep, checks that
  finish and the restart after a stop. Nothing is assumed of the operator, the harness
  or the order in which the node's own steps are taken.
* `Publication` has no fairness; its way-out properties say what may be asked for.

### Mutants

Every property of every passing run has a mutant in `PROJECT.json`: a plausible slip
in the code (no tie-break by site, a skipped page not asked for again, a hello taken
for its version alone, a claim that ignores its holder, a failed file not kept, a retry
that trusts a failed record, a check that writes over a pause) under which TLC finds
the property violated. The mutated operators stand next to the originals in the modules,
just before them.

## 4. Findings

Two are violation runs, in which the code does something other than a comment of the
repository says; quotes and lines are in `PROJECT.json`.

1. `publication_stuck`: the start-up pass returns a review left in `publishing` only
   when it has no publication record at all (`store/publication.rs:421`). A second
   revision claimed but not yet recorded when the node stops has the first one's record
   beside it and stays there, "with no way out" (`:415`).
2. `sessions_check`: `set_checking` (`session/mod.rs:3869`) does not write over a paused
   or ended row, but does over one that ended and is starting again; the start then gives
   up and the row says `running` with nothing behind it.

The models also have these schedules, each excluded from the checked properties by the
condition named (section 3), or stated by a definition that no run checks. Dropping the
condition, or checking that definition, shows them.

**Mesh**

* `MeshSync`, `ControlLoss` not empty: a backfill starts at the largest sequence held
  (`mesh/forward.rs:273`), so a lost request or answer is never made up for, although
  "records come back from each site's own change log" (`mesh/client.rs:742`).
* `FsFrames`, `AckedNeverSkipped`: after an append that stopped between its two writes a
  number is used twice (`hub/src/store.rs:190`), and a reader can miss the acknowledged
  frame. `mesh/client.rs:3`: an outage "costs latency, never state".
* `Commands`: a command reported as failed may start within the 30-second skew after its
  deadline. The constant's comment explains the allowance; `command`'s own says that such
  a command "never runs later".

**Credentials and revokes**

* `RevokeAlwaysReaches`: a share that crosses a renewal (`http/api.rs:5895`) loses the new
  holder, and a later removal does not reach it, although only the owner may share "so
  that its revoke reaches every copy" (`:5888`).
  The same holds of the members a change of channels adds, of which the holders are not
  told. A handoff that is lost, or not queued because the
  node stops after storing the copy or has no key for the peer
  (`mesh/credentials.rs:47`), is not sent again: the peer keeps what it had, and the
  revoke leaves it nothing to refuse later copies by (`lost_handoff`). A removal between
  the storing and the queueing sends its revoke ahead of the handoff (`overtaken`).
* A claim that lapses, or that the hub forgets in a restart, lets two nodes renew one
  version; so does a share in the middle of the renewal of a copy that was not shared and
  so not claimed; and a change of channels makes a new version of the same tokens, which
  may be claimed beside the old one (`OneNodeRenewsAVersion`).
* Re-binding channels and renewing at once make two copies of one version. A copy listed
  for one more, or carried over by an import, is not sent to those who have it already, so
  they keep another list of nodes (`HoldersAgree`).
* An import clears the tombstone of another sign-in, which a late handoff then brings
  back (`RemovedStaysRemoved`, `RevokeReachesEveryCopy`). A new sign-in clears it too;
  until that one is disconnected, it refuses the late handoff in the tombstone's place,
  and then nothing does.
* A renewal that ends after another sign-in writes its tokens into that one
  (`TokensDescendFromGrant`).
* A revoke is sent for a removal that then fails to save (`http/api.rs:7543`), and the
  credential is "still held here, so owed to no one" (`:7551`).
* A new build announced between the last send and the abandonment re-arms nothing, and
  later hellos of the same build do not either.
* A revoke sent to a peer that is not heard from again is neither sent again nor given up,
  since both wait for the peer to be reachable (`client.rs:468`); `EveryRevokeSettles` is
  about the others.

**Rollouts**

* A stop between two renames of an install (`policy/bundle.rs:290`) leaves a bundle that
  does not verify, and an older one is then taken, although "a mesh redelivery never moves
  this node back to an older bundle" (`:303`). `strayed` excludes it.
* A retry or a reconcile that read its target before a newer apply queues the superseded
  bundle after it, although `policy_rollouts.rs` says an older one "must never be pushed
  again"; a target that has the newer one refuses it (`NeverMovedBack`).

**Configuration**

* `slipped`: a write between the load and the read of its text is taken for what the node
  runs, and may become last-good, although the text "is what becomes last-good once the
  node has run on it" (`http/mod.rs:577`).
* `unsettled`, `Reverts`: settling the log in a start calls lost a row whose edit is about
  to write, one whose version a restore took away, or one whose version was migrated by a
  start that stopped, failed to load or could not settle the log (`http/mod.rs:573` keeps
  what the file was for the same start only), and landed one whose version an edit put back ("a row never claims a write that
  did not", `store/config_audit.rs:3`).
* `behind`: a save without the lock between the copy and the rename of a restore is lost.
  The migration of a load takes no lock either and has no row (`legacy.rs:244`): it may
  write over an edit made since the file was read, although "no write reaches the file
  without a row here" (`store/config_audit.rs:3`).

**Publication**

* `Carried`: a change somebody pushed their own commits into and then closed is not found
  by its last commit, and a retry opens another.
* `raced`: two requests reclaim one interrupted publication (`store/mod.rs:3963`), or
  one claims on a record read before another finished (`authority.rs:684`); both then act.

**Sessions**

* A session relaunched over its budget stays `running` with the turn that would carry it
  on refused, although one at its budget "is held, not ended: it is paused"
  (`docs/ARCHITECTURE.md:1795`).
* A turn that ends while paused drops the end its closed item asked for, until something
  ends the session (`NothingLeftBehind` excepts `paused`).
* `ask` reopens the same session with what was told forgotten, so decisions told before
  are told again; `waits.rs:26` says "A session does not outlive the process".
* An item closed while its session starts is missed (`item = "missed"`).
* A stop of the process between the claim of queued messages and their turn loses them
  (`HeldNeverDropped` says so); so does a turn given to a harness already dead.
* Queued messages are ordered by wall-clock milliseconds; a clock set back reorders them.
  The model orders them as they were sent.

## 5. Proofs

Checked by TLAPS with SMT, Zenon and LS4; every leaf is proved.

**`RecordsProofs`**, for any finite or infinite set of sites (numbers), records and
channels, any clock width and any number of writes. Assumptions: site names are
ordered, bounds are naturals, `NoRow` is not a change (`Records`), and the widths are
naturals (`Hlc`). The properties are not inductive: that a local write may replace the
row uncompared needs the clock to be at or past everything logged, and that a key is
unique needs to know who wrote what. The inductive invariant `IInv` adds

* `Authored`: whatever a replica has logged is in its author's own log;
* `ClockAhead`: the clock is not before any stamp in the log;
* `OwnSeqsGapless`, `OwnSeqsUnique`: a site's own numbers are 1..n, each used once.

The clock lemmas (`BumpLater`, `TickLater`, `ObserveLater`) say a stamp is later than
what it was made from, overflow included. `WriteIInv` and `DeliverIInv` then preserve
the invariant. Results: `TypeCorrect`, `RowAgreesWithLog`, `StampsFollowSeq`,
`KeysNameOneChange`, `ReplicasConverge`, and the action property `RowsAdvance`. The second
half of convergence, that replicas which have the same (site, sequence) keys of a record
hold the same row, goes through `OneKeyOneChange`: the key determines the change, so equal
keys are equal logs.

**`FsFramesProofs`**, for any envelopes, readers, page size and bounds. `StoreInv`
says `.seq` is above every acknowledged frame and at most one below or at the last
file (`CacheAhead`), and that the files are an interval (`Contiguous`); it gives
`StoreTypeCorrect` and `AckedStaysStored` with interrupted appends. `Settled` adds that
no file and no reader is at or past the upcoming number; `UntilCrash` says it holds
while `crashes = 0`. This gives `NothingSkipped` and, through `StepRefines` (each step
is a step of `FrameLog` or a stutter), `FsFramesImplementsFrameLog`;
`UninterruptedImplementsFrameLog` is the plain refinement `Spec => Log!Spec` for
`MaxCrashes = 0`. The condition is needed: section 4 has the schedule.

The same module proves `ConfirmedIsApplied` about `Revokes`, for any finite set of tasks and any
number of attempts, copies in flight and faults. That a confirmed row was acted on needs
that a receipt under way was written by a peer that had acted (`ReceiptIsTruth`). That the
sends pass `REVOKE_MAX_ATTEMPTS` by at most one per other task is not inductive: `Within`
counts with every send made the tasks that have read the row and will add one
(`BusyIn`), and the lemmas say how that set changes with one task's job.

**Commands** (in `RecordsProofs`), for any timeout, skew, clock offsets and number of
faults; the assumptions are that they are numbers. `CInv` adds to the properties `Sent`
(the frame is somewhere only once it was sent, at most twice at the hub), `OnceOnly` (the
seen set is set exactly when the task exists, and a task past its start does not come back
to it) and `AckIsTruth` (the ack under way tells what the task did). Results:
`CommandTypeCorrect`, `Truthful`, `AtMostOnce`.

**`MeshProofs`**, for any nodes, writers, readers and late keys, any number of changes and
faults, any tap and page size. `IInv` says where frames may be and how far cursors have
come (`Placed`), that a frame's id names it (`Named`), that nobody hears of a change before
it is committed and that below what a batch carries its reader holds a change (`Written`),
and that a frame seen is opened, parked or dropped for its age (`Opened`), crashes between
the seen set and the apply included (`lost` names those, `aged` the dropped ones).
`HeldAreOpened` and `SkippedAreAsked` are proved for `ControlLoss = {}`: `Asked` says that
every hole below a change a node holds, every change its cursor has passed, and every
change of a frame dropped for its age at a node that has the key, is in a request or an
answer still to be read (`Coming`). A step that uses up a request puts the answer in its
place, one that uses up an answer fills the hole, a hole made by a page that was gone is
asked for in the same step, and the step that brings the key asks every site
(`Regains`). With `ControlLoss` the conclusions are false (section 4).

**`RolloutsProofs`**, for any targets, bundles, assignment of versions, rollouts and
faults; versions and bounds are assumed natural. `IInv` adds `AnswersAreTrue` (a receipt
or hello under way names a bundle its target has run), `RowsAreTrue` (rollouts that exist
have a bundle, others no rows; a row says applied only of a bundle that ran) and
`RunsItsNewest` (a target not strayed runs the newest bundle it has had). The first two
give `AppliedIsInstalled`: a row is settled by answers alone and answers stay true, since
what a target has run only grows. The third gives the action property
`MeshNeverMovesBack`: `judge_offer` compares with what runs, which is then the newest.
Which rollout is due for a target is a maximum; `NewestExists` obtains it from the
well-foundedness of the naturals.

`RecordsAreTrue` needs two more facts, in `Traced`: what is sent to a target or run by one
the operator left alone has a row there, and the bundle its last hello named is applied by
some row. With versions in order, the newest live rollout recorded as applied is then what
the target runs.

**`NodeConfigProofs`**, for any versions, migrations, number of writes, failed starts and
kills. The assumptions are types, and that a migrated text is not migrated again and loads
if and only if its original does (which is how a load reads it). `IInv` has the types
(`Typed`, `Places`), `Kept` (while a restore holds the lock the file it replaces has been
kept) and `Restored` (until somebody changes the file or last-good, a restored file is
last-good or its migration); `RestoreKeepsTheFile` and `RestoresEnd` rest on it. `LogIsTrue`, that the audit log tells the truth, is the long
one. The code settles rows by a loop that follows them back from the file; the model has
its result as the least set of rows closed under that step (`BuiltOn`). `LInv` says for
landed rows that every version from which the loop may start or continue belongs to rows
that came true or that an edit undid (`LandedTrue`), and for lost ones that from every row
that came true *every* closed set leads to the file (`LeadsTo`), so the least one does.
Between a migration and the settling of its own start the loop begins from the version
migrated as well (`Roots`); the row of a restore whose last-good was migrated is landed by
its own start (`Marking`). `EditHeld`, `Places` and `Numbered` say what the edit under way,
the process and the rows know of each other.

**`PublicationProofs`**, for any number of requests, revisions, stops, lost answers and acts
of others. `IInv` has what a request relies on whatever is done beside it (`Mem`), what it
relies on while nobody raced it (`Sole`, `Fresh`), and that the forge holds nothing a
record does not admit to (`Contacted`, `HoldPushed`, `RowsTrue`). Results:
`NotAttemptedIsNothing`, `ApprovedIsPublished`, the action property `PushesReplaceNothing`,
and, with a second invariant that follows one publication from its claim to its comment
(`JInv`), `PublishedOnce` and `ClaimsHaveAWayOut`.

**`SessionProofs`**, for any number of messages, turns, events and limits. `SInv` ties the
row, the supervisor's memory and the harness together at each place of the loop: a row read
a step ago still tells what matters, since only the supervisor starts turns and pauses
(`AtDispatch`, `AtBack`). `QInv` orders what was told, claimed and queued. Results:
`OneTurnAtATime`, `LiveIsSupervised`, `MessagesInOrder` and the action properties
`NothingDropped` and `FencesHold`.

**Only model-checked**: every liveness property (TLAPS has no fairness reasoning
here), and the five properties of `Credentials`. The inductive invariants of `MeshSync`,
`NodeConfig` and `Session` were also checked by TLC on the runs' instances, that of
`NodeConfig` on one with a third write as well (35,806,139 states).

## 6. Not modelled

* Most of the repository by volume: the models take the parts where several actors meet
  over shared state, a few percent of its lines. What lies around them is listed here.
* Cryptography, parsing and wire formats; SQL migrations.
* Sandboxes, runners and model providers: outside the repository. Of them, what is
  modelled is that a provider rotates a refresh token when it is used, that a forge may
  do what it does not answer for, and that a harness may die at any time.
* Within modelled components:
  * records: `prune_tombstones`, HTML bundles, embeddings;
  * mesh: mirrored sessions and event batches; narrowing the channels of other sign-ins of
    a family (`take_channels`); policy drafts and key adoption; `seen_prune` (it forgets
    a frame after `SEEN_RETENTION_MS`, which matters to one posted again later than that
    only), and keys that arrive outside the mesh (an operator's import);
  * configuration: the key schema and validation (a version loads or it does not), the
    drain before a restart, and the backup a migration keeps (`node.toml.pre-*`). A
    migration's write of the file is one step, although it is not a rename; the migration
    of another command's load is a save of `TextEditor`; a restore is looked for among all
    rows and not the last two hundred, and its record does not fail;
  * publication: squashing and rewording (the pushed commit is the head), a comment that
    fails to post, the fallback of a rewrite without a lease, failed writes of the store,
    drafts, evidence, and the verdicts revise and reject. Others never push our commit. A
    resumed attempt sees every comment and change; the code asks for a hundred comments and
    fifty changes (`publish.rs:1162`, `:1724`), so that on a busier change a comment may be
    posted again and a change not found;
  * sessions: exhaustion of a model, the drain before a restart, how a continuation is
    built, reattaching to a runner, the steps of a start, and MCP approvals. One check and
    one question at a time; spending is a choice of the model. The channel to the
    supervisor is never full: it holds sixteen commands and a sender waits ten seconds for
    room (`session/mod.rs:3530`), past which a Stop closes the row and its Kill is lost.
    A message claimed for a tool's result counts as given to the agent, also when the turn
    that called the tool has ended.
* The agent's journal, the hub's replica, enrollment, approvals and grants, step-up: the
  plan below.

## 7. Plan

Done: `Records`, `FsFrames`/`FrameLog`, `MeshSync`, `Credentials`, `Rollouts`, `Revokes`,
`Commands`, `NodeConfig`, `Publication`, `Session`, and proofs about all of them but
`Credentials`.

Next, in this order:

1. `Journal`: records of a turn and `restore`. A call that started is never reported as
   not run; every call is answered once. Pure part checked against a definition by sets.
2. `Replica`: the hub's replica as a reader of `FrameLog` applying as `Records` does.
3. `Enrollment`: slot, admission and key handoff; lost answers and expiry.
4. Approvals and grants at dispatch; `StepUp`: challenges bound to one action, spent once.
5. Proofs about `Credentials`: the tombstone rules of `Broker` as lemmas towards
   `RemovedStaysRemoved`, then the others.
