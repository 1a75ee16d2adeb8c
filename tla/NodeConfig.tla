------------------------------ MODULE NodeConfig ------------------------------
(***************************************************************************)
(* node.toml: how it is edited, taken in by the running node, kept as      *)
(* last-known-good and put back (node/src/config/edit.rs, live.rs,         *)
(* last_good.rs, node/src/store/config_audit.rs and the start of `serve`   *)
(* in node/src/http/mod.rs).                                               *)
(*                                                                         *)
(* A version of the file is a number.  The writers that take the edit lock *)
(* are the node itself, the command line (another process) and the restore *)
(* of last-good; a text editor takes no lock.  Any process may stop        *)
(* between two of its writes.                                              *)
(***************************************************************************)
EXTENDS Integers, Sequences

CONSTANTS
    Files,            \* versions of the file, numbered
    FirstFiles,       \* the versions a node may find before its first start
    Loads,            \* the versions that pass a load's checks; every one parses
    Migrate,          \* Migrate[f]: f as migrate_config rewrites it, f if it names no retired harness
    RestartKeys,      \* RestartKeys[f]: the values of f's restart-only keys
    Starts,           \* the values of those keys a node gets to serve with
    Overlays,         \* the versions whose live keys can be laid over another
    FAILED_BOOTS,
    MaxWrites,        \* bound: edits of the file, by anyone
    MaxFaults         \* bound: processes killed, writes refused

NoFile == 0
NoRow == 0

ASSUME ConstAssumption ==
    /\ Files \subseteq Nat \ {NoFile} /\ FirstFiles \subseteq Files /\ Loads \subseteq Files /\ Overlays \subseteq Files
    /\ Migrate \in [Files -> Files]
    /\ \A f \in Files : Migrate[Migrate[f]] = Migrate[f] /\ (f \in Loads <=> Migrate[f] \in Loads)
    /\ RestartKeys \in [Files -> Nat] /\ Starts \subseteq Nat
    /\ {FAILED_BOOTS, MaxWrites, MaxFaults} \subseteq Nat

VARIABLES
    file,      \* node.toml
    lastGood,  \* node.toml.last-good, NoFile before there is one
    boots,     \* boot-attempts.json
    backups,   \* the versions kept as node.toml.failed-*
    audit,     \* the config_audit rows, oldest first
    pc,        \* how far the serving process has come
    node,      \* the memory of the serving process
    edit,      \* the edit that holds the lock: who makes it and how far it is
    applying,  \* the version an edit of the node wrote and has yet to apply
    slipped,   \* history: a write fell between the load and the read of its text
    behind,    \* history: the versions written beside the lock, by a text editor or by a
               \* migration in the middle of an edit
    migrated,  \* history: the versions a start's migration wrote over
    restores,  \* history: restores made, and whether the file was written since
    unsettled, \* history: the log was settled in the middle of an edit, or a version whose
               \* row was still open was put away by a restore, or by a migration of a start
               \* that did not come to settle that row
    writes, faults

vars == <<file, lastGood, boots, backups, audit, pc, node, edit, applying, slipped, behind,
          migrated, restores, unsettled, writes, faults>>

history == <<slipped, behind, migrated, restores, unsettled>>

NoEdit == [who |-> "none", row |-> NoRow, new |-> NoFile, at |-> "idle"]
NoRestore == [id |-> 0, failed |-> NoFile, good |-> NoFile]

\* What a process knows before it has loaded anything.
Blank == [seen |-> NoFile, before |-> NoFile, loaded |-> NoFile, text |-> NoFile, applied |-> NoFile,
          failed |-> NoFile, candidate |-> NoFile, previous |-> NoFile]

Up == {"serving", "graced", "healthy"}
Starting == {"restore", "keep", "replaced", "boot", "hashed", "migrating", "loaded", "reconcile", "start", "settle",
             "insert", "landing"}
\* A row; `reached` is history: its edit wrote the file, or while it was pending the
\* file came to be version `new` some other way.
Rows == [id: Nat, old: Files, new: Files, state: {"pending", "landed", "lost"}, reached: BOOLEAN]

\* Every piece of state has the shape the code gives it, and a node in memory
\* exists only while its process does.
TypeOK ==
    /\ file \in Files /\ lastGood \in Files \cup {NoFile} /\ backups \subseteq Files
    /\ boots.hash \in Files \cup {NoFile} /\ boots.attempts \in 0 .. FAILED_BOOTS + 1
    /\ boots.restored.id <= restores.made
    /\ \A i \in DOMAIN audit : audit[i] \in Rows
    /\ pc \in {"down"} \cup Starting \cup Up /\ (pc = "down" => node = Blank)
    /\ edit.at \in {"idle", "inserted", "written"} /\ edit.who \in {"none", "node", "cli"}
    /\ applying # NoFile => pc \in Up
    /\ writes \in 0 .. MaxWrites /\ faults \in 0 .. MaxFaults

\* A node that has never been started.
Init ==
    /\ file \in FirstFiles /\ lastGood = NoFile
    /\ boots = [hash |-> NoFile, attempts |-> 0, restored |-> NoRestore]
    /\ backups = {} /\ audit = <<>> /\ pc = "down" /\ node = Blank
    /\ edit = NoEdit /\ applying = NoFile
    /\ slipped = FALSE /\ behind = {} /\ migrated = {} /\ restores = [made |-> 0, since |-> TRUE] /\ unsettled = FALSE
    /\ writes = 0 /\ faults = 0

Fault == faults < MaxFaults /\ faults' = faults + 1

\* The edit lock (edit::lock) is taken by one edit or by the restore.
LockFree == edit = NoEdit /\ pc # "keep"

\* Whoever writes the file, what the histories keep of it.
Reached(f, own) ==
    [i \in DOMAIN audit |-> [audit[i] EXCEPT !.reached =
        @ \/ audit[i].id = own \/ (audit[i].state = "pending" /\ audit[i].new = f)]]

Wrote == restores' = [restores EXCEPT !.since = TRUE]

\* With f in the file, some row left open names a version of `over`.
Buried(over, f) == \E i \in DOMAIN audit : audit[i].state = "pending" /\ audit[i].new \in over \ {f}

\* config_audit_settle: a row landed if its version is one the file has been in:
\* one of `versions`, or what a landed row started from, and so on down the log.
\* The loop stops when it marks no more rows, so it marks the fewest that are closed
\* under that rule.
Closed(rows, versions, marked) ==
    \A i \in DOMAIN rows :
        \/ rows[i].state = "landed"
        \/ /\ rows[i].state = "pending"
           /\ rows[i].new \in versions \/ \E j \in marked : rows[j].old = rows[i].new
        => i \in marked

BuiltOn(rows, versions) ==
    {i \in DOMAIN rows : \A marked \in SUBSET DOMAIN rows : Closed(rows, versions, marked) => i \in marked}

AuditSettle(rows, versions) ==
    [i \in DOMAIN rows |->
        IF rows[i].state = "pending"
        THEN [rows[i] EXCEPT !.state = IF i \in BuiltOn(rows, versions) THEN "landed" ELSE "lost"]
        ELSE rows[i]]

SetRow(id, state) ==
    [i \in DOMAIN audit |-> IF audit[i].id = id THEN [audit[i] EXCEPT !.state = state] ELSE audit[i]]

-----------------------------------------------------------------------------
(* A start of the node: on_boot, the load, and what serve does before it serves *)

BlamesUnreadable(current, good) ==
    good \in Loads /\ current \notin Loads

\* to_blame, given there is a different last-good: both as a start would read them.
ToBlame(current, good) ==
    good \in Loads /\ (current \notin Loads \/ RestartKeys[Migrate[good]] # RestartKeys[Migrate[current]])

\* Starts are counted up to FAILED_BOOTS, which is all on_boot tells apart.
Counted(b) == [b EXCEPT !.attempts = IF @ > FAILED_BOOTS THEN @ ELSE @ + 1]

\* on_boot: count this start against the file as it is now, before it is loaded,
\* unless the file has failed too often and last-good is to be put back.
Boot ==
    /\ pc = "down"
    /\ LET b == IF boots.hash = file THEN boots ELSE [boots EXCEPT !.hash = file, !.attempts = 0]
       IN IF b.attempts >= FAILED_BOOTS /\ lastGood \notin {NoFile, file} /\ ToBlame(file, lastGood)
          THEN pc' = "restore" /\ node' = [node EXCEPT !.seen = file] /\ UNCHANGED boots
          ELSE pc' = "boot" /\ boots' = Counted(b) /\ UNCHANGED node
    /\ UNCHANGED <<file, lastGood, backups, audit, edit, applying, history, writes, faults>>

\* The restore takes the edit lock and looks again: a file edited since is a new
\* file with a count of its own.  The one that failed is kept first.
RestoreUnchecked ==
    /\ pc = "restore" /\ LockFree
    /\ backups' = backups \cup {node.seen} /\ pc' = "keep" /\ UNCHANGED boots
    /\ UNCHANGED <<file, lastGood, audit, node, edit, applying, history, writes, faults>>

RestoreLocked ==
    /\ pc = "restore" /\ LockFree
    /\ IF file # node.seen
       THEN /\ boots' = [boots EXCEPT !.hash = file, !.attempts = 1]
            /\ pc' = "boot" /\ node' = Blank /\ UNCHANGED backups
       ELSE backups' = backups \cup {node.seen} /\ pc' = "keep" /\ UNCHANGED <<boots, node>>
    /\ UNCHANGED <<file, lastGood, audit, edit, applying, history, writes, faults>>

RestoreBeside ==
    /\ pc = "keep" /\ pc' = "replaced"
    /\ restores' = [made |-> restores.made + 1, since |-> FALSE]
    /\ UNCHANGED <<file, lastGood, boots, backups, audit, node, edit, applying, slipped, behind, migrated, unsettled,
                   writes, faults>>

\* last-good takes its place, and the lock is let go ...
RestoreReplace ==
    /\ pc = "keep"
    /\ file' = lastGood /\ pc' = "replaced" /\ audit' = Reached(lastGood, NoRow)
    /\ restores' = [made |-> restores.made + 1, since |-> FALSE]
    /\ unsettled' = (unsettled \/ \E i \in DOMAIN audit : audit[i].state = "pending" /\ audit[i].new = file)
    /\ UNCHANGED <<lastGood, boots, backups, node, edit, applying, slipped, behind, migrated, writes, faults>>

\* ... before boot-attempts.json says so.  The restore's id is its number.
RestoreNoted ==
    /\ pc = "replaced"
    /\ boots' = Counted([hash |-> lastGood, attempts |-> 0,
                         restored |-> [id |-> restores.made, failed |-> node.seen, good |-> lastGood]])
    /\ pc' = "boot" /\ node' = Blank
    /\ UNCHANGED <<file, lastGood, backups, audit, edit, applying, history, writes, faults>>

\* A write of on_boot fails: the node starts without the safety net.
NotCounted ==
    /\ Fault /\ pc \in {"down", "restore", "keep", "replaced"}
    /\ pc' = "boot" /\ node' = Blank
    /\ UNCHANGED <<file, lastGood, boots, backups, audit, edit, applying, history, writes>>

\* The file's hash as it was before this start loaded it ...
HashFile ==
    /\ pc = "boot"
    /\ pc' = "hashed" /\ node' = [node EXCEPT !.before = file]
    /\ UNCHANGED <<file, lastGood, boots, backups, audit, edit, applying, history, writes, faults>>

\* from_toml: a text that does not load ends the start.
Parse(f) ==
    IF f \in Loads THEN pc' = "loaded" /\ node' = [node EXCEPT !.loaded = f] ELSE pc' = "down" /\ node' = Blank

\* ... and Config::try_load.  A text that names a retired harness is migrated first.
Load ==
    /\ pc = "hashed"
    /\ IF Migrate[file] = file THEN Parse(file)
       ELSE pc' = "migrating" /\ node' = [node EXCEPT !.loaded = Migrate[file]]
    /\ UNCHANGED <<file, lastGood, boots, backups, audit, edit, applying, history, writes, faults>>

\* persist_config_migration writes the migrated text over the file, without the lock,
\* without a row, and whatever the file has become since it was read ...
MigrationWrites ==
    /\ pc = "migrating" /\ Parse(node.loaded)
    /\ file' = node.loaded /\ audit' = Reached(node.loaded, NoRow)
    /\ migrated' = migrated \cup {file}
    /\ behind' = IF edit = NoEdit THEN behind ELSE behind \cup {node.loaded}
    /\ unsettled' = \/ unsettled
                    \/ (file # node.before \/ node.loaded \notin Loads) /\ Buried(migrated', node.loaded)
    /\ UNCHANGED <<lastGood, boots, backups, edit, applying, slipped, restores, writes, faults>>

\* ... or cannot: the node runs on the migrated text either way.
MigrationFails ==
    /\ Fault /\ pc = "migrating" /\ Parse(node.loaded)
    /\ UNCHANGED <<file, lastGood, boots, backups, audit, edit, applying, history, writes>>

\* set_boot_text: the file is read a second time for its text.
ReadBootText ==
    /\ pc = "loaded"
    /\ node' = [node EXCEPT !.text = file] /\ pc' = "reconcile"
    /\ slipped' = (slipped \/ Migrate[file] # node.loaded)
    /\ UNCHANGED <<file, lastGood, boots, backups, audit, edit, applying, behind, migrated, restores, unsettled,
                   writes, faults>>

ReconcileCurrent ==
    /\ pc = "reconcile"
    /\ audit' = AuditSettle(audit, {file})
    /\ unsettled' = (unsettled \/ edit # NoEdit)
    /\ pc' = "start" /\ node' = [node EXCEPT !.before = NoFile]
    /\ UNCHANGED <<file, lastGood, boots, backups, edit, applying, slipped, behind, migrated, restores, writes, faults>>

\* reconcile_audit, without the edit lock: against the file as it is and as it was before
\* the load.
ReconcileAudit ==
    /\ pc = "reconcile"
    /\ audit' = AuditSettle(audit, {file, node.before})
    /\ unsettled' = (unsettled \/ edit # NoEdit)
    /\ pc' = "start" /\ node' = [node EXCEPT !.before = NoFile]
    /\ UNCHANGED <<file, lastGood, boots, backups, edit, applying, slipped, behind, migrated, restores, writes, faults>>

\* The log cannot be settled, and is left to the next start.
NotReconciled ==
    /\ Fault /\ pc = "reconcile"
    /\ unsettled' = (unsettled \/ Buried(migrated, file))
    /\ pc' = "start" /\ node' = [node EXCEPT !.before = NoFile]
    /\ UNCHANGED <<file, lastGood, boots, backups, audit, edit, applying, slipped, behind, migrated, restores, writes>>

\* The listener is bound and the runtime reached, or the start fails.
Start ==
    /\ pc = "start"
    /\ IF RestartKeys[node.loaded] \in Starts
       THEN /\ pc' = IF boots.restored = NoRestore THEN "serving" ELSE "settle"
            /\ node' = [node EXCEPT !.loaded = NoFile]
       ELSE pc' = "down" /\ node' = Blank
    /\ UNCHANGED <<file, lastGood, boots, backups, audit, edit, applying, history, writes, faults>>

\* settle, record: the restore's row, once by its id ...
RestoreRow(rs) ==
    [id |-> MaxWrites + rs.id, old |-> rs.failed, new |-> rs.good, state |-> "pending", reached |-> TRUE]

Record ==
    /\ pc = "settle"
    /\ LET row == RestoreRow(boots.restored)
       IN IF \E i \in DOMAIN audit : audit[i].id = row.id
          THEN pc' = "landing" /\ UNCHANGED audit
          ELSE audit' = Append(audit, row) /\ pc' = "insert"
    /\ UNCHANGED <<file, lastGood, boots, backups, node, edit, applying, history, writes, faults>>

RecordLanded ==
    /\ pc = "insert"
    /\ audit' = SetRow(MaxWrites + boots.restored.id, "landed") /\ pc' = "landing"
    /\ UNCHANGED <<file, lastGood, boots, backups, node, edit, applying, history, writes, faults>>

\* ... and then it is forgotten.
RecordForgets ==
    /\ pc = "landing"
    /\ boots' = [boots EXCEPT !.restored = NoRestore] /\ pc' = "serving"
    /\ UNCHANGED <<file, lastGood, backups, audit, node, edit, applying, history, writes, faults>>

-----------------------------------------------------------------------------
(* The running node *)

\* STARTED_GRACE: the start did not fail.
Graced ==
    /\ pc = "serving"
    /\ boots' = [boots EXCEPT !.attempts = 0] /\ pc' = "graced"
    /\ UNCHANGED <<file, lastGood, backups, audit, node, edit, applying, history, writes, faults>>

\* HEALTHY_AFTER: promote the text the node started from.
Promote ==
    /\ pc = "graced"
    /\ lastGood' = node.text /\ pc' = "healthy"
    /\ restores' = [restores EXCEPT !.since = @ \/ lastGood' # lastGood]
    /\ UNCHANGED <<file, boots, backups, audit, node, edit, applying, slipped, behind, migrated, unsettled, writes, faults>>

\* running_hash: the version whose live keys the node runs with.
RunningHash ==
    IF node.applied = NoFile THEN node.text
    ELSE IF node.failed = node.applied THEN NoFile ELSE node.applied

\* keep_current, at every later look.
KeepsCurrent(f) ==
    node.previous = f /\ RunningHash = f /\ f \in Loads /\ RestartKeys[f] = RestartKeys[node.text]

KeepCurrent ==
    /\ pc = "healthy"
    /\ lastGood' = IF KeepsCurrent(file) THEN file ELSE lastGood
    /\ restores' = [restores EXCEPT !.since = @ \/ lastGood' # lastGood]
    /\ node' = [node EXCEPT !.previous = file]
    /\ UNCHANGED <<file, boots, backups, audit, pc, edit, applying, slipped, behind, migrated, unsettled, writes, faults>>

\* apply_ordered: f's live keys are laid over what the node started with.
Applied(f) ==
    [node EXCEPT !.applied = f, !.failed = IF f \in Overlays THEN NoFile ELSE f]

\* A version that does not load is only remembered as seen.
TakenIn(f) == IF f \in Loads THEN Applied(f) ELSE [node EXCEPT !.applied = f]

Seen == IF node.applied = NoFile THEN node.text ELSE node.applied

\* refresh_live_from, at every tick: what another process wrote is taken in at the
\* second look that sees it.  The [[repo]] lock keeps it out of the node's own edits.
RefreshForgets ==
    /\ pc \in Up /\ applying = NoFile /\ edit.who # "node"
    /\ node' = IF Seen # file /\ node.candidate = file THEN TakenIn(file)
               ELSE [node EXCEPT !.candidate = IF Seen = file THEN file ELSE NoFile]
    /\ UNCHANGED <<file, lastGood, boots, backups, audit, pc, edit, applying, history, writes, faults>>

Refresh ==
    /\ pc \in Up /\ applying = NoFile /\ edit.who # "node"
    /\ node' = IF Seen # file /\ node.candidate = file THEN [TakenIn(file) EXCEPT !.candidate = NoFile]
               ELSE [node EXCEPT !.candidate = IF Seen = file THEN NoFile ELSE file]
    /\ UNCHANGED <<file, lastGood, boots, backups, audit, pc, edit, applying, history, writes, faults>>

\* A clean stop of a serving node.
Stop ==
    /\ pc \in Up /\ edit.who # "node" /\ applying = NoFile
    /\ boots' = [boots EXCEPT !.attempts = 0] /\ pc' = "down" /\ node' = Blank
    /\ UNCHANGED <<file, lastGood, backups, audit, edit, applying, history, writes, faults>>

\* The process is killed, wherever it is; an edit of its own goes with it.
Killed ==
    /\ Fault /\ pc # "down"
    /\ pc' = "down" /\ node' = Blank /\ applying' = NoFile
    /\ edit' = IF edit.who = "node" THEN NoEdit ELSE edit
    /\ unsettled' = (unsettled \/ Buried(migrated, file))
    /\ UNCHANGED <<file, lastGood, boots, backups, audit, slipped, behind, migrated, restores, writes>>

-----------------------------------------------------------------------------
(* edit_at, by the node (edit_live_at) or by another process *)

\* Under the lock: read, check, and insert a pending row.  An edit decided against
\* another version, or whose outcome does not load, changes nothing.
EditBegins(who, f) ==
    /\ writes < MaxWrites /\ LockFree /\ f \in Loads \ {file}
    /\ who = "node" => pc \in Up /\ applying = NoFile
    /\ writes' = writes + 1
    /\ audit' = Append(audit, [id |-> writes + 1, old |-> file, new |-> f, state |-> "pending", reached |-> FALSE])
    /\ edit' = [who |-> who, row |-> writes + 1, new |-> f, at |-> "inserted"]
    /\ UNCHANGED <<file, lastGood, boots, backups, pc, node, applying, history, faults>>

\* write_replacing renames the new file over the old one ...
EditWrites ==
    /\ edit.at = "inserted"
    /\ file' = edit.new /\ edit' = [edit EXCEPT !.at = "written"]
    /\ audit' = Reached(edit.new, edit.row) /\ Wrote
    /\ UNCHANGED <<lastGood, boots, backups, pc, node, applying, slipped, behind, migrated, unsettled, writes, faults>>

Without(rows, i) == SubSeq(rows, 1, i - 1) \o SubSeq(rows, i + 1, Len(rows))

\* ... or fails, and the row is withdrawn.
EditFails ==
    /\ Fault /\ edit.at = "inserted"
    /\ \E i \in DOMAIN audit : audit[i].id = edit.row /\ audit' = Without(audit, i)
    /\ edit' = NoEdit
    /\ UNCHANGED <<file, lastGood, boots, backups, pc, node, applying, history, writes>>

\* The row has landed, and the lock is let go.
EditLands ==
    /\ edit.at = "written"
    /\ audit' = SetRow(edit.row, "landed")
    /\ applying' = IF edit.who = "node" THEN edit.new ELSE applying
    /\ edit' = NoEdit
    /\ UNCHANGED <<file, lastGood, boots, backups, pc, node, history, writes, faults>>

\* The file is written and its row cannot be marked: it stays pending.
EditUnmarked ==
    /\ Fault /\ edit.at = "written"
    /\ applying' = IF edit.who = "node" THEN edit.new ELSE applying
    /\ edit' = NoEdit
    /\ UNCHANGED <<file, lastGood, boots, backups, audit, pc, node, history, writes>>

\* apply_live_at: the node takes its edit in, if the file is still that version.
EditApplies ==
    /\ applying # NoFile
    /\ node' = IF file = applying THEN Applied(applying) ELSE node
    /\ applying' = NoFile
    /\ UNCHANGED <<file, lastGood, boots, backups, audit, pc, edit, history, writes, faults>>

\* The other process is killed in the middle of its edit.
EditorKilled ==
    /\ Fault /\ edit.who = "cli" /\ edit' = NoEdit
    /\ UNCHANGED <<file, lastGood, boots, backups, audit, pc, node, applying, history, writes>>

\* A text editor saves any version, and takes no lock; nor does the migration of another
\* command's load.
TextEditor(f) ==
    /\ writes < MaxWrites /\ f # file
    /\ file' = f /\ writes' = writes + 1
    /\ behind' = behind \cup {f} /\ audit' = Reached(f, NoRow) /\ Wrote
    /\ UNCHANGED <<lastGood, boots, backups, pc, node, edit, applying, slipped, migrated, unsettled, faults>>

StartStep ==
    \/ Boot \/ RestoreLocked \/ RestoreReplace \/ RestoreNoted \/ HashFile \/ Load \/ MigrationWrites
    \/ ReadBootText \/ ReconcileAudit \/ Start \/ Record \/ RecordLanded \/ RecordForgets

EditStep == EditWrites \/ EditLands

Next ==
    \/ StartStep \/ Graced \/ Promote \/ KeepCurrent \/ Refresh \/ Stop \/ Killed
    \/ NotCounted \/ MigrationFails \/ NotReconciled
    \/ \E f \in Files : EditBegins("node", f) \/ EditBegins("cli", f) \/ TextEditor(f)
    \/ EditStep \/ EditFails \/ EditUnmarked \/ EditApplies \/ EditorKilled

Spec == Init /\ [][Next]_vars

\* Whatever supervises the node starts it again (a service unit's Restart=always, a
\* pod), a start goes on until it serves or dies, and an edit does not stop half
\* way with the lock in its hands.  The node's tick refreshes every fifteen seconds.
FairSpec == Spec /\ WF_vars(StartStep) /\ WF_vars(EditStep) /\ WF_vars(Refresh \/ EditApplies)

-----------------------------------------------------------------------------
(* Properties *)

\* "Nothing is lost: the file it replaces is kept first" (last_good.rs): a restore
\* never removes a version that is not kept as a failed file, whatever edits race
\* it under the lock; only a save that takes no lock can slip under it.
NothingLost ==
    [][RestoreReplace => file \in backups \cup behind]_vars

\* "It cannot loop" (last_good.rs): between two restores somebody changed the file
\* or last-good itself; the migration of a restored file is no such change.
RestoresDoNotLoop == [][RestoreReplace => restores.since]_vars

\* An edit that puts back what an earlier row or a migration had changed.
Reverts ==
    \/ \E i, j \in DOMAIN audit : i < j /\ audit[j].new = audit[i].old
    \/ \E j \in DOMAIN audit : audit[j].new \in migrated

\* The audit log tells what happened to the file, while every write takes the lock but
\* a start's migration with no edit under way.  A restore is recorded once, however
\* often the start that records it is killed.  A landed row names a version that reached
\* the file, whatever was killed between row and rename, unless an edit put an earlier
\* version back.  A lost row wrote nothing, unless an edit was under way as a start
\* settled it, or its version had been put away first by a restore or by the migration of
\* a start that did not come to settle it: the edits built on a row, and the file before
\* this start's migration, show that it landed after the file has moved on.  (And the
\* log's rows, like the rest of the state, have the shape the code gives them.)
LogTellsTheTruth ==
    /\ TypeOK
    /\ \A i, j \in DOMAIN audit : audit[i].id = audit[j].id => i = j
    /\ behind = {} => \A i \in DOMAIN audit :
        /\ audit[i].state = "landed" => audit[i].reached \/ Reverts
        /\ audit[i].state = "lost" => ~audit[i].reached \/ unsettled

\* A node with a last-good that starts comes to serve, whatever the file holds and
\* whoever wrote it: edits and kills end, and three failed starts put it back.
ComesToServe == []<>(pc \in Up \/ lastGood = NoFile \/ slipped)

\* What the file says is taken in by a running node in the end, through its own edit
\* or the second look that sees it, whoever wrote it last.
LiveKeysFollow == []<>(pc \notin Up \/ Seen = file)

=============================================================================
