--------------------------- MODULE NodeConfigProofs ---------------------------
(***************************************************************************)
(* Proofs about NodeConfig for any versions of the file, any number of     *)
(* edits, kills and failed starts, and whatever loads and serves.          *)
(***************************************************************************)
EXTENDS NodeConfig, TLAPS

\* While a restore holds the lock, no edit does, and the file it is about to replace
\* has been kept, or was saved without the lock since.
Kept == pc = "keep" => edit = NoEdit /\ file \in backups \cup behind

Versions == Files \cup {NoFile}
Restoring == [id : Nat, failed : Versions, good : Versions]
BootFiles == [hash : Versions, attempts : 0 .. FAILED_BOOTS + 1, restored : Restoring]
Memories == [seen : Versions, before : Versions, loaded : Versions, text : Versions, applied : Versions,
             failed : Versions, candidate : Versions, previous : Versions]

\* The full types of the state.
Typed ==
    /\ file \in Files /\ lastGood \in Versions /\ backups \subseteq Files /\ behind \subseteq Files
    /\ migrated \subseteq Files
    /\ boots \in BootFiles
    /\ restores \in [made : Nat, since : BOOLEAN]
    /\ audit \in Seq(Rows)
    /\ pc \in {"down"} \cup Starting \cup Up
    /\ node \in Memories
    /\ edit \in [who : {"none", "node", "cli"}, row : Nat, new : Versions, at : {"idle", "inserted", "written"}]
    /\ applying \in Versions /\ slipped \in BOOLEAN /\ unsettled \in BOOLEAN
    /\ writes \in 0 .. MaxWrites /\ faults \in 0 .. MaxFaults

\* A restore has been made and its row is still to be written.
Unrecorded == boots.restored # NoRestore \/ pc = "replaced"

\* What each place of the process and each edit knows.
Places ==
    /\ pc = "down" => node = Blank
    /\ applying # NoFile \/ edit.who = "node" => pc \in Up
    /\ edit = NoEdit \/ (edit.at # "idle" /\ edit.who # "none" /\ edit.row \in 1 .. writes /\ edit.new \in Files)
    /\ node.before # NoFile => pc \in {"hashed", "migrating", "loaded", "reconcile"}
    /\ pc = "migrating" => node.loaded \in Files
    /\ pc \in Up => boots.restored = NoRestore
    /\ pc \in {"settle", "insert", "landing"} => boots.restored # NoRestore
    /\ boots.restored.id <= restores.made
    /\ boots.restored # NoRestore =>
            /\ boots.restored.id >= 1 /\ boots.restored.failed \in Files
            /\ lastGood \in Files /\ boots.restored.good = lastGood
    /\ pc \in {"restore", "keep", "replaced"} => lastGood \in Files /\ node.seen \in Files
    /\ pc = "replaced" => restores.made >= 1

\* The constants, as the provers use them.
LEMMA Consts ==
    /\ NoFile = 0 /\ NoFile \notin Files /\ Files \subseteq Nat /\ Loads \subseteq Files /\ FirstFiles \subseteq Files
    /\ FAILED_BOOTS \in Nat /\ MaxWrites \in Nat /\ MaxFaults \in Nat
BY ConstAssumption, Zenon DEF ConstAssumption, NoFile

\* A migrated version is one, has nothing left to migrate, and loads if the version did.
LEMMA Migrated ==
    ASSUME NEW f \in Files
    PROVE  Migrate[f] \in Files /\ Migrate[Migrate[f]] = Migrate[f] /\ (f \in Loads <=> Migrate[f] \in Loads)
BY ConstAssumption, Zenon DEF ConstAssumption

\* Two sequences put together.
LEMMA Together ==
    ASSUME NEW S, NEW q \in Seq(S), NEW r \in Seq(S)
    PROVE  /\ q \o r \in Seq(S) /\ Len(q \o r) = Len(q) + Len(r)
           /\ \A i \in 1 .. Len(q) : (q \o r)[i] = q[i]
           /\ \A i \in Len(q) + 1 .. Len(q) + Len(r) : (q \o r)[i] = r[i - Len(q)]
OBVIOUS

\* A sequence and one more element.
LEMMA Appended ==
    ASSUME NEW S, NEW q \in Seq(S), NEW e
    PROVE  /\ DOMAIN Append(q, e) = 1 .. Len(q) + 1 /\ Append(q, e)[Len(q) + 1] = e
           /\ \A i \in DOMAIN q : Append(q, e)[i] = q[i]
OBVIOUS

\* Withdrawing a row moves the later ones down by one.
LEMMA Withdrawn ==
    ASSUME NEW S, NEW s \in Seq(S), NEW k \in 1 .. Len(s)
    PROVE  /\ Without(s, k) \in Seq(S) /\ Len(Without(s, k)) = Len(s) - 1
           /\ \A i \in 1 .. Len(s) - 1 : Without(s, k)[i] = s[IF i < k THEN i ELSE i + 1]
<1> DEFINE t == SubSeq(s, 1, k - 1)
           u == SubSeq(s, k + 1, Len(s))
<1>1. Len(s) \in Nat OBVIOUS
<1>2. t \in Seq(S) /\ Len(t) = k - 1 /\ \A i \in 1 .. k - 1 : t[i] = s[i]
  BY <1>1
<1>3. u \in Seq(S) /\ Len(u) = Len(s) - k /\ \A i \in 1 .. Len(s) - k : u[i] = s[k + i]
  BY <1>1
<1>4. Without(s, k) = t \o u BY Zenon DEF Without
<1> HIDE DEF t, u
<1>5. t \o u \in Seq(S) /\ Len(t \o u) = Len(s) - 1
  <2>1. t \o u \in Seq(S) /\ Len(t \o u) = Len(t) + Len(u) BY <1>2, <1>3, Together, Zenon
  <2> QED BY <1>1, <1>2, <1>3, <2>1
<1>6. ASSUME NEW i \in 1 .. Len(s) - 1 PROVE (t \o u)[i] = s[IF i < k THEN i ELSE i + 1]
  <2>1. CASE i < k
    <3>1. i \in 1 .. Len(t) BY <1>1, <1>2, <2>1
    <3>2. (t \o u)[i] = t[i] BY <1>2, <1>3, <3>1, Together
    <3> QED BY <1>2, <2>1, <3>1, <3>2, Zenon
  <2>2. CASE ~(i < k)
    <3>1. i \in Len(t) + 1 .. Len(t) + Len(u) BY <1>1, <1>2, <1>3, <2>2
    <3>2. (t \o u)[i] = u[i - Len(t)] BY <1>2, <1>3, <3>1, Together, SMTT(40)
    <3>3. i - Len(t) \in 1 .. Len(s) - k /\ k + (i - Len(t)) = i + 1 BY <1>1, <1>2, <2>2
    <3>4. u[i - Len(t)] = s[i + 1] BY <1>3, <3>3, Zenon
    <3> QED BY <2>2, <3>2, <3>4, Zenon
  <2> QED BY <2>1, <2>2, Zenon
<1> QED BY <1>4, <1>5, <1>6, Zenon

\* A log rewritten row by row is a log.
LEMMA Rewritten ==
    ASSUME NEW S, NEW s \in Seq(S), NEW t, t = [i \in DOMAIN s |-> t[i]], \A i \in DOMAIN s : t[i] \in S
    PROVE  t \in Seq(S) /\ Len(t) = Len(s) /\ DOMAIN t = DOMAIN s
<1>1. Len(s) \in Nat /\ DOMAIN s = 1 .. Len(s) OBVIOUS
<1>2. t \in [1 .. Len(s) -> S] BY <1>1, Zenon
<1>3. t \in Seq(S) BY <1>1, <1>2
<1> QED BY <1>1, <1>2, <1>3

\* Rows r and q say the same of an edit; only how it came out may differ.
SameEdit(r, q) == r.id = q.id /\ r.old = q.old /\ r.new = q.new

\* A write of version f marks the rows that it makes true, and nothing else of them.
LEMMA ReachedIs ==
    ASSUME Typed, NEW f, NEW own, NEW t, t = Reached(f, own)
    PROVE  /\ t \in Seq(Rows) /\ Len(t) = Len(audit) /\ DOMAIN t = DOMAIN audit
           /\ \A i \in DOMAIN audit :
                /\ SameEdit(t[i], audit[i]) /\ t[i].state = audit[i].state
                /\ t[i].reached <=> audit[i].reached \/ audit[i].id = own
                                    \/ (audit[i].state = "pending" /\ audit[i].new = f)
<1>1. audit \in Seq(Rows) BY Zenon DEF Typed
<1>2. t = [i \in DOMAIN audit |-> t[i]] BY Zenon DEF Reached
<1>3. ASSUME NEW i \in DOMAIN audit
      PROVE  /\ t[i] \in Rows /\ SameEdit(t[i], audit[i]) /\ t[i].state = audit[i].state
             /\ t[i].reached <=> audit[i].reached \/ audit[i].id = own
                                 \/ (audit[i].state = "pending" /\ audit[i].new = f)
  <2>1. audit[i] \in Rows BY <1>1
  <2>2. t[i] = [audit[i] EXCEPT !.reached = @ \/ audit[i].id = own \/ (audit[i].state = "pending" /\ audit[i].new = f)]
    BY Zenon DEF Reached
  <2> QED BY <2>1, <2>2, Zenon DEF Rows, SameEdit
<1> QED BY <1>1, <1>2, <1>3, Rewritten

\* Marking a row changes its state.
LEMMA SetRowIs ==
    ASSUME Typed, NEW id, NEW state \in {"pending", "landed", "lost"}, NEW t, t = SetRow(id, state)
    PROVE  /\ t \in Seq(Rows) /\ Len(t) = Len(audit) /\ DOMAIN t = DOMAIN audit
           /\ \A i \in DOMAIN audit :
                /\ SameEdit(t[i], audit[i]) /\ t[i].reached = audit[i].reached
                /\ t[i].state = IF audit[i].id = id THEN state ELSE audit[i].state
<1>1. audit \in Seq(Rows) BY Zenon DEF Typed
<1>2. t = [i \in DOMAIN audit |-> t[i]] BY Zenon DEF SetRow
<1>3. ASSUME NEW i \in DOMAIN audit
      PROVE  /\ t[i] \in Rows /\ SameEdit(t[i], audit[i]) /\ t[i].reached = audit[i].reached
             /\ t[i].state = IF audit[i].id = id THEN state ELSE audit[i].state
  <2>1. audit[i] \in Rows BY <1>1
  <2>2. t[i] = IF audit[i].id = id THEN [audit[i] EXCEPT !.state = state] ELSE audit[i] BY Zenon DEF SetRow
  <2> QED BY <2>1, <2>2, Zenon DEF Rows, SameEdit
<1> QED BY <1>1, <1>2, <1>3, Rewritten

\* Settling leaves no row pending: one that was is landed if it is built on, else lost.
LEMMA SettleIs ==
    ASSUME Typed, NEW versions, NEW t, t = AuditSettle(audit, versions)
    PROVE  /\ t \in Seq(Rows) /\ Len(t) = Len(audit) /\ DOMAIN t = DOMAIN audit
           /\ \A i \in DOMAIN audit :
                /\ SameEdit(t[i], audit[i]) /\ t[i].reached = audit[i].reached
                /\ t[i].state = IF audit[i].state # "pending" THEN audit[i].state
                                ELSE IF i \in BuiltOn(audit, versions) THEN "landed" ELSE "lost"
<1>1. audit \in Seq(Rows) BY Zenon DEF Typed
<1>2. t = [i \in DOMAIN audit |-> t[i]] BY Zenon DEF AuditSettle
<1>3. ASSUME NEW i \in DOMAIN audit
      PROVE  /\ t[i] \in Rows /\ SameEdit(t[i], audit[i]) /\ t[i].reached = audit[i].reached
             /\ t[i].state = IF audit[i].state # "pending" THEN audit[i].state
                             ELSE IF i \in BuiltOn(audit, versions) THEN "landed" ELSE "lost"
  <2>1. audit[i] \in Rows BY <1>1
  <2>2. t[i] = IF audit[i].state = "pending"
               THEN [audit[i] EXCEPT !.state = IF i \in BuiltOn(audit, versions) THEN "landed" ELSE "lost"]
               ELSE audit[i]
    BY Zenon DEF AuditSettle
  <2> QED BY <2>1, <2>2 DEF Rows, SameEdit
<1> QED BY <1>1, <1>2, <1>3, Rewritten

\* A version or none.
LEMMA AreVersions == Files \subseteq Versions /\ NoFile \in Versions /\ \A v \in Versions : v # NoFile => v \in Files
BY Zenon DEF Versions

\* The memory of a process that knows nothing.
LEMMA BlankTyped == Blank \in Memories
BY Zenon DEF Blank, Memories, Versions

\* A process that has read or applied a version.
LEMMA Remembers ==
    ASSUME NEW m \in Memories, NEW v \in Versions, NEW w \in Versions
    PROVE  /\ [m EXCEPT !.seen = v] \in Memories /\ [m EXCEPT !.text = v] \in Memories
           /\ [m EXCEPT !.before = v] \in Memories /\ [m EXCEPT !.loaded = v] \in Memories
           /\ [m EXCEPT !.applied = v] \in Memories /\ [m EXCEPT !.applied = v, !.failed = w] \in Memories
           /\ [m EXCEPT !.candidate = v] \in Memories /\ [m EXCEPT !.previous = v] \in Memories
BY Zenon DEF Memories

\* The counts that a start writes.
LEMMA Counts ==
    ASSUME NEW b \in BootFiles, NEW v \in Versions, NEW n \in 0 .. FAILED_BOOTS + 1
    PROVE  [b EXCEPT !.hash = v, !.attempts = n] \in BootFiles /\ Counted(b) \in BootFiles
<1>1. [b EXCEPT !.hash = v, !.attempts = n] \in BootFiles BY Zenon DEF BootFiles
<1>2. b.attempts \in 0 .. FAILED_BOOTS + 1 BY Zenon DEF BootFiles
<1>3. (IF b.attempts > FAILED_BOOTS THEN b.attempts ELSE b.attempts + 1) \in 0 .. FAILED_BOOTS + 1
  BY <1>2, Consts
<1>4. Counted(b) \in BootFiles BY <1>3, Zenon DEF BootFiles, Counted
<1> QED BY <1>1, <1>4, Zenon

\* A start keeps the types.
LEMMA StartTyped ==
    ASSUME Typed, Places, StartStep \/ NotCounted \/ MigrationFails \/ NotReconciled
    PROVE  Typed'
<1> USE Consts, BlankTyped, AreVersions DEF Places, history
<1>1. CASE Boot
  <2>1. file \in Versions /\ boots \in BootFiles /\ node \in Memories /\ 0 \in 0 .. FAILED_BOOTS + 1 BY DEF Typed
  <2>2. node' \in Memories
    <3>1. [node EXCEPT !.seen = file] \in Memories BY <2>1, Remembers, Zenon
    <3>2. node' = node \/ node' = [node EXCEPT !.seen = file] BY <1>1, Zenon DEF Boot
    <3> QED BY <2>1, <3>1, <3>2, Zenon
  <2>3. boots' \in BootFiles
    BY <1>1, <2>1, Counts, Zenon DEF Boot
  <2>4. pc' \in {"down"} \cup Starting \cup Up BY <1>1, Zenon DEF Boot, Starting
  <2> QED BY <1>1, <2>2, <2>3, <2>4, Zenon DEF Boot, Typed
<1>2. CASE RestoreLocked
  <2>1. node' \in Memories /\ backups' \subseteq Files BY <1>2, Zenon DEF RestoreLocked, Typed
  <2>2. boots' \in BootFiles
    <3>1. file \in Versions /\ boots \in BootFiles /\ 1 \in 0 .. FAILED_BOOTS + 1 BY DEF Typed
    <3>2. [boots EXCEPT !.hash = file, !.attempts = 1] \in BootFiles BY <3>1, Counts, Zenon
    <3>3. boots' = boots \/ boots' = [boots EXCEPT !.hash = file, !.attempts = 1] BY <1>2, Zenon DEF RestoreLocked
    <3> QED BY <3>1, <3>2, <3>3, Zenon
  <2>3. pc' \in {"down"} \cup Starting \cup Up BY <1>2, Zenon DEF RestoreLocked, Starting
  <2> QED BY <1>2, <2>1, <2>2, <2>3, Zenon DEF RestoreLocked, Typed
<1>3. CASE RestoreReplace
  <2>1. audit' \in Seq(Rows) BY <1>3, ReachedIs, Zenon DEF RestoreReplace
  <2>2. unsettled' \in BOOLEAN /\ restores' \in [made : Nat, since : BOOLEAN] BY <1>3 DEF RestoreReplace, Typed
  <2>3. pc' \in {"down"} \cup Starting \cup Up BY <1>3, Zenon DEF RestoreReplace, Starting
  <2> QED BY <1>3, <2>1, <2>2, <2>3, Zenon DEF RestoreReplace, Typed
<1>4. CASE RestoreNoted
  <2>1. boots' \in BootFiles
    <3>1. lastGood \in Versions /\ restores.made \in Nat /\ node.seen \in Versions BY Zenon DEF Typed, Memories
    <3>2. [id |-> restores.made, failed |-> node.seen, good |-> lastGood] \in Restoring BY <3>1, Zenon DEF Restoring
    <3> DEFINE b == [hash |-> lastGood, attempts |-> 0,
                     restored |-> [id |-> restores.made, failed |-> node.seen, good |-> lastGood]]
    <3>3. b \in BootFiles BY <3>1, <3>2 DEF BootFiles
    <3>4. boots' = Counted(b) BY <1>4, Zenon DEF RestoreNoted
    <3>5. 0 \in 0 .. FAILED_BOOTS + 1 OBVIOUS
    <3> QED BY <3>1, <3>3, <3>4, <3>5, Counts, Zenon
  <2>2. pc' \in {"down"} \cup Starting \cup Up BY <1>4, Zenon DEF RestoreNoted, Starting
  <2> QED BY <1>4, <2>1, <2>2, Zenon DEF RestoreNoted, Typed
<1>5. CASE HashFile
  <2>1. node' \in Memories BY <1>5, Remembers, Zenon DEF HashFile, Typed
  <2>2. pc' \in {"down"} \cup Starting \cup Up BY <1>5, Zenon DEF HashFile, Starting
  <2> QED BY <1>5, <2>1, <2>2, Zenon DEF HashFile, Typed
<1>6. ASSUME NEW g \in Files, Parse(g) PROVE node' \in Memories /\ pc' \in {"down"} \cup Starting \cup Up
  <2>1. node \in Memories /\ g \in Versions BY <1>6, Zenon DEF Typed
  <2>2. [node EXCEPT !.loaded = g] \in Memories BY <2>1, Remembers, Zenon
  <2> QED BY <1>6, <2>2, Zenon DEF Parse, Starting
<1>7. CASE Load
  <2>1. file \in Files /\ node \in Memories /\ Migrate[file] \in Files BY Migrated, Zenon DEF Typed
  <2>2. node' \in Memories /\ pc' \in {"down"} \cup Starting \cup Up
    <3>1. CASE Parse(file) BY <1>6, <2>1, <3>1, Zenon
    <3>2. CASE pc' = "migrating" /\ node' = [node EXCEPT !.loaded = Migrate[file]]
      <4>1. Migrate[file] \in Versions BY <2>1, Zenon
      <4>2. [node EXCEPT !.loaded = Migrate[file]] \in Memories BY <2>1, <4>1, Remembers, Zenon
      <4> QED BY <3>2, <4>2, Zenon DEF Starting
    <3> QED BY <1>7, <3>1, <3>2, Zenon DEF Load
  <2> QED BY <1>7, <2>2, Zenon DEF Load, Typed
<1>8. CASE MigrationWrites
  <2>1. node.loaded \in Files /\ node' \in Memories /\ pc' \in {"down"} \cup Starting \cup Up
    BY <1>6, <1>8, Zenon DEF MigrationWrites
  <2>2. audit' \in Seq(Rows) BY <1>8, ReachedIs, Zenon DEF MigrationWrites
  <2>3. migrated' \subseteq Files /\ behind' \subseteq Files BY <1>8, <2>1, Zenon DEF MigrationWrites, Typed
  <2>4. unsettled' \in BOOLEAN BY <1>8, Zenon DEF MigrationWrites, Typed
  <2> QED BY <1>8, <2>1, <2>2, <2>3, <2>4, Zenon DEF MigrationWrites, Typed
<1>9. CASE MigrationFails
  <2>1. node' \in Memories /\ pc' \in {"down"} \cup Starting \cup Up
    BY <1>6, <1>9, Zenon DEF MigrationFails
  <2>2. faults' \in 0 .. MaxFaults BY <1>9 DEF MigrationFails, Fault, Typed
  <2> QED BY <1>9, <2>1, <2>2, Zenon DEF MigrationFails, Typed
<1>10. CASE ReadBootText
  <2>1. node' \in Memories BY <1>10, Remembers, Zenon DEF ReadBootText, Typed
  <2>2. pc' \in {"down"} \cup Starting \cup Up BY <1>10, Zenon DEF ReadBootText, Starting
  <2>3. slipped' \in BOOLEAN BY <1>10, Zenon DEF ReadBootText, Typed
  <2> QED BY <1>10, <2>1, <2>2, <2>3, Zenon DEF ReadBootText, Typed
<1>11. CASE ReconcileAudit
  <2>1. node' \in Memories BY <1>11, Remembers, Zenon DEF ReconcileAudit, Typed
  <2>2. audit' \in Seq(Rows) BY <1>11, SettleIs, Zenon DEF ReconcileAudit
  <2>3. pc' \in {"down"} \cup Starting \cup Up BY <1>11, Zenon DEF ReconcileAudit, Starting
  <2> QED BY <1>11, <2>1, <2>2, <2>3, Zenon DEF ReconcileAudit, Typed
<1>12. CASE Start
  <2>0. node \in Memories BY Zenon DEF Typed
  <2>1. node' \in Memories
    <3>1. [node EXCEPT !.loaded = NoFile] \in Memories BY <2>0, Remembers, Zenon
    <3>2. node' = Blank \/ node' = [node EXCEPT !.loaded = NoFile] BY <1>12, Zenon DEF Start
    <3> QED BY <3>1, <3>2, Zenon
  <2>2. pc' \in {"down"} \cup Starting \cup Up BY <1>12, Zenon DEF Start, Starting, Up
  <2> QED BY <1>12, <2>1, <2>2, Zenon DEF Start, Typed
<1>13. CASE Record
  <2>1. boots.restored \in Restoring /\ boots.restored.failed \in Files /\ boots.restored.good \in Files
    BY <1>13, Zenon DEF Record, Typed, BootFiles
  <2>2. RestoreRow(boots.restored) \in Rows BY <2>1 DEF RestoreRow, Rows, Restoring
  <2>3. audit' \in Seq(Rows)
    <3>1. audit \in Seq(Rows) BY Zenon DEF Typed
    <3>2. audit' = audit \/ audit' = Append(audit, RestoreRow(boots.restored)) BY <1>13, Zenon DEF Record
    <3> QED BY <2>2, <3>1, <3>2
  <2>4. pc' \in {"down"} \cup Starting \cup Up BY <1>13, Zenon DEF Record, Starting
  <2> QED BY <1>13, <2>3, <2>4, Zenon DEF Record, Typed
<1>14. CASE RecordLanded
  <2>1. audit' \in Seq(Rows) BY <1>14, SetRowIs, Zenon DEF RecordLanded
  <2>2. pc' \in {"down"} \cup Starting \cup Up BY <1>14, Zenon DEF RecordLanded, Starting
  <2> QED BY <1>14, <2>1, <2>2, Zenon DEF RecordLanded, Typed
<1>15. CASE RecordForgets
  <2>1. boots' \in BootFiles
    BY <1>15, Zenon DEF RecordForgets, Typed, BootFiles, Restoring, NoRestore
  <2>2. pc' \in {"down"} \cup Starting \cup Up BY <1>15, Zenon DEF RecordForgets, Up
  <2> QED BY <1>15, <2>1, <2>2, Zenon DEF RecordForgets, Typed
<1>16. CASE NotCounted
  <2>1. pc' \in {"down"} \cup Starting \cup Up BY <1>16, Zenon DEF NotCounted, Starting
  <2>2. faults' \in 0 .. MaxFaults BY <1>16 DEF NotCounted, Fault, Typed
  <2> QED BY <1>16, <2>1, <2>2, Zenon DEF NotCounted, Typed
<1>17. CASE NotReconciled
  <2>1. node' \in Memories BY <1>17, Remembers, Zenon DEF NotReconciled, Typed
  <2>2. pc' \in {"down"} \cup Starting \cup Up BY <1>17, Zenon DEF NotReconciled, Starting
  <2>3. faults' \in 0 .. MaxFaults BY <1>17 DEF NotReconciled, Fault, Typed
  <2>4. unsettled' \in BOOLEAN BY <1>17, Zenon DEF NotReconciled, Typed
  <2> QED BY <1>17, <2>1, <2>2, <2>3, <2>4, Zenon DEF NotReconciled, Typed
<1> QED
  BY <1>1, <1>2, <1>3, <1>4, <1>5, <1>7, <1>8, <1>9, <1>10, <1>11, <1>12, <1>13, <1>14, <1>15, <1>16, <1>17,
     Zenon DEF StartStep

\* So does a running node.
LEMMA RunningTyped ==
    ASSUME Typed, Places, Graced \/ Promote \/ KeepCurrent \/ Refresh \/ Stop \/ Killed
    PROVE  Typed'
<1> USE Consts, BlankTyped, AreVersions DEF history
<1>0. /\ boots \in BootFiles
      /\ node \in Memories /\ restores \in [made : Nat, since : BOOLEAN] /\ file \in Versions /\ lastGood \in Versions
  BY Zenon DEF Typed
<1>1. CASE Graced
  <2>1. boots' \in BootFiles BY <1>0, <1>1 DEF Graced, BootFiles
  <2>2. pc' \in {"down"} \cup Starting \cup Up BY <1>1, Zenon DEF Graced, Up
  <2> QED BY <1>1, <2>1, <2>2, Zenon DEF Graced, Typed
<1>2. CASE Promote
  <2>1. lastGood' \in Versions BY <1>0, <1>2, Zenon DEF Promote, Memories
  <2>2. restores' \in [made : Nat, since : BOOLEAN] BY <1>0, <1>2, Zenon DEF Promote
  <2>3. pc' \in {"down"} \cup Starting \cup Up BY <1>2, Zenon DEF Promote, Up
  <2> QED BY <1>2, <2>1, <2>2, <2>3, Zenon DEF Promote, Typed
<1>3. CASE KeepCurrent
  <2>1. lastGood' \in Versions BY <1>0, <1>3, Zenon DEF KeepCurrent
  <2>2. restores' \in [made : Nat, since : BOOLEAN] BY <1>0, <1>3, Zenon DEF KeepCurrent
  <2>3. node' \in Memories BY <1>0, <1>3, Remembers, Zenon DEF KeepCurrent
  <2> QED BY <1>3, <2>1, <2>2, <2>3, Zenon DEF KeepCurrent, Typed
<1>4. CASE Refresh
  <2>1. TakenIn(file) \in Memories BY <1>0, Remembers, Zenon DEF TakenIn, Applied
  <2>2. node' \in Memories BY <1>0, <1>4, <2>1, Remembers, Zenon DEF Refresh
  <2> QED BY <1>4, <2>2, Zenon DEF Refresh, Typed
<1>5. CASE Stop
  <2>1. boots' \in BootFiles BY <1>0, <1>5 DEF Stop, BootFiles
  <2> QED BY <1>5, <2>1, Zenon DEF Stop, Typed
<1>6. CASE Killed
  <2>1. faults' \in 0 .. MaxFaults BY <1>6 DEF Killed, Fault, Typed
  <2>2. edit' \in [who : {"none", "node", "cli"}, row : Nat, new : Versions, at : {"idle", "inserted", "written"}]
    BY <1>6, Zenon DEF Killed, NoEdit, NoRow, Typed
  <2>3. unsettled' \in BOOLEAN BY <1>6, Zenon DEF Killed, Typed
  <2> QED BY <1>6, <2>1, <2>2, <2>3, Zenon DEF Killed, Typed
<1> QED BY <1>1, <1>2, <1>3, <1>4, <1>5, <1>6, Zenon

\* And so do edits.
LEMMA EditTyped ==
    ASSUME Typed, Places, NEW f \in Files,
           \/ EditBegins("node", f) \/ EditBegins("cli", f) \/ TextEditor(f)
           \/ EditStep \/ EditFails \/ EditUnmarked \/ EditApplies \/ EditorKilled
    PROVE  Typed'
<1> USE Consts, AreVersions DEF history
<1> DEFINE Edits == [who : {"none", "node", "cli"}, row : Nat, new : Versions, at : {"idle", "inserted", "written"}]
<1>0. /\ audit \in Seq(Rows) /\ edit \in Edits /\ NoEdit \in Edits /\ writes \in 0 .. MaxWrites /\ faults \in 0 .. MaxFaults
      /\ restores \in [made : Nat, since : BOOLEAN] /\ file \in Files /\ behind \subseteq Files /\ node \in Memories
  BY Zenon DEF Typed, NoEdit, NoRow
<1>1. ASSUME NEW who \in {"node", "cli"}, EditBegins(who, f) PROVE Typed'
  <2>1. writes' \in 0 .. MaxWrites /\ writes + 1 \in Nat BY <1>0, <1>1 DEF EditBegins
  <2>2. [id |-> writes + 1, old |-> file, new |-> f, state |-> "pending", reached |-> FALSE] \in Rows
    BY <1>0, <2>1, Zenon DEF Rows
  <2>3. audit' \in Seq(Rows) BY <1>0, <1>1, <2>2 DEF EditBegins
  <2>4. edit' \in Edits BY <1>1, <2>1, Zenon DEF EditBegins
  <2> QED BY <1>1, <2>1, <2>3, <2>4, Zenon DEF EditBegins, Typed
<1>2. CASE TextEditor(f)
  <2>1. audit' \in Seq(Rows) BY <1>2, ReachedIs, Zenon DEF TextEditor
  <2>2. restores' \in [made : Nat, since : BOOLEAN] BY <1>0, <1>2, Zenon DEF TextEditor, Wrote
  <2>3. writes' \in 0 .. MaxWrites BY <1>0, <1>2 DEF TextEditor
  <2> QED BY <1>2, <2>1, <2>2, <2>3, Zenon DEF TextEditor, Typed
<1>3. CASE EditWrites
  <2>1. audit' \in Seq(Rows) BY <1>3, ReachedIs, ZenonT(40) DEF EditWrites
  <2>2. restores' \in [made : Nat, since : BOOLEAN] BY <1>0, <1>3, Zenon DEF EditWrites, Wrote
  <2>3. edit' \in Edits BY <1>0, <1>3, Zenon DEF EditWrites
  <2>4. edit.new \in Files BY <1>3 DEF EditWrites, Places, NoEdit
  <2> QED BY <1>3, <2>1, <2>2, <2>3, <2>4, Zenon DEF EditWrites, Typed
<1>4. CASE EditLands
  <2>1. audit' \in Seq(Rows) BY <1>4, SetRowIs, Zenon DEF EditLands
  <2>2. applying' \in Versions BY <1>0, <1>4, Zenon DEF EditLands, Typed
  <2> QED BY <1>0, <1>4, <2>1, <2>2, Zenon DEF EditLands, Typed
<1>5. CASE EditFails
  <2>1. PICK i \in DOMAIN audit : audit' = Without(audit, i) BY <1>5, Zenon DEF EditFails
  <2>2. i \in 1 .. Len(audit) BY <1>0, <2>1
  <2>3. audit' \in Seq(Rows) BY <1>0, <2>1, <2>2, Withdrawn, Zenon
  <2>4. faults' \in 0 .. MaxFaults BY <1>0, <1>5, SMTT(40) DEF EditFails, Fault
  <2> QED BY <1>0, <1>5, <2>3, <2>4, Zenon DEF EditFails, Typed
<1>6. CASE EditUnmarked
  <2>1. applying' \in Versions BY <1>0, <1>6, Zenon DEF EditUnmarked, Typed
  <2>2. faults' \in 0 .. MaxFaults BY <1>0, <1>6 DEF EditUnmarked, Fault
  <2> QED BY <1>0, <1>6, <2>1, <2>2, Zenon DEF EditUnmarked, Typed
<1>7. CASE EditApplies
  <2>1. applying \in Versions BY Zenon DEF Typed
  <2>2. node' \in Memories BY <1>0, <1>7, <2>1, Remembers, Zenon DEF EditApplies, Applied
  <2> QED BY <1>7, <2>2, Zenon DEF EditApplies, Typed
<1>8. CASE EditorKilled
  <2>1. faults' \in 0 .. MaxFaults BY <1>0, <1>8 DEF EditorKilled, Fault
  <2> QED BY <1>0, <1>8, <2>1, ZenonT(40) DEF EditorKilled, Typed
<1> QED BY <1>1, <1>2, <1>3, <1>4, <1>5, <1>6, <1>7, <1>8, Zenon DEF EditStep

\* A start goes from place to place with what the next one needs.
LEMMA StartPlaces ==
    ASSUME Typed, Typed', Kept, Places, StartStep \/ NotCounted \/ MigrationFails \/ NotReconciled
    PROVE  Places'
<1> USE Consts, AreVersions DEF Places, history, Up
<1>0. /\ boots \in BootFiles /\ node \in Memories /\ restores.made \in Nat /\ lastGood \in Versions /\ file \in Files
      /\ boots.restored \in Restoring
  BY Zenon DEF Typed, BootFiles
<1>1. CASE Boot
  <2>1. boots'.restored = boots.restored BY <1>0, <1>1, Zenon DEF Boot, Counted, BootFiles
  <2>2. node'.before = node.before BY <1>0, <1>1, Zenon DEF Boot, Memories
  <2>3. pc' = "restore" => lastGood \in Files /\ node'.seen = file BY <1>0, <1>1, Zenon DEF Boot, Memories
  <2> QED BY <1>0, <1>1, <2>1, <2>2, <2>3, Zenon DEF Boot, Blank
<1>2. CASE RestoreLocked
  <2>1. boots'.restored = boots.restored BY <1>0, <1>2, Zenon DEF RestoreLocked, BootFiles
  <2> QED BY <1>0, <1>2, <2>1 DEF RestoreLocked, Blank
<1>3. CASE RestoreReplace
  <2>1. restores'.made = restores.made + 1 BY <1>3, Zenon DEF RestoreReplace
  <2>2. restores'.made >= 1 /\ (boots.restored.id <= restores.made => boots.restored.id <= restores'.made)
    BY <1>0, <2>1 DEF Restoring
  <2>3. UNCHANGED <<boots, node, edit, applying, lastGood, writes>> /\ pc = "keep" /\ pc' = "replaced"
    BY <1>3, Zenon DEF RestoreReplace
  <2> QED BY <1>0, <2>2, <2>3, Zenon
<1>4. CASE RestoreNoted
  <2>1. boots'.restored = [id |-> restores.made, failed |-> node.seen, good |-> lastGood]
    BY <1>4, Zenon DEF RestoreNoted, Counted
  <2> QED BY <1>0, <1>4, <2>1 DEF RestoreNoted, Blank
<1>5. CASE HashFile
  <2>1. node'.before = file BY <1>0, <1>5, Zenon DEF HashFile, Memories
  <2> QED BY <1>0, <1>5, <2>1, Zenon DEF HashFile
<1>6. ASSUME pc \in {"hashed", "migrating"}, NEW g, Parse(g),
             UNCHANGED <<boots, lastGood, edit, applying, restores, writes>>
      PROVE  Places'
  <2>1. CASE pc' = "loaded" BY <1>0, <1>6, <2>1, Zenon
  <2>2. CASE pc' = "down" /\ node' = Blank BY <1>0, <1>6, <2>2, Zenon DEF Blank
  <2> QED BY <1>6, <2>1, <2>2, Zenon DEF Parse
<1>7. CASE Load
  <2>1. UNCHANGED <<boots, lastGood, edit, applying, restores, writes>> /\ pc = "hashed" BY <1>7, Zenon DEF Load
  <2>2. CASE Parse(file) BY <1>6, <2>1, <2>2, Zenon
  <2>3. CASE pc' = "migrating" /\ node' = [node EXCEPT !.loaded = Migrate[file]]
    <3>1. node'.loaded \in Files BY <1>0, <2>3, Migrated, Zenon DEF Memories
    <3> QED BY <1>0, <2>1, <2>3, <3>1, Zenon
  <2> QED BY <1>7, <2>2, <2>3, Zenon DEF Load
<1>8. CASE MigrationWrites BY <1>6, <1>8, Zenon DEF MigrationWrites
<1>9. CASE MigrationFails BY <1>6, <1>9, Zenon DEF MigrationFails
<1>10. CASE ReadBootText
  <2>1. node'.before = node.before BY <1>0, <1>10, Zenon DEF ReadBootText, Memories
  <2> QED BY <1>0, <1>10, <2>1, Zenon DEF ReadBootText
<1>11. CASE ReconcileAudit
  <2>1. node'.before = NoFile BY <1>0, <1>11, Zenon DEF ReconcileAudit, Memories
  <2> QED BY <1>0, <1>11, <2>1, Zenon DEF ReconcileAudit
<1>12. CASE Start
  <2>1. node'.before = node.before \/ node' = Blank BY <1>0, <1>12, Zenon DEF Start, Memories
  <2> QED BY <1>0, <1>12, <2>1 DEF Start, Blank
<1>13. CASE Record BY <1>0, <1>13, Zenon DEF Record
<1>14. CASE RecordLanded BY <1>0, <1>14, Zenon DEF RecordLanded
<1>15. CASE RecordForgets
  <2>1. boots'.restored = NoRestore BY <1>0, <1>15, Zenon DEF RecordForgets, BootFiles
  <2> QED BY <1>0, <1>15, <2>1 DEF RecordForgets, NoRestore
<1>16. CASE NotCounted BY <1>0, <1>16, Zenon DEF NotCounted, Blank
<1>17. CASE NotReconciled
  <2>1. node'.before = NoFile BY <1>0, <1>17, Zenon DEF NotReconciled, Memories
  <2> QED BY <1>0, <1>17, <2>1, Zenon DEF NotReconciled
<1> QED
  BY <1>1, <1>2, <1>3, <1>4, <1>5, <1>7, <1>8, <1>9, <1>10, <1>11, <1>12, <1>13, <1>14, <1>15, <1>16, <1>17,
     Zenon DEF StartStep

\* A running node has recorded its restore.
LEMMA RunningPlaces ==
    ASSUME Typed, Typed', Places, Graced \/ Promote \/ KeepCurrent \/ Refresh \/ Stop \/ Killed
    PROVE  Places'
<1> USE Consts, AreVersions DEF Places, history, Up
<1>0. /\ boots \in BootFiles /\ node \in Memories /\ restores.made \in Nat /\ restores \in [made : Nat, since : BOOLEAN]
      /\ boots.restored \in Restoring
  BY Zenon DEF Typed, BootFiles
<1>1. CASE Graced
  <2>1. boots'.restored = boots.restored BY <1>0, <1>1, Zenon DEF Graced, BootFiles
  <2> QED BY <1>0, <1>1, <2>1, Zenon DEF Graced
<1>2. CASE Promote
  <2>1. restores'.made = restores.made BY <1>0, <1>2, Zenon DEF Promote
  <2> QED BY <1>0, <1>2, <2>1, Zenon DEF Promote
<1>3. CASE KeepCurrent
  <2>1. restores'.made = restores.made BY <1>0, <1>3, Zenon DEF KeepCurrent
  <2>2. node'.before = node.before BY <1>0, <1>3, Zenon DEF KeepCurrent, Memories
  <2> QED BY <1>0, <1>3, <2>1, <2>2, Zenon DEF KeepCurrent
<1>4. CASE Refresh
  <2>1. TakenIn(file) = [node EXCEPT !.applied = file]
          \/ TakenIn(file) = [node EXCEPT !.applied = file, !.failed = IF file \in Overlays THEN NoFile ELSE file]
    BY Zenon DEF TakenIn, Applied
  <2>2. node'.before = node.before BY <1>0, <1>4, <2>1, Zenon DEF Refresh, Memories
  <2> QED BY <1>0, <1>4, <2>2, Zenon DEF Refresh
<1>5. CASE Stop
  <2>1. boots'.restored = boots.restored BY <1>0, <1>5, Zenon DEF Stop, BootFiles
  <2> QED BY <1>0, <1>5, <2>1, Zenon DEF Stop, Blank
<1>6. CASE Killed BY <1>0, <1>6, Zenon DEF Killed, Blank, NoEdit
<1> QED BY <1>1, <1>2, <1>3, <1>4, <1>5, <1>6, Zenon

\* An edit of the node is made while it runs.
LEMMA EditPlaces ==
    ASSUME Typed, Typed', Places, NEW f \in Files,
           \/ EditBegins("node", f) \/ EditBegins("cli", f) \/ TextEditor(f)
           \/ EditStep \/ EditFails \/ EditUnmarked \/ EditApplies \/ EditorKilled
    PROVE  Places'
<1> USE Consts, AreVersions DEF Places, history
<1>0. /\ writes \in 0 .. MaxWrites /\ node \in Memories /\ restores.made \in Nat /\ restores \in [made : Nat, since : BOOLEAN]
      /\ edit \in [who : {"none", "node", "cli"}, row : Nat, new : Versions, at : {"idle", "inserted", "written"}]
  BY Zenon DEF Typed
<1>1. ASSUME NEW who \in {"node", "cli"}, EditBegins(who, f) PROVE Places'
  <2>1. edit'.row \in 1 .. writes' BY <1>0, <1>1 DEF EditBegins
  <2> QED BY <1>0, <1>1, <2>1, Zenon DEF EditBegins, Up
<1>2. CASE TextEditor(f)
  <2>1. restores'.made = restores.made BY <1>0, <1>2, Zenon DEF TextEditor, Wrote
  <2>2. edit.row \in 1 .. writes => edit.row \in 1 .. writes' BY <1>0, <1>2 DEF TextEditor
  <2> QED BY <1>0, <1>2, <2>1, <2>2, Zenon DEF TextEditor
<1>3. CASE EditWrites
  <2>1. restores'.made = restores.made BY <1>0, <1>3, Zenon DEF EditWrites, Wrote
  <2>2. edit'.who = edit.who /\ edit'.row = edit.row /\ edit'.new = edit.new /\ edit'.at = "written"
    BY <1>0, <1>3, Zenon DEF EditWrites
  <2>3. edit # NoEdit BY <1>3 DEF EditWrites, NoEdit
  <2> QED BY <1>0, <1>3, <2>1, <2>2, <2>3, Zenon DEF EditWrites
<1>4. CASE EditLands BY <1>0, <1>4, Zenon DEF EditLands, NoEdit
<1>5. CASE EditFails BY <1>0, <1>5, Zenon DEF EditFails, NoEdit
<1>6. CASE EditUnmarked BY <1>0, <1>6, Zenon DEF EditUnmarked, NoEdit
<1>7. CASE EditApplies
  <2>1. node'.before = node.before BY <1>0, <1>7, Zenon DEF EditApplies, Applied, Memories
  <2>2. applying \in Versions /\ pc \in Up BY <1>7, Zenon DEF EditApplies, Typed
  <2> QED BY <1>0, <1>7, <2>1, <2>2, Zenon DEF EditApplies, Up
<1>8. CASE EditorKilled BY <1>0, <1>8, Zenon DEF EditorKilled, NoEdit
<1> QED BY <1>1, <1>2, <1>3, <1>4, <1>5, <1>6, <1>7, <1>8, Zenon DEF EditStep

\* Before the first start there is a file and nothing else.
LEMMA InitTyped == Init => Typed /\ Places
<1> SUFFICES ASSUME Init PROVE Typed /\ Places BY Zenon
<1> USE Consts, AreVersions DEF Init
<1>1. Typed
  <2>1. node \in Memories BY BlankTyped, Zenon
  <2>2. boots \in BootFiles
    <3>1. NoRestore \in Restoring BY Zenon DEF Restoring, NoRestore
    <3>2. 0 \in 0 .. FAILED_BOOTS + 1 OBVIOUS
    <3> QED BY <3>1, <3>2, Zenon DEF BootFiles
  <2>3. audit \in Seq(Rows) OBVIOUS
  <2>4. edit \in [who : {"none", "node", "cli"}, row : Nat, new : Versions, at : {"idle", "inserted", "written"}]
    BY Zenon DEF NoEdit, NoRow
  <2>5. restores \in [made : Nat, since : BOOLEAN] BY Zenon
  <2>6. slipped \in BOOLEAN /\ unsettled \in BOOLEAN BY Zenon
  <2>7. writes \in 0 .. MaxWrites /\ faults \in 0 .. MaxFaults OBVIOUS
  <2>8. /\ file \in Files /\ lastGood \in Versions /\ backups \subseteq Files /\ behind \subseteq Files /\ migrated \subseteq Files
        /\ pc \in {"down"} \cup Starting \cup Up /\ applying \in Versions
    BY Zenon
  <2> QED BY <2>1, <2>2, <2>3, <2>4, <2>5, <2>6, <2>7, <2>8, Zenon DEF Typed
<1>2. Places
  <2>1. node.before = NoFile /\ boots.restored = NoRestore /\ NoRestore.id = 0 /\ restores.made = 0 /\ edit.who = "none"
    BY Zenon DEF Blank, NoRestore, NoEdit
  <2>2. boots.restored.id <= restores.made BY <2>1, SMTT(40)
  <2> QED BY <2>1, <2>2, Zenon DEF Places, Up
<1> QED BY <1>1, <1>2, Zenon

\* Every step keeps the types and the places.
LEMMA NextTyped == ASSUME Typed, Places, Kept, [Next]_vars PROVE Typed' /\ Places'
<1>1. CASE UNCHANGED vars
  <2>1. Typed' BY <1>1, Zenon DEF vars, Typed
  <2>2. Places' BY <1>1, Zenon DEF vars, Places
  <2> QED BY <2>1, <2>2, Zenon
<1>2. CASE StartStep \/ NotCounted \/ MigrationFails \/ NotReconciled BY <1>2, StartTyped, StartPlaces, Zenon
<1>3. CASE Graced \/ Promote \/ KeepCurrent \/ Refresh \/ Stop \/ Killed
  BY <1>3, RunningTyped, RunningPlaces, Zenon
<1>4. ASSUME NEW f \in Files,
             \/ EditBegins("node", f) \/ EditBegins("cli", f) \/ TextEditor(f)
             \/ EditStep \/ EditFails \/ EditUnmarked \/ EditApplies \/ EditorKilled
      PROVE  Typed' /\ Places'
  BY <1>4, EditTyped, EditPlaces, Zenon
<1>5. file \in Files BY Zenon DEF Typed
<1> QED BY <1>1, <1>2, <1>3, <1>4, <1>5, Zenon DEF Next

-----------------------------------------------------------------------------
(* What a restore does *)

\* Until somebody writes the file or last-good changes, a restored file is last-good or
\* what its migration makes of it, and a start that goes for a restore has seen them
\* differ otherwise.
Restored ==
    /\ ~restores.since => lastGood \in Files /\ file \in {lastGood, Migrate[lastGood]}
    /\ ~restores.since /\ pc = "migrating" => node.loaded = Migrate[lastGood]
    /\ pc \in {"restore", "keep"} => restores.since

IInv == Typed /\ Places /\ Kept /\ Restored

\* Before the first start nothing was restored.
LEMMA InitIInv == Init => IInv
<1> SUFFICES ASSUME Init PROVE IInv BY Zenon
<1>1. Kept /\ Restored BY DEF Init, Kept, Restored
<1> QED BY <1>1, InitTyped, Zenon DEF IInv

\* A start counts, restores, loads and comes to serve.
LEMMA StartKeeps ==
    ASSUME IInv, StartStep \/ NotCounted \/ MigrationFails \/ NotReconciled
    PROVE  Kept' /\ Restored'
<1> USE DEF IInv, Kept, Restored, history
<1>0. file \in Files /\ node \in Memories BY Zenon DEF Typed
<1>1. CASE Boot
  <2>1. pc' \in {"boot", "restore"} /\ UNCHANGED <<file, lastGood, restores, edit>> BY <1>1, Zenon DEF Boot
  <2>2. ASSUME pc' = "restore" PROVE restores.since
    <3>1. lastGood # file /\ ToBlame(file, lastGood) BY <1>1, <2>2, Zenon DEF Boot
    <3>2. ASSUME ~restores.since PROVE FALSE
      <4>1. lastGood \in Files /\ file = Migrate[lastGood] BY <3>1, <3>2, Zenon
      <4>2. Migrate[file] = Migrate[lastGood] /\ (lastGood \in Loads <=> file \in Loads) BY <4>1, Migrated, Zenon
      <4> QED BY <3>1, <4>2, Zenon DEF ToBlame
    <3>3. restores.since \in BOOLEAN BY Zenon DEF Typed
    <3> QED BY <3>2, <3>3, Zenon
  <2> QED BY <2>1, <2>2, Zenon
<1>2. CASE RestoreLocked BY <1>2, Zenon DEF RestoreLocked, LockFree
<1>3. CASE RestoreReplace
  <2>1. lastGood \in Files BY <1>3, Zenon DEF RestoreReplace, Places
  <2> QED BY <1>3, <2>1, Zenon DEF RestoreReplace
<1>4. CASE RestoreNoted BY <1>4, Zenon DEF RestoreNoted
<1>5. CASE HashFile BY <1>5, Zenon DEF HashFile
<1>6. ASSUME NEW g, Parse(g) PROVE pc' \in {"loaded", "down"} BY <1>6, Zenon DEF Parse
<1>7. CASE Load
  <2>1. UNCHANGED <<file, lastGood, restores>> BY <1>7, Zenon DEF Load
  <2>2. CASE Parse(file) BY <1>6, <2>1, <2>2, Zenon
  <2>3. CASE /\ Migrate[file] # file /\ pc' = "migrating"
             /\ node' = [node EXCEPT !.loaded = Migrate[file]]
    <3>1. node'.loaded = Migrate[file] BY <1>0, <2>3, Zenon DEF Memories
    <3>2. ASSUME ~restores.since PROVE file = lastGood
      <4>1. lastGood \in Files /\ file \in {lastGood, Migrate[lastGood]} BY <3>2, Zenon
      <4> QED BY <2>3, <4>1, Migrated, Zenon
    <3> QED BY <2>1, <2>3, <3>1, <3>2, Zenon
  <2> QED BY <1>7, <2>2, <2>3, Zenon DEF Load
<1>8. CASE MigrationWrites
  <2>1. /\ pc = "migrating" /\ pc' \in {"loaded", "down"} /\ file' = node.loaded
        /\ UNCHANGED <<lastGood, restores>>
    BY <1>6, <1>8, Zenon DEF MigrationWrites
  <2> QED BY <2>1, Zenon
<1>9. CASE MigrationFails
  <2>1. pc' \in {"loaded", "down"} /\ UNCHANGED <<file, lastGood, restores>> BY <1>6, <1>9, Zenon DEF MigrationFails
  <2> QED BY <2>1, Zenon
<1>10. CASE ReadBootText BY <1>10, Zenon DEF ReadBootText
<1>11. CASE ReconcileAudit BY <1>11, Zenon DEF ReconcileAudit
<1>12. CASE NotReconciled BY <1>12, Zenon DEF NotReconciled
<1>13. CASE Start BY <1>13, Zenon DEF Start
<1>14. CASE Record BY <1>14, Zenon DEF Record
<1>15. CASE RecordLanded BY <1>15, Zenon DEF RecordLanded
<1>16. CASE RecordForgets BY <1>16, Zenon DEF RecordForgets
<1>17. CASE NotCounted BY <1>17, Zenon DEF NotCounted
<1> QED
  BY <1>1, <1>2, <1>3, <1>4, <1>5, <1>7, <1>8, <1>9, <1>10, <1>11, <1>12, <1>13, <1>14, <1>15, <1>16, <1>17,
     Zenon DEF StartStep

\* A running node promotes what it runs, looks at the file, stops or is killed.
LEMMA RunningKeeps ==
    ASSUME IInv, Graced \/ Promote \/ KeepCurrent \/ Refresh \/ Stop \/ Killed
    PROVE  Kept' /\ Restored'
<1> USE DEF IInv, Kept, Restored, history
<1>0. restores \in [made : Nat, since : BOOLEAN] BY Zenon DEF Typed
<1>1. CASE Graced BY <1>1, Zenon DEF Graced
<1>2. CASE Promote BY <1>0, <1>2, Zenon DEF Promote
<1>3. CASE KeepCurrent BY <1>0, <1>3, Zenon DEF KeepCurrent
<1>4. CASE Refresh BY <1>4, Zenon DEF Refresh, Up
<1>5. CASE Stop BY <1>5, Zenon DEF Stop, Up
<1>6. CASE Killed BY <1>6, Zenon DEF Killed
<1> QED BY <1>1, <1>2, <1>3, <1>4, <1>5, <1>6, Zenon

\* Edits are made under the lock, and a text editor's without it.
LEMMA EditKeeps ==
    ASSUME IInv, NEW f,
           \/ EditBegins("node", f) \/ EditBegins("cli", f) \/ TextEditor(f)
           \/ EditStep \/ EditFails \/ EditUnmarked \/ EditApplies \/ EditorKilled
    PROVE  Kept' /\ Restored'
<1> USE DEF IInv, Kept, Restored, history
<1>0. restores \in [made : Nat, since : BOOLEAN] BY Zenon DEF Typed
<1>1. ASSUME NEW who, EditBegins(who, f) PROVE Kept' /\ Restored'
  BY <1>1, Zenon DEF EditBegins, LockFree
<1>2. CASE TextEditor(f) BY <1>0, <1>2, Zenon DEF TextEditor, Wrote
<1>3. CASE EditWrites
  <2>1. edit # NoEdit BY <1>3 DEF EditWrites, NoEdit
  <2>2. pc # "keep" /\ pc' = pc BY <1>3, <2>1, Zenon DEF EditWrites
  <2>3. restores'.since
    BY <1>0, <1>3, Zenon DEF EditWrites, Wrote
  <2> QED BY <2>2, <2>3, Zenon
<1>4. CASE EditLands BY <1>4, Zenon DEF EditLands
<1>5. CASE EditFails BY <1>5, Zenon DEF EditFails
<1>6. CASE EditUnmarked BY <1>6, Zenon DEF EditUnmarked
<1>7. CASE EditApplies
  <2>1. pc \in Up BY <1>7, Zenon DEF EditApplies, Places
  <2> QED BY <1>7, <2>1, Zenon DEF EditApplies, Up
<1>8. CASE EditorKilled BY <1>8, Zenon DEF EditorKilled
<1> QED BY <1>1, <1>2, <1>3, <1>4, <1>5, <1>6, <1>7, <1>8, Zenon DEF EditStep

\* Every step keeps the invariant.
LEMMA NextIInv == IInv /\ [Next]_vars => IInv'
<1> SUFFICES ASSUME IInv, [Next]_vars PROVE IInv' BY Zenon
<1>0. Typed' /\ Places' BY NextTyped, Zenon DEF IInv
<1>1. CASE UNCHANGED vars BY <1>0, <1>1, Zenon DEF vars, IInv, Kept, Restored
<1>2. CASE StartStep \/ NotCounted \/ MigrationFails \/ NotReconciled BY <1>0, <1>2, StartKeeps, Zenon DEF IInv
<1>3. CASE Graced \/ Promote \/ KeepCurrent \/ Refresh \/ Stop \/ Killed BY <1>0, <1>3, RunningKeeps, Zenon DEF IInv
<1>4. ASSUME NEW f \in Files, EditBegins("node", f) \/ EditBegins("cli", f) \/ TextEditor(f)
      PROVE  IInv'
  BY <1>0, <1>4, EditKeeps, Zenon DEF IInv
<1>5. CASE EditStep \/ EditFails \/ EditUnmarked \/ EditApplies \/ EditorKilled
  BY <1>0, <1>5, EditKeeps, Zenon DEF IInv
<1> QED BY <1>1, <1>2, <1>3, <1>4, <1>5, Zenon DEF Next

\* The invariant holds throughout.
LEMMA Inductive == Spec => []IInv
BY InitIInv, NextIInv, PTL DEF Spec

\* A restore replaces only a file that has been kept first, however edits, kills and
\* starts interleave with it; what a text editor saves without the lock in between is
\* the one exception (on_boot: "Nothing is lost: the file it replaces is kept first").
THEOREM RestoreKeepsTheFile == Spec => NothingLost
<1>1. IInv => (RestoreReplace => file \in backups \cup behind)
  BY Zenon DEF IInv, Kept, RestoreReplace
<1> QED BY Inductive, <1>1, PTL DEF NothingLost

\* No restore follows another unless the file or last-good changed in between, for any
\* number of failed starts and kills at any write; that a start migrates the file it has
\* put back is no such change ("It cannot loop", last_good.rs).
THEOREM RestoresEnd == Spec => RestoresDoNotLoop
<1>1. IInv => (RestoreReplace => restores.since)
  BY Zenon DEF IInv, Restored, RestoreReplace
<1> QED BY Inductive, <1>1, PTL DEF RestoresDoNotLoop

-----------------------------------------------------------------------------
(* The audit log *)

\* The rows of edits are numbered by the edit and those of restores after them all.
Numbered ==
    /\ \A i, j \in DOMAIN audit : audit[i].id = audit[j].id => i = j
    /\ \A i \in DOMAIN audit : audit[i].id \in 1 .. writes \/ (audit[i].id > MaxWrites /\ audit[i].reached)
    /\ edit # NoEdit => \E i \in DOMAIN audit : audit[i].id = edit.row

\* A row that no failing edit can withdraw any more.
Stays(i) == audit[i].id # edit.row \/ edit.at # "inserted"

\* A row not known to have come true.
Open(i) == audit[i].state = "pending" /\ ~audit[i].reached

\* An edit put an earlier version back, by rows that stay as long as row i does.
Undone(i) ==
    \/ \E a, b \in DOMAIN audit :
        a < b /\ audit[b].new = audit[a].old /\ (Stays(a) \/ a = i) /\ (Stays(b) \/ b = i)
    \/ \E b \in DOMAIN audit : audit[b].new \in migrated /\ (Stays(b) \/ b = i)

\* The file has left version v by an edit that has its row, or by a migration.
LeftFrom(v) == v \in migrated \/ \E k \in DOMAIN audit : Stays(k) /\ audit[k].old = v

Undoes(v) == \A i \in DOMAIN audit : Open(i) /\ audit[i].new = v => Undone(i)

Owes(v) == \A i \in DOMAIN audit : Open(i) /\ audit[i].new = v =>
                LeftFrom(lastGood) \/ audit[i].old = lastGood

\* The edit under way has its row, which tells what it does or has done to the file.
EditHeld ==
    /\ edit.at = "inserted" => \A k \in DOMAIN audit : audit[k].id = edit.row =>
            audit[k].old = file /\ audit[k].new = edit.new /\ edit.new # file
    /\ edit.at = "written" => \A k \in DOMAIN audit : audit[k].id = edit.row =>
            audit[k].reached /\ audit[k].new = file

\* What makes a landed row true.  A settling start lands the rows that name the file, what
\* it was at the load, or what another row started from, the row of an unrecorded
\* restore included: each of those rows came true, or has an edit undone.
LandedTrue ==
    /\ \A i \in DOMAIN audit : audit[i].state = "landed" => audit[i].reached \/ Undone(i)
    /\ \A i \in DOMAIN audit : Open(i) => audit[i].new # file
    /\ \A j \in DOMAIN audit : Undoes(audit[j].old)
    /\ node.before # NoFile => Undoes(node.before) /\ (node.before # file => LeftFrom(node.before))
    /\ boots.restored # NoRestore => Owes(boots.restored.failed)
    /\ pc = "replaced" => Owes(node.seen)
    /\ pc = "keep" => file = node.seen
    /\ Unrecorded /\ file # lastGood => LeftFrom(lastGood)

\* What a settling start knows the file to have been, beside what it is.
Roots == {file} \cup {v \in migrated : pc \in {"loaded", "reconcile"} /\ v = node.before}

\* However few rows a settling start marks, they lead from version v to the file.
LeadsTo(v) ==
    \A marked \in SUBSET DOMAIN audit : Closed(audit, Roots, marked) =>
        v \in Roots \/ \E k \in marked : audit[k].old = v

\* The row of a restore whose last-good has been migrated, before it is marked.
Marking(i) == pc = "insert" /\ audit[i].id = MaxWrites + boots.restored.id /\ audit[i].new \in migrated

\* What makes a lost row true: a row that came true leads to the file and would be marked.
LostTrue ==
    /\ \A i \in DOMAIN audit : audit[i].state = "pending" /\ audit[i].reached => LeadsTo(audit[i].new) \/ Marking(i)
    /\ Unrecorded => LeadsTo(lastGood) \/ lastGood \in migrated
    /\ \A i \in DOMAIN audit : audit[i].state = "lost" => ~audit[i].reached /\ audit[i].id # edit.row

Truth == EditHeld /\ LandedTrue /\ (~unsettled => LostTrue)

LInv == Numbered /\ (behind = {} => Truth)

\* The rows of the log are rows.
LEMMA RowTypes ==
    ASSUME Typed
    PROVE  /\ audit \in Seq(Rows) /\ Len(audit) \in Nat /\ DOMAIN audit = 1 .. Len(audit)
           /\ \A i \in DOMAIN audit :
                /\ i \in Nat /\ audit[i].id \in Nat /\ audit[i].old \in Files /\ audit[i].new \in Files
                /\ audit[i].state \in {"pending", "landed", "lost"} /\ audit[i].reached \in BOOLEAN
<1>1. audit \in Seq(Rows) /\ Len(audit) \in Nat /\ DOMAIN audit = 1 .. Len(audit) BY DEF Typed
<1>2. ASSUME NEW i \in DOMAIN audit
      PROVE  /\ i \in Nat /\ audit[i].id \in Nat /\ audit[i].old \in Files /\ audit[i].new \in Files
             /\ audit[i].state \in {"pending", "landed", "lost"} /\ audit[i].reached \in BOOLEAN
  <2>1. audit[i] \in Rows /\ i \in Nat BY <1>1
  <2> QED BY <2>1, Zenon DEF Rows
<1> QED BY <1>1, <1>2, Zenon

\* The log has one row for an edit or a restore.
LEMMA NumberedSame ==
    ASSUME Typed, Places, Numbered, Typed', Places', DOMAIN audit' = DOMAIN audit,
           \A i \in DOMAIN audit : SameEdit(audit'[i], audit[i]) /\ (audit[i].reached => audit'[i].reached),
           writes' >= writes, edit' = NoEdit \/ (edit # NoEdit /\ edit'.row = edit.row)
    PROVE  Numbered'
<1>0. writes \in Nat /\ writes' \in Nat BY DEF Typed
<1>1. \A i \in DOMAIN audit : audit[i].id \in Nat BY RowTypes, Zenon
<1>2. \A i, j \in DOMAIN audit' : audit'[i].id = audit'[j].id => i = j BY Zenon DEF Numbered, SameEdit
<1>3. \A i \in DOMAIN audit' : audit'[i].id \in 1 .. writes' \/ (audit'[i].id > MaxWrites /\ audit'[i].reached)
  BY <1>0, <1>1 DEF Numbered, SameEdit
<1>4. edit' # NoEdit => \E i \in DOMAIN audit' : audit'[i].id = edit'.row BY Zenon DEF Numbered, SameEdit
<1> QED BY <1>2, <1>3, <1>4, Zenon DEF Numbered

\* Every step keeps the numbers.
LEMMA NumberedStep == ASSUME Typed, Places, Numbered, Typed', Places', [Next]_vars PROVE Numbered'
<1> USE Consts DEF history
<1>0. writes \in Nat /\ audit \in Seq(Rows) /\ Len(audit) \in Nat /\ DOMAIN audit = 1 .. Len(audit)
  BY DEF Typed
<1>1. CASE UNCHANGED <<audit, writes>> /\ (edit' = edit \/ edit' = NoEdit)
  BY <1>0, <1>1, NumberedSame DEF SameEdit
<1>2. ASSUME NEW g, NEW own, audit' = Reached(g, own), writes' \in {writes, writes + 1},
             edit' = NoEdit \/ (edit # NoEdit /\ edit'.row = edit.row)
      PROVE  Numbered'
  <2>1. DOMAIN audit' = DOMAIN audit /\ \A i \in DOMAIN audit : SameEdit(audit'[i], audit[i]) /\ (audit[i].reached => audit'[i].reached)
    BY <1>2, ReachedIs
  <2>2. writes' >= writes BY <1>0, <1>2
  <2> QED BY <1>2, <2>1, <2>2, NumberedSame, Zenon
<1>3. ASSUME NEW id, audit' = SetRow(id, "landed"), UNCHANGED writes, edit' = edit \/ edit' = NoEdit PROVE Numbered'
  <2>1. DOMAIN audit' = DOMAIN audit /\ \A i \in DOMAIN audit : SameEdit(audit'[i], audit[i]) /\ audit'[i].reached = audit[i].reached
    BY <1>3, SetRowIs
  <2> QED BY <1>0, <1>3, <2>1, NumberedSame
<1>4. CASE ReconcileAudit
  <2>1. DOMAIN audit' = DOMAIN audit /\ \A i \in DOMAIN audit : SameEdit(audit'[i], audit[i]) /\ audit'[i].reached = audit[i].reached
    BY <1>4, SettleIs DEF ReconcileAudit
  <2>2. UNCHANGED <<writes, edit>> BY <1>4, Zenon DEF ReconcileAudit
  <2>3. edit = NoEdit \/ edit # NoEdit BY Zenon
  <2> QED BY <1>0, <2>1, <2>2, <2>3, NumberedSame
<1>5. CASE Record
  <2> DEFINE r == RestoreRow(boots.restored)
  <2>1. CASE UNCHANGED audit BY <1>1, <1>5, <2>1, Zenon DEF Record
  <2>2. CASE ~UNCHANGED audit
    <3>1. audit' = Append(audit, r) /\ \A i \in DOMAIN audit : audit[i].id # r.id BY <1>5, <2>2, Zenon DEF Record
    <3>2. boots.restored.id \in Nat /\ boots.restored.id >= 1 BY <1>5, Zenon DEF Record, Typed, BootFiles, Restoring, Places
    <3>9. r.id = MaxWrites + boots.restored.id /\ r.reached BY Zenon DEF RestoreRow
    <3>10. MaxWrites \in Nat BY ConstAssumption, Zenon DEF ConstAssumption
    <3>3. r.id > MaxWrites /\ r.reached BY <3>2, <3>9, <3>10
    <3> HIDE DEF r
    <3>4. /\ DOMAIN audit' = 1 .. Len(audit) + 1 /\ audit'[Len(audit) + 1] = r
          /\ \A i \in DOMAIN audit : audit'[i] = audit[i]
      BY <1>0, <3>1
    <3>5. UNCHANGED <<edit, writes>> BY <1>5, Zenon DEF Record
    <3>6. \A i, j \in DOMAIN audit' : audit'[i].id = audit'[j].id => i = j BY <1>0, <3>1, <3>4 DEF Numbered
    <3>7. \A i \in DOMAIN audit' : audit'[i].id \in 1 .. writes' \/ (audit'[i].id > MaxWrites /\ audit'[i].reached)
      BY <1>0, <3>3, <3>4, <3>5 DEF Numbered
    <3>8. edit' # NoEdit => \E i \in DOMAIN audit' : audit'[i].id = edit'.row BY <1>0, <3>4, <3>5 DEF Numbered
    <3> QED BY <3>6, <3>7, <3>8, Zenon DEF Numbered
  <2> QED BY <2>1, <2>2, Zenon
<1>6. ASSUME NEW f \in Files, NEW who \in {"node", "cli"}, EditBegins(who, f) PROVE Numbered'
  <2> DEFINE r == [id |-> writes + 1, old |-> file, new |-> f, state |-> "pending", reached |-> FALSE]
  <2>1. audit' = Append(audit, r) /\ writes' = writes + 1 /\ edit'.row = writes + 1 /\ writes + 1 <= MaxWrites
    BY <1>0, <1>6 DEF EditBegins, Typed
  <2>2. r.id = writes + 1 BY Zenon
  <2> HIDE DEF r
  <2>3. /\ DOMAIN audit' = 1 .. Len(audit) + 1 /\ audit'[Len(audit) + 1] = r
        /\ \A i \in DOMAIN audit : audit'[i] = audit[i]
    BY <1>0, <2>1
  <2>4. \A i \in DOMAIN audit : audit[i].id \in Nat /\ audit[i].id # writes + 1 BY <1>0, <2>1, RowTypes, SMTT(40) DEF Numbered
  <2>5. \A i, j \in DOMAIN audit' : audit'[i].id = audit'[j].id => i = j BY <1>0, <2>2, <2>3, <2>4 DEF Numbered
  <2>6. \A i \in DOMAIN audit' : audit'[i].id \in 1 .. writes' \/ (audit'[i].id > MaxWrites /\ audit'[i].reached)
    BY <1>0, <2>1, <2>2, <2>3, <2>4 DEF Numbered
  <2>7. \E i \in DOMAIN audit' : audit'[i].id = edit'.row BY <1>0, <2>1, <2>2, <2>3
  <2> QED BY <2>5, <2>6, <2>7, Zenon DEF Numbered
<1>7. CASE EditFails
  <2>1. PICK k \in DOMAIN audit : audit[k].id = edit.row /\ audit' = Without(audit, k) BY <1>7, Zenon DEF EditFails
  <2>2. /\ DOMAIN audit' = 1 .. Len(audit) - 1
        /\ \A i \in 1 .. Len(audit) - 1 : audit'[i] = audit[IF i < k THEN i ELSE i + 1]
    <3>1. k \in 1 .. Len(audit) BY <1>0, <2>1, Zenon
    <3>2. audit' \in Seq(Rows) /\ Len(audit') = Len(audit) - 1 BY <1>0, <2>1, <3>1, Withdrawn, Zenon
    <3>3. \A i \in 1 .. Len(audit) - 1 : Without(audit, k)[i] = audit[IF i < k THEN i ELSE i + 1]
      BY <1>0, <3>1, Withdrawn, Zenon
    <3>4. DOMAIN audit' = 1 .. Len(audit) - 1 BY <3>2
    <3> QED BY <2>1, <3>3, <3>4, Zenon
  <2>3. \A i \in 1 .. Len(audit) - 1 : (IF i < k THEN i ELSE i + 1) \in DOMAIN audit BY <1>0, <2>1
  <2>4. ASSUME NEW i \in DOMAIN audit', NEW j \in DOMAIN audit', audit'[i].id = audit'[j].id PROVE i = j
    <3>1. (IF i < k THEN i ELSE i + 1) = (IF j < k THEN j ELSE j + 1) BY <2>2, <2>3, <2>4 DEF Numbered
    <3>2. i \in Int /\ j \in Int /\ k \in Int BY <1>0, <2>2
    <3> QED BY <3>1, <3>2
  <2>5. \A i \in DOMAIN audit' : audit'[i].id \in 1 .. writes \/ (audit'[i].id > MaxWrites /\ audit'[i].reached)
    BY <2>2, <2>3, Zenon DEF Numbered
  <2>6. edit' = NoEdit /\ writes' = writes BY <1>7, Zenon DEF EditFails
  <2> QED BY <2>4, <2>5, <2>6, Zenon DEF Numbered
<1>8. CASE RestoreReplace
  <2>1. audit' = Reached(lastGood, NoRow) /\ UNCHANGED <<writes, edit>> BY <1>8, Zenon DEF RestoreReplace
  <2>2. edit = NoEdit \/ edit # NoEdit BY Zenon
  <2> QED BY <1>0, <1>2, <2>1, <2>2, Zenon
<1>9. ASSUME NEW f, TextEditor(f) PROVE Numbered'
  <2>1. audit' = Reached(f, NoRow) /\ writes' = writes + 1 /\ UNCHANGED edit BY <1>9, Zenon DEF TextEditor
  <2>2. edit = NoEdit \/ edit # NoEdit BY Zenon
  <2> QED BY <1>0, <1>2, <2>1, <2>2, Zenon
<1>10. CASE EditWrites
  <2>1. audit' = Reached(edit.new, edit.row) /\ UNCHANGED writes BY <1>10, Zenon DEF EditWrites
  <2>2. edit'.row = edit.row /\ edit # NoEdit BY <1>10 DEF EditWrites, Typed, NoEdit
  <2> QED BY <1>0, <1>2, <2>1, <2>2, Zenon
<1>11. CASE RecordLanded BY <1>3, <1>11, Zenon DEF RecordLanded
<1>12. CASE EditLands BY <1>3, <1>12, Zenon DEF EditLands
<1>13. CASE UNCHANGED vars BY <1>1, <1>13, Zenon DEF vars
<1>14. CASE StartStep
  <2>1. CASE Boot BY <1>1, <2>1, Zenon DEF Boot
  <2>2. CASE RestoreLocked BY <1>1, <2>2, Zenon DEF RestoreLocked
  <2>3. CASE RestoreNoted BY <1>1, <2>3, Zenon DEF RestoreNoted
  <2>4. CASE HashFile BY <1>1, <2>4, Zenon DEF HashFile
  <2>5. CASE Load BY <1>1, <2>5, Zenon DEF Load
  <2>6. CASE MigrationWrites
    <3>1. audit' = Reached(node.loaded, NoRow) /\ UNCHANGED <<writes, edit>> BY <2>6, Zenon DEF MigrationWrites
    <3>2. edit = NoEdit \/ edit # NoEdit BY Zenon
    <3> QED BY <1>0, <1>2, <3>1, <3>2, Zenon
  <2>7. CASE ReadBootText BY <1>1, <2>7, Zenon DEF ReadBootText
  <2>8. CASE Start BY <1>1, <2>8, Zenon DEF Start
  <2>9. CASE RecordForgets BY <1>1, <2>9, Zenon DEF RecordForgets
  <2> QED
    BY <1>4, <1>5, <1>8, <1>11, <1>14, <2>1, <2>2, <2>3, <2>4, <2>5, <2>6, <2>7, <2>8, <2>9, Zenon DEF StartStep
<1>15. CASE \/ Graced \/ Promote \/ KeepCurrent \/ Refresh \/ Stop \/ Killed \/ NotCounted \/ MigrationFails \/ NotReconciled
            \/ EditUnmarked \/ EditApplies \/ EditorKilled
  BY <1>1, <1>15, Zenon DEF Graced, Promote, KeepCurrent, Refresh, Stop, Killed, NotCounted, MigrationFails, NotReconciled,
                      EditUnmarked, EditApplies, EditorKilled
<1> QED BY <1>6, <1>7, <1>9, <1>10, <1>12, <1>13, <1>14, <1>15, Zenon DEF Next, EditStep

\* While rows are only marked, what undoes them still does.
LEMMA SameLog ==
    ASSUME DOMAIN audit' = DOMAIN audit, \A i \in DOMAIN audit : SameEdit(audit'[i], audit[i]),
           \A i \in DOMAIN audit : Stays(i) => Stays(i)', \A i \in DOMAIN audit : Open(i)' => Open(i),
           migrated \subseteq migrated'
    PROVE  /\ \A i \in DOMAIN audit : Undone(i) => Undone(i)'
           /\ \A v : LeftFrom(v) => LeftFrom(v)'
           /\ \A v : Undoes(v) => Undoes(v)'
           /\ \A v : lastGood' = lastGood /\ Owes(v) => Owes(v)'
<1>1. ASSUME NEW i \in DOMAIN audit, Undone(i) PROVE Undone(i)'
  <2>1. ASSUME NEW a \in DOMAIN audit, NEW b \in DOMAIN audit, a < b, audit[b].new = audit[a].old,
               Stays(a) \/ a = i, Stays(b) \/ b = i
        PROVE  Undone(i)'
    <3>1. audit'[b].new = audit'[a].old /\ (Stays(a)' \/ a = i) /\ (Stays(b)' \/ b = i) BY <2>1, Zenon DEF SameEdit
    <3> QED BY <2>1, <3>1, Zenon DEF Undone
  <2>2. ASSUME NEW b \in DOMAIN audit, audit[b].new \in migrated, Stays(b) \/ b = i PROVE Undone(i)'
    <3>1. audit'[b].new \in migrated' /\ (Stays(b)' \/ b = i) BY <2>2, Zenon DEF SameEdit
    <3> QED BY <2>2, <3>1, Zenon DEF Undone
  <2> QED BY <1>1, <2>1, <2>2, Zenon DEF Undone
<1>2. ASSUME NEW v, LeftFrom(v) PROVE LeftFrom(v)' BY <1>2, Zenon DEF LeftFrom, SameEdit
<1>3. ASSUME NEW v, Undoes(v) PROVE Undoes(v)' BY <1>1, <1>3, Zenon DEF Undoes, SameEdit
<1>4. ASSUME NEW v, lastGood' = lastGood, Owes(v) PROVE Owes(v)' BY <1>2, <1>4, Zenon DEF Owes, SameEdit
<1> QED BY <1>1, <1>2, <1>3, <1>4, Zenon

\* Rows are numbered from 1.
LEMMA Positive == ASSUME Typed, Numbered PROVE \A i \in DOMAIN audit : audit[i].id \in Nat /\ audit[i].id # 0
<1>1. writes \in Nat /\ MaxWrites \in Nat BY Consts DEF Typed
<1>2. \A i \in DOMAIN audit : audit[i].id \in Nat BY RowTypes, Zenon
<1> QED BY <1>1, <1>2 DEF Numbered

\* What a settling start knows of the file, by where it is.
LEMMA RootsAre ==
    /\ file \in Roots /\ Roots \subseteq {file, node.before} /\ Roots \subseteq {file} \cup migrated
    /\ pc \notin {"loaded", "reconcile"} => Roots = {file}
    /\ pc' = pc /\ UNCHANGED <<file, node, migrated>> => Roots' = Roots
BY Zenon DEF Roots

\* A start, a running node or an end of an edit that leaves the file and the log alone.
LEMMA QuietTruth ==
    ASSUME Typed, Places, Numbered, Truth, UNCHANGED <<audit, file, migrated>>, edit' = edit \/ edit' = NoEdit,
           node'.before = NoFile \/ node'.before = node.before \/ node'.before = file,
           Unrecorded' => lastGood' = lastGood /\ Unrecorded,
           \/ boots'.restored = boots.restored \/ boots'.restored = NoRestore
           \/ pc = "replaced" /\ boots'.restored.failed = node.seen,
           pc' = "replaced" => pc = "replaced" /\ node'.seen = node.seen,
           pc' = "keep" => file = node'.seen,
           unsettled => unsettled',
           \/ unsettled' \/ ~Buried(migrated, file)
           \/ pc \notin {"loaded", "reconcile", "insert"}
           \/ pc \in {"loaded", "reconcile"} /\ pc' \in {"loaded", "reconcile"} /\ node'.before = node.before
           \/ pc = "insert" /\ pc' = "insert" /\ boots'.restored = boots.restored
    PROVE  Truth'
<1> USE DEF Truth
<1>1. \A i \in DOMAIN audit : Stays(i) => Stays(i)' BY DEF Stays, NoEdit
<1>2. \A i \in DOMAIN audit : Open(i)' = Open(i) BY Zenon DEF Open
<1>3. /\ \A i \in DOMAIN audit : Undone(i) => Undone(i)'
      /\ \A v : LeftFrom(v) => LeftFrom(v)'
      /\ \A v : Undoes(v) => Undoes(v)'
      /\ \A v : lastGood' = lastGood /\ Owes(v) => Owes(v)'
  BY <1>1, <1>2, SameLog, Zenon DEF SameEdit
<1>4. EditHeld' BY DEF EditHeld, NoEdit
<1>5. LandedTrue'
  <2>1. \A i \in DOMAIN audit : audit'[i].state = "landed" => audit'[i].reached \/ Undone(i)' BY <1>3, Zenon DEF LandedTrue
  <2>2. \A i \in DOMAIN audit : Open(i)' => audit'[i].new # file' BY <1>2, Zenon DEF LandedTrue
  <2>3. \A j \in DOMAIN audit : Undoes(audit[j].old)' BY <1>3, Zenon DEF LandedTrue
  <2>4. node'.before # NoFile => Undoes(node.before)' /\ (node'.before # file => LeftFrom(node.before)')
    <3>1. CASE node'.before = node.before BY <1>3, <3>1, Zenon DEF LandedTrue
    <3>2. CASE node'.before = file BY <2>2, <3>2, Zenon DEF Undoes
    <3> QED BY <3>1, <3>2, Zenon
  <2>5. boots'.restored # NoRestore => Owes(boots.restored.failed)' BY <1>3, Zenon DEF LandedTrue, Unrecorded
  <2>6. pc' = "replaced" => Owes(node.seen)' BY <1>3, Zenon DEF LandedTrue, Unrecorded
  <2>7. Unrecorded' /\ file # lastGood' => LeftFrom(lastGood)' BY <1>3, Zenon DEF LandedTrue
  <2> QED BY <2>1, <2>2, <2>3, <2>4, <2>5, <2>6, <2>7, Zenon DEF LandedTrue
<1>6. ASSUME ~unsettled' PROVE LostTrue'
  <2>0. LostTrue BY <1>6, Zenon
  <2>1. \/ ~Buried(migrated, file)
        \/ Roots \subseteq Roots' /\ \A i \in DOMAIN audit : Marking(i) => Marking(i)'
    <3>1. CASE pc \notin {"loaded", "reconcile", "insert"} BY <3>1, RootsAre, Zenon DEF Roots, Marking
    <3>2. CASE pc \in {"loaded", "reconcile"} /\ pc' \in {"loaded", "reconcile"} /\ node'.before = node.before
      BY <3>2, Zenon DEF Roots, Marking
    <3>3. CASE pc = "insert" /\ pc' = "insert" /\ boots'.restored = boots.restored
      BY <3>3, RootsAre, Zenon DEF Roots, Marking
    <3> QED BY <1>6, <3>1, <3>2, <3>3, Zenon
  <2>2. ASSUME NEW v, LeadsTo(v), ~Buried(migrated, file), v \notin migrated \ {file} PROVE LeadsTo(v)'
    <3> SUFFICES ASSUME NEW marked \in SUBSET DOMAIN audit, Closed(audit, Roots, marked)'
                 PROVE  v \in Roots' \/ \E k \in marked : audit[k].old = v
      BY Zenon DEF LeadsTo
    <3>1. file \in Roots' BY Zenon DEF Roots
    <3>2. \A i \in DOMAIN audit : audit[i].state = "pending" /\ audit[i].new \in Roots => audit[i].new = file
      BY <2>2, RootsAre, Zenon DEF Buried
    <3>3. Closed(audit, Roots, marked) BY <3>1, <3>2, Zenon DEF Closed
    <3>4. v \in Roots => v = file BY <2>2, RootsAre, Zenon
    <3> QED BY <2>2, <3>1, <3>3, <3>4, Zenon DEF LeadsTo
  <2>3. ASSUME NEW v, LeadsTo(v), Roots \subseteq Roots' PROVE LeadsTo(v)'
    <3>1. \A marked : Closed(audit, Roots, marked)' => Closed(audit, Roots, marked) BY <2>3, Zenon DEF Closed
    <3> QED BY <2>3, <3>1, Zenon DEF LeadsTo
  <2>4. ASSUME NEW i \in DOMAIN audit, audit[i].state = "pending", audit[i].reached
        PROVE  LeadsTo(audit[i].new)' \/ Marking(i)'
    <3>1. LeadsTo(audit[i].new) \/ Marking(i) BY <2>0, <2>4, Zenon DEF LostTrue
    <3>2. CASE ~Buried(migrated, file)
      <4>1. audit[i].new \notin migrated \ {file} BY <2>4, <3>2, Zenon DEF Buried
      <4>2. CASE LeadsTo(audit[i].new) BY <2>2, <3>2, <4>1, <4>2, Zenon
      <4>3. CASE Marking(i)
        <5>1. audit[i].new = file /\ file \in Roots' BY <4>1, <4>3, Zenon DEF Marking, Roots
        <5> QED BY <5>1, Zenon DEF LeadsTo
      <4> QED BY <3>1, <4>2, <4>3, Zenon
    <3>3. CASE Roots \subseteq Roots' /\ \A k \in DOMAIN audit : Marking(k) => Marking(k)'
      BY <2>3, <3>1, <3>3, Zenon
    <3> QED BY <2>1, <3>2, <3>3, Zenon
  <2>5. Unrecorded' => LeadsTo(lastGood)' \/ lastGood' \in migrated'
    <3> SUFFICES ASSUME Unrecorded', lastGood \notin migrated PROVE LeadsTo(lastGood)' BY Zenon
    <3>1. LeadsTo(lastGood) /\ lastGood' = lastGood BY <2>0, Zenon DEF LostTrue
    <3> QED BY <2>1, <2>2, <2>3, <3>1, Zenon
  <2>6. \A i \in DOMAIN audit : audit[i].id # NoEdit.row BY Positive, Zenon DEF NoEdit, NoRow
  <2>7. \A i \in DOMAIN audit' : audit'[i].state = "lost" => ~audit'[i].reached /\ audit'[i].id # edit'.row
    BY <2>0, <2>6, Zenon DEF LostTrue
  <2> QED BY <2>4, <2>5, <2>7, Zenon DEF LostTrue
<1> QED BY <1>4, <1>5, <1>6, Zenon

\* An edit writes the file: every row that led to the old version leads to the new one
\* through the row of this edit.
LEMMA EditWritesTruth ==
    ASSUME Typed, Places, Numbered, Truth, Kept, EditWrites
    PROVE  Truth'
<1> USE DEF Truth
<1>0. /\ edit.at = "inserted" /\ file' = edit.new /\ edit'.at = "written" /\ edit'.row = edit.row
      /\ audit' = Reached(edit.new, edit.row) /\ UNCHANGED <<lastGood, boots, pc, node, migrated, unsettled>>
  BY Zenon DEF EditWrites, Typed
<1>1. /\ DOMAIN audit' = DOMAIN audit
      /\ \A i \in DOMAIN audit :
            /\ SameEdit(audit'[i], audit[i]) /\ audit'[i].state = audit[i].state
            /\ audit'[i].reached <=> audit[i].reached \/ audit[i].id = edit.row
                                     \/ (audit[i].state = "pending" /\ audit[i].new = edit.new)
  BY <1>0, ReachedIs
<1>2. PICK e \in DOMAIN audit : audit[e].id = edit.row BY <1>0 DEF Numbered, NoEdit
<1>3. audit[e].old = file /\ audit[e].new = edit.new BY <1>0, <1>2, Zenon DEF EditHeld
<1>4. EditHeld' BY <1>0, <1>1, <1>3 DEF EditHeld, SameEdit
<1>5. /\ \A i \in DOMAIN audit : Stays(i)' BY <1>0, Zenon DEF Stays
<1>6. \A i \in DOMAIN audit : Open(i)' => Open(i) /\ audit'[i].new # file' BY <1>0, <1>1, Zenon DEF Open, SameEdit
<1>7. /\ \A i \in DOMAIN audit : Undone(i) => Undone(i)'
      /\ \A v : LeftFrom(v) => LeftFrom(v)'
      /\ \A v : Undoes(v) => Undoes(v)'
      /\ \A v : lastGood' = lastGood /\ Owes(v) => Owes(v)'
  BY <1>0, <1>1, <1>5, <1>6, SameLog, Zenon
<1>9. \A v : v = file => \E k \in DOMAIN audit' : (Stays(k))' /\ audit'[k].old = v
  BY <1>1, <1>2, <1>3, <1>5, Zenon DEF SameEdit
<1>10. LandedTrue'
  <2>1. \A i \in DOMAIN audit' : audit'[i].state = "landed" => audit'[i].reached \/ Undone(i)'
    BY <1>1, <1>7, Zenon DEF LandedTrue
  <2>2. \A i \in DOMAIN audit' : Open(i)' => audit'[i].new # file' BY <1>1, <1>6, Zenon
  <2>3. \A j \in DOMAIN audit' : Undoes(audit[j].old)' BY <1>1, <1>7, Zenon DEF LandedTrue, SameEdit
  <2>4. node'.before # NoFile => Undoes(node.before)' /\ (node'.before # file' => LeftFrom(node.before)')
    <3>1. CASE node.before = file BY <1>0, <1>7, <1>9, <3>1, Zenon DEF LandedTrue, LeftFrom
    <3>2. CASE node.before # file BY <1>0, <1>7, <3>2, Zenon DEF LandedTrue
    <3> QED BY <3>1, <3>2, Zenon
  <2>5. boots'.restored # NoRestore => Owes(boots.restored.failed)' BY <1>0, <1>7, Zenon DEF LandedTrue
  <2>6. pc' = "replaced" => Owes(node.seen)' BY <1>0, <1>7, Zenon DEF LandedTrue
  <2>7. pc' # "keep" BY <1>0 DEF Kept, NoEdit
  <2>8. Unrecorded' /\ file' # lastGood' => LeftFrom(lastGood)'
    <3>1. CASE lastGood = file BY <1>0, <1>9, <3>1, Zenon DEF LeftFrom
    <3>2. CASE lastGood # file BY <1>0, <1>7, <3>2, Zenon DEF LandedTrue, Unrecorded
    <3> QED BY <3>1, <3>2, Zenon
  <2> QED BY <2>1, <2>2, <2>3, <2>4, <2>5, <2>6, <2>7, <2>8, Zenon DEF LandedTrue
<1>11. ASSUME ~unsettled PROVE LostTrue'
  <2>1. LostTrue BY <1>11, Zenon
  <2>0. file' \in Roots' /\ (\A v \in Roots : v = file \/ v \in Roots') BY <1>0, Zenon DEF Roots
  <2>2. ASSUME NEW v, LeadsTo(v) PROVE LeadsTo(v)'
    <3> SUFFICES ASSUME NEW marked \in SUBSET DOMAIN audit, Closed(audit', Roots', marked)
                 PROVE  v \in Roots' \/ \E k \in marked : audit'[k].old = v
      BY <1>1, Zenon DEF LeadsTo
    <3>1. e \in marked
      <4>1. audit[e].state \in {"pending", "landed"} BY <1>2, <2>1, RowTypes, Zenon DEF LostTrue
      <4>2. e \in DOMAIN audit' /\ audit'[e].state = audit[e].state /\ audit'[e].new \in Roots'
        BY <1>0, <1>1, <1>2, <1>3, <2>0, Zenon DEF SameEdit
      <4> QED BY <4>1, <4>2, Zenon DEF Closed
    <3>2. Closed(audit, Roots, marked)
      <4> SUFFICES ASSUME NEW i \in DOMAIN audit,
                          \/ audit[i].state = "landed"
                          \/ /\ audit[i].state = "pending"
                             /\ audit[i].new \in Roots \/ \E j \in marked : audit[j].old = audit[i].new
                   PROVE  i \in marked
        BY Zenon DEF Closed
      <4>1. i \in DOMAIN audit' /\ audit'[i].state = audit[i].state /\ audit'[i].new = audit[i].new
        BY <1>1, Zenon DEF SameEdit
      <4>2. \A j \in marked : audit'[j].old = audit[j].old BY <1>1, Zenon DEF SameEdit
      <4>3. audit[i].new \in Roots => audit[i].new \in Roots' \/ audit[e].old = audit[i].new BY <1>3, <2>0, Zenon
      <4> QED BY <3>1, <4>1, <4>2, <4>3, Zenon DEF Closed
    <3>3. v \in Roots \/ \E k \in marked : audit[k].old = v BY <2>2, <3>2, Zenon DEF LeadsTo
    <3> QED BY <1>1, <1>3, <2>0, <3>1, <3>3, Zenon DEF SameEdit
  <2>3. \A v : v = file' => LeadsTo(v)' BY <2>0, Zenon DEF LeadsTo
  <2>4. \A i \in DOMAIN audit' : audit'[i].state = "pending" /\ audit'[i].reached => LeadsTo(audit[i].new)' \/ Marking(i)'
    <3>1. \A i \in DOMAIN audit : audit[i].id = edit.row => audit[i].new = file' BY <1>0, Zenon DEF EditHeld
    <3>2. \A i \in DOMAIN audit : audit[i].state = "pending" /\ audit[i].reached => LeadsTo(audit[i].new) \/ Marking(i)
      BY <2>1, Zenon DEF LostTrue
    <3> SUFFICES ASSUME NEW i \in DOMAIN audit, audit[i].state = "pending", audit'[i].reached
                 PROVE  LeadsTo(audit[i].new)' \/ Marking(i)'
      BY <1>1, Zenon
    <3>3. audit'[i].new = audit[i].new /\ audit'[i].id = audit[i].id BY <1>1, Zenon DEF SameEdit
    <3>4. CASE audit[i].reached
      <4>1. CASE LeadsTo(audit[i].new) BY <2>2, <3>3, <4>1, Zenon
      <4>2. CASE Marking(i) BY <1>0, <3>3, <4>2, Zenon DEF Marking
      <4> QED BY <3>2, <3>4, <4>1, <4>2, Zenon
    <3>5. CASE ~audit[i].reached
      <4>1. audit[i].new = file' BY <1>0, <1>1, <3>1, <3>5, Zenon
      <4> QED BY <2>3, <3>3, <4>1, Zenon
    <3> QED BY <3>4, <3>5, Zenon
  <2>5. Unrecorded' => LeadsTo(lastGood)' \/ lastGood' \in migrated' BY <1>0, <2>1, <2>2, Zenon DEF LostTrue, Unrecorded
  <2>6. \A i \in DOMAIN audit' : audit'[i].state = "lost" => ~audit'[i].reached /\ audit'[i].id # edit'.row
    <3> SUFFICES ASSUME NEW i \in DOMAIN audit', audit'[i].state = "lost"
                 PROVE  ~audit'[i].reached /\ audit'[i].id # edit'.row
      BY Zenon
    <3>1. i \in DOMAIN audit /\ audit'[i].id = audit[i].id /\ audit[i].state = "lost"
      BY <1>1, Zenon DEF SameEdit
    <3>2. ~audit[i].reached /\ audit[i].id # edit.row BY <2>1, <3>1, Zenon DEF LostTrue
    <3>3. ~audit'[i].reached BY <1>1, <3>1, <3>2, Zenon
    <3> QED BY <1>0, <3>1, <3>2, <3>3, Zenon
  <2> QED BY <1>0, <2>4, <2>5, <2>6, Zenon DEF LostTrue
<1> QED BY <1>0, <1>4, <1>10, <1>11, Zenon

\* A row that came true is marked landed.
LEMMA LandsTruth ==
    ASSUME Typed, Places, Numbered, Truth, NEW id, audit' = SetRow(id, "landed"),
           \A i \in DOMAIN audit : audit[i].id = id => audit[i].reached,
           UNCHANGED <<file, lastGood, boots, node, migrated, unsettled>>, edit' = edit \/ edit' = NoEdit,
           pc' = pc \/ (pc = "insert" /\ pc' = "landing" /\ id = MaxWrites + boots.restored.id)
    PROVE  Truth'
<1> USE DEF Truth
<1>1. /\ DOMAIN audit' = DOMAIN audit
      /\ \A i \in DOMAIN audit :
            /\ SameEdit(audit'[i], audit[i]) /\ audit'[i].reached = audit[i].reached
            /\ audit'[i].state = IF audit[i].id = id THEN "landed" ELSE audit[i].state
  BY SetRowIs
<1>2. EditHeld'
  <2>1. CASE edit' = NoEdit BY <2>1, Zenon DEF EditHeld, NoEdit
  <2>2. CASE edit' = edit
    <3>1. \A k \in DOMAIN audit' : /\ k \in DOMAIN audit /\ audit'[k].id = audit[k].id /\ audit'[k].old = audit[k].old
                                   /\ audit'[k].new = audit[k].new /\ audit'[k].reached = audit[k].reached
      BY <1>1, Zenon DEF SameEdit
    <3> QED BY <2>2, <3>1 DEF EditHeld
  <2> QED BY <2>1, <2>2, Zenon
<1>3. \A i \in DOMAIN audit : Stays(i) => Stays(i)'
  <2> SUFFICES ASSUME NEW i \in DOMAIN audit, Stays(i) PROVE Stays(i)' BY Zenon
  <2>1. audit'[i].id = audit[i].id BY <1>1, Zenon DEF SameEdit
  <2>2. CASE edit' = edit BY <2>1, <2>2, Zenon DEF Stays
  <2>3. CASE edit' = NoEdit BY <2>3, Zenon DEF Stays, NoEdit
  <2> QED BY <2>2, <2>3, Zenon
<1>4. \A i \in DOMAIN audit : Open(i)' => Open(i) BY <1>1, Zenon DEF Open
<1>5. /\ \A i \in DOMAIN audit : Undone(i) => Undone(i)'
      /\ \A v : LeftFrom(v) => LeftFrom(v)'
      /\ \A v : Undoes(v) => Undoes(v)'
      /\ \A v : lastGood' = lastGood /\ Owes(v) => Owes(v)'
  BY <1>1, <1>3, <1>4, SameLog, Zenon
<1>6. LandedTrue'
  <2>1. \A i \in DOMAIN audit' : audit'[i].state = "landed" => audit'[i].reached \/ Undone(i)'
    BY <1>1, <1>5, Zenon DEF LandedTrue
  <2>2. \A i \in DOMAIN audit' : Open(i)' => audit'[i].new # file' BY <1>1, <1>4, Zenon DEF LandedTrue, SameEdit
  <2>3. \A j \in DOMAIN audit' : Undoes(audit[j].old)' BY <1>1, <1>5, Zenon DEF LandedTrue, SameEdit
  <2>4. node'.before # NoFile => Undoes(node.before)' /\ (node'.before # file' => LeftFrom(node.before)')
    BY <1>5, Zenon DEF LandedTrue
  <2>5. boots'.restored # NoRestore => Owes(boots.restored.failed)' BY <1>5, Zenon DEF LandedTrue
  <2>6. pc' = "replaced" => Owes(node.seen)' BY <1>5, Zenon DEF LandedTrue
  <2>7. Unrecorded' /\ file' # lastGood' => LeftFrom(lastGood)' BY <1>5, Zenon DEF LandedTrue, Unrecorded
  <2>8. pc' = "keep" => file' = node'.seen BY Zenon DEF LandedTrue
  <2> QED BY <2>1, <2>2, <2>3, <2>4, <2>5, <2>6, <2>7, <2>8, Zenon DEF LandedTrue
<1>7. ASSUME ~unsettled PROVE LostTrue'
  <2>1. LostTrue BY <1>7, Zenon
  <2>0. Roots' = Roots BY RootsAre, Zenon DEF Roots
  <2>2. ASSUME NEW v, LeadsTo(v) PROVE LeadsTo(v)'
    <3> SUFFICES ASSUME NEW marked \in SUBSET DOMAIN audit, Closed(audit', Roots, marked)
                 PROVE  v \in Roots \/ \E k \in marked : audit'[k].old = v
      BY <1>1, <2>0, Zenon DEF LeadsTo
    <3>1. Closed(audit, Roots, marked) BY <1>1 DEF Closed, SameEdit
    <3> QED BY <1>1, <2>2, <3>1, SMTT(40) DEF LeadsTo, SameEdit
  <2>3. ASSUME NEW i \in DOMAIN audit', audit'[i].state = "pending", audit'[i].reached
        PROVE  LeadsTo(audit[i].new)' \/ Marking(i)'
    <3>1. /\ i \in DOMAIN audit /\ audit'[i].new = audit[i].new /\ audit'[i].id = audit[i].id /\ audit[i].id # id
          /\ audit[i].state = "pending" /\ audit[i].reached
      BY <1>1, <2>3, Zenon DEF SameEdit
    <3>2. CASE LeadsTo(audit[i].new) BY <2>2, <3>1, <3>2, Zenon
    <3>3. CASE Marking(i) BY <3>1, <3>3, Zenon DEF Marking
    <3> QED BY <2>1, <3>1, <3>2, <3>3, Zenon DEF LostTrue
  <2>4. Unrecorded' => LeadsTo(lastGood)' \/ lastGood' \in migrated' BY <2>1, <2>2, Zenon DEF LostTrue, Unrecorded
  <2>5. \A i \in DOMAIN audit' : audit'[i].state = "lost" => ~audit'[i].reached /\ audit'[i].id # edit'.row
    <3> SUFFICES ASSUME NEW i \in DOMAIN audit', audit'[i].state = "lost"
                 PROVE  ~audit'[i].reached /\ audit'[i].id # edit'.row
      BY Zenon
    <3>1. i \in DOMAIN audit /\ audit'[i].id = audit[i].id /\ audit'[i].reached = audit[i].reached
      BY <1>1, Zenon DEF SameEdit
    <3>2. audit[i].state = "lost" BY <1>1, <3>1, Zenon
    <3>3. ~audit[i].reached /\ audit[i].id # edit.row BY <2>1, <3>1, <3>2, Zenon DEF LostTrue
    <3>4. audit[i].id # NoRow BY <3>1, Positive, Zenon DEF NoRow
    <3>5. edit'.row = edit.row \/ edit'.row = NoRow BY DEF NoEdit
    <3> QED BY <3>1, <3>3, <3>4, <3>5, Zenon
  <2> QED BY <2>3, <2>4, <2>5, Zenon DEF LostTrue
<1> QED BY <1>2, <1>6, <1>7, Zenon

\* A start settles the log: the rows it marks came true or were undone, and every row that
\* came true is marked, unless an edit is under way.
LEMMA SettleTruth ==
    ASSUME Typed, Places, Numbered, Truth, ReconcileAudit
    PROVE  Truth'
<1> USE DEF Truth
<1> DEFINE marks == BuiltOn(audit, {file, node.before})
<1>0. /\ UNCHANGED <<file, lastGood, boots, edit, migrated>> /\ pc = "reconcile" /\ unsettled' = (unsettled \/ edit # NoEdit)
      /\ audit' = AuditSettle(audit, {file, node.before}) /\ pc' = "start" /\ node'.before = NoFile
  BY Zenon DEF ReconcileAudit, Typed, Memories
<1>1. /\ DOMAIN audit' = DOMAIN audit
      /\ \A i \in DOMAIN audit :
            /\ SameEdit(audit'[i], audit[i]) /\ audit'[i].reached = audit[i].reached
            /\ audit'[i].state = IF audit[i].state # "pending" THEN audit[i].state
                                 ELSE IF i \in marks THEN "landed" ELSE "lost"
  <2>1. audit' = AuditSettle(audit, {file, node.before}) BY <1>0, Zenon
  <2> QED BY <2>1, SettleIs
<1>2. \A i \in marks : /\ i \in DOMAIN audit /\ audit[i].state \in {"landed", "pending"}
                       /\ audit[i].state = "pending" => audit[i].reached \/ Undone(i)
  <2> DEFINE true == {i \in DOMAIN audit : \/ audit[i].state = "landed"
                                           \/ audit[i].state = "pending" /\ (audit[i].reached \/ Undone(i))}
  <2>1. ASSUME NEW i \in DOMAIN audit, audit[i].state = "pending",
               audit[i].new \in {file, node.before} \/ \E j \in true : audit[j].old = audit[i].new
        PROVE  audit[i].reached \/ Undone(i)
    <3>1. CASE audit[i].new = file BY <2>1, <3>1, Zenon DEF LandedTrue, Open
    <3>2. CASE audit[i].new = node.before
      <4>1. node.before # NoFile BY <3>2, RowTypes, Consts, Zenon
      <4> QED BY <2>1, <3>2, <4>1, Zenon DEF LandedTrue, Open, Undoes
    <3>3. ASSUME NEW j \in true, audit[j].old = audit[i].new PROVE audit[i].reached \/ Undone(i)
      BY <2>1, <3>3, Zenon DEF LandedTrue, Open, Undoes
    <3> QED BY <2>1, <3>1, <3>2, <3>3, Zenon
  <2>2. Closed(audit, {file, node.before}, true) BY <2>1, Zenon DEF Closed
  <2>3. true \in SUBSET DOMAIN audit BY Zenon
  <2>4. \A i \in marks : i \in true BY <2>2, <2>3, Zenon DEF BuiltOn
  <2> QED BY <2>4, Zenon
<1>3. marks \in SUBSET DOMAIN audit /\ Closed(audit, {file, node.before}, marks)
  <2>1. ASSUME NEW i \in DOMAIN audit,
               \/ audit[i].state = "landed"
               \/ /\ audit[i].state = "pending"
                  /\ audit[i].new \in {file, node.before} \/ \E j \in marks : audit[j].old = audit[i].new,
               NEW L \in SUBSET DOMAIN audit, Closed(audit, {file, node.before}, L)
        PROVE  i \in L
    <3>1. \A j \in marks : j \in L BY <2>1, Zenon DEF BuiltOn
    <3> HIDE DEF marks
    <3> QED BY <2>1, <3>1, Zenon DEF Closed
  <2>2. ASSUME NEW i \in DOMAIN audit,
               \/ audit[i].state = "landed"
               \/ /\ audit[i].state = "pending"
                  /\ audit[i].new \in {file, node.before} \/ \E j \in marks : audit[j].old = audit[i].new
        PROVE  i \in marks
    BY <2>1, <2>2, Zenon DEF BuiltOn
  <2>3. marks \in SUBSET DOMAIN audit BY Zenon DEF BuiltOn
  <2> HIDE DEF marks
  <2> QED BY <2>2, <2>3, Zenon DEF Closed
<1> HIDE DEF marks
<1>4. EditHeld'
  <2>1. \A k \in DOMAIN audit : audit'[k].id = audit[k].id /\ audit'[k].old = audit[k].old
                                /\ audit'[k].new = audit[k].new /\ audit'[k].reached = audit[k].reached
    BY <1>1, Zenon DEF SameEdit
  <2>2. DOMAIN audit' = DOMAIN audit BY <1>1, Zenon
  <2>3. EditHeld /\ file' = file /\ edit' = edit BY <1>0, Zenon
  <2> QED BY <2>1, <2>2, <2>3, ZenonT(40) DEF EditHeld
<1>5. \A i \in DOMAIN audit : Stays(i) => Stays(i)' BY <1>0, <1>1, Zenon DEF Stays, SameEdit
<1>6. \A i \in DOMAIN audit : ~Open(i)' BY <1>1, Zenon DEF Open
<1>7. /\ \A i \in DOMAIN audit : Undone(i) => Undone(i)'
      /\ \A v : LeftFrom(v) => LeftFrom(v)'
  BY <1>0, <1>1, <1>5, <1>6, SameLog, Zenon
<1>8. LandedTrue'
  <2>1. \A i \in DOMAIN audit' : audit'[i].state = "landed" => audit'[i].reached \/ Undone(i)'
    BY <1>1, <1>2, <1>7, Zenon DEF LandedTrue
  <2>2. \A i \in DOMAIN audit' : Open(i)' => audit'[i].new # file' BY <1>1, <1>6, Zenon
  <2>3. \A j \in DOMAIN audit' : Undoes(audit[j].old)' BY <1>1, <1>6, Zenon DEF Undoes
  <2>4. boots'.restored # NoRestore => Owes(boots.restored.failed)' BY <1>1, <1>6, Zenon DEF Owes
  <2>5. Unrecorded' /\ file' # lastGood' => LeftFrom(lastGood)' BY <1>0, <1>7, Zenon DEF LandedTrue, Unrecorded
  <2> QED BY <1>0, <2>1, <2>2, <2>3, <2>4, <2>5, Zenon DEF LandedTrue
<1>9. ASSUME ~unsettled' PROVE LostTrue'
  <2>1. LostTrue /\ edit = NoEdit BY <1>0, <1>9, Zenon
  <2>0. Closed(audit, Roots, marks) BY <1>3, RootsAre, Zenon DEF Closed
  <2>2. \A i \in DOMAIN audit' : audit'[i].state # "pending" BY <1>1, Zenon
  <2>3. ASSUME NEW i \in DOMAIN audit', audit'[i].state = "lost" PROVE ~audit'[i].reached /\ audit'[i].id # edit'.row
    <3>1. audit'[i].id # edit'.row BY <1>0, <1>1, <2>1, Positive, Zenon DEF SameEdit, NoEdit, NoRow
    <3>2. CASE audit[i].state = "lost"
      <4>1. i \in DOMAIN audit /\ audit'[i].reached = audit[i].reached BY <1>1, Zenon
      <4>2. ~audit[i].reached BY <2>1, <3>2, <4>1, Zenon DEF LostTrue
      <4> QED BY <3>1, <4>1, <4>2, Zenon
    <3>3. CASE audit[i].state # "lost"
      <4>1. audit[i].state = "pending" /\ i \notin marks BY <1>1, <2>3, <3>3, Zenon
      <4>2. CASE audit[i].reached
        <5>0. LeadsTo(audit[i].new) BY <1>0, <1>1, <2>1, <4>1, <4>2, Zenon DEF LostTrue, Marking
        <5>1. audit[i].new \in Roots \/ \E k \in marks : audit[k].old = audit[i].new
          BY <1>3, <2>0, <5>0, Zenon DEF LeadsTo
        <5>2. i \in marks BY <1>1, <2>0, <4>1, <5>1, Zenon DEF Closed
        <5> QED BY <4>1, <5>2, Zenon
      <4> QED BY <1>1, <3>1, <4>2, Zenon
    <3> QED BY <3>2, <3>3, Zenon
  <2>4. ASSUME Unrecorded', lastGood \notin migrated PROVE LeadsTo(lastGood)'
    <3>0. LeadsTo(lastGood) BY <1>0, <2>1, <2>4, Zenon DEF LostTrue, Unrecorded
    <3>1. lastGood = file \/ \E k \in marks : audit[k].old = lastGood
      BY <1>3, <2>0, <2>4, <3>0, RootsAre, Zenon DEF LeadsTo
    <3>3. file' \in Roots' BY Zenon DEF Roots
    <3>2. \A k \in marks : k \in DOMAIN audit /\ audit'[k].state = "landed" /\ audit'[k].old = audit[k].old
      BY <1>1, <1>2, Zenon DEF SameEdit
    <3> QED BY <1>0, <1>1, <3>1, <3>2, <3>3, Zenon DEF LeadsTo, Closed
  <2> QED BY <1>0, <2>2, <2>3, <2>4, Zenon DEF LostTrue
<1> QED BY <1>4, <1>8, <1>9, Zenon

\* A restore puts last-good in place of a file that no pending row names any more.
LEMMA RestoreTruth ==
    ASSUME Typed, Places, Numbered, Truth, Kept, RestoreReplace
    PROVE  Truth'
<1> USE DEF Truth
<1>0. /\ pc = "keep" /\ pc' = "replaced" /\ file' = lastGood /\ audit' = Reached(lastGood, NoRow)
      /\ unsettled' = (unsettled \/ \E i \in DOMAIN audit : audit[i].state = "pending" /\ audit[i].new = file)
      /\ UNCHANGED <<lastGood, boots, node, edit, migrated>> /\ edit = NoEdit /\ node.before = NoFile
  BY Zenon DEF RestoreReplace, Kept, Places
<1>1. /\ DOMAIN audit' = DOMAIN audit
      /\ \A i \in DOMAIN audit :
            /\ SameEdit(audit'[i], audit[i]) /\ audit'[i].state = audit[i].state
            /\ audit'[i].reached <=> audit[i].reached \/ audit[i].id = NoRow
                                     \/ (audit[i].state = "pending" /\ audit[i].new = lastGood)
  <2>1. audit' = Reached(lastGood, NoRow) BY <1>0, Zenon
  <2> QED BY <2>1, ReachedIs
<1>2. \A i \in DOMAIN audit : audit[i].id # NoRow BY Positive, Zenon DEF NoRow
<1>3. EditHeld' BY <1>0, Zenon DEF EditHeld, NoEdit
<1>4. \A i \in DOMAIN audit : Stays(i)' BY <1>0, Zenon DEF Stays, NoEdit
<1>5. \A i \in DOMAIN audit : Open(i)' => Open(i) /\ audit'[i].new # file' BY <1>0, <1>1, Zenon DEF Open, SameEdit
<1>6. /\ \A i \in DOMAIN audit : Undone(i) => Undone(i)'
      /\ \A v : Undoes(v) => Undoes(v)'
      /\ \A v : lastGood' = lastGood /\ Owes(v) => Owes(v)'
  BY <1>0, <1>1, <1>4, <1>5, SameLog, Zenon
<1>7. LandedTrue'
  <2>1. \A i \in DOMAIN audit' : audit'[i].state = "landed" => audit'[i].reached \/ Undone(i)'
    BY <1>1, <1>6, Zenon DEF LandedTrue
  <2>2. \A i \in DOMAIN audit' : Open(i)' => audit'[i].new # file' BY <1>1, <1>5, Zenon
  <2>3. \A j \in DOMAIN audit' : Undoes(audit[j].old)' BY <1>1, <1>6, Zenon DEF LandedTrue, SameEdit
  <2>4. boots'.restored # NoRestore => Owes(boots.restored.failed)' BY <1>0, <1>6, Zenon DEF LandedTrue
  <2>5. Owes(node.seen)'
    <3>1. node'.seen = file BY <1>0, Zenon DEF LandedTrue
    <3>2. \A i \in DOMAIN audit' : Open(i)' => audit'[i].new # file BY <1>1, <1>5, Zenon DEF LandedTrue, SameEdit
    <3> QED BY <3>1, <3>2, Zenon DEF Owes
  <2> QED BY <1>0, <2>1, <2>2, <2>3, <2>4, <2>5, Zenon DEF LandedTrue
<1>8. ASSUME ~unsettled' PROVE LostTrue'
  <2>1. LostTrue /\ \A i \in DOMAIN audit : audit[i].state = "pending" => audit[i].new # file BY <1>0, <1>8, Zenon
  <2>0. Roots = {file} /\ Roots' = {file'} BY <1>0, RootsAre, Zenon DEF Roots
  <2>2. ASSUME NEW v, LeadsTo(v), v # file PROVE LeadsTo(v)'
    <3> SUFFICES ASSUME NEW marked \in SUBSET DOMAIN audit, Closed(audit', {file'}, marked)
                 PROVE  v = file' \/ \E k \in marked : audit'[k].old = v
      BY <1>1, <2>0, Zenon DEF LeadsTo
    <3>1. Closed(audit, {file}, marked) BY <1>1, <2>1 DEF Closed, SameEdit
    <3> QED BY <1>1, <2>0, <2>2, <3>1 DEF LeadsTo, SameEdit
  <2>3. \A v : v = file' => LeadsTo(v)' BY <2>0, Zenon DEF LeadsTo
  <2>4. ASSUME NEW i \in DOMAIN audit', audit'[i].state = "pending", audit'[i].reached PROVE LeadsTo(audit[i].new)'
    <3>1. audit'[i].new = audit[i].new /\ audit[i].state = "pending" /\ audit[i].new # file BY <1>1, <2>1, <2>4, Zenon DEF SameEdit
    <3>2. CASE audit[i].reached
      <4>1. ~Marking(i) BY <1>0, Zenon DEF Marking
      <4>2. LeadsTo(audit[i].new) BY <1>1, <2>1, <3>1, <3>2, <4>1, Zenon DEF LostTrue
      <4> QED BY <2>2, <3>1, <4>2, Zenon
    <3>3. CASE ~audit[i].reached
      <4>1. audit'[i].new = file' BY <1>0, <1>1, <1>2, <2>4, <3>1, <3>3, Zenon
      <4> QED BY <2>3, <4>1, Zenon
    <3> QED BY <3>2, <3>3, Zenon
  <2>5. LeadsTo(lastGood)' BY <1>0, <2>3, Zenon
  <2>6. \A i \in DOMAIN audit' : audit'[i].state = "lost" => ~audit'[i].reached /\ audit'[i].id # edit'.row
    <3> SUFFICES ASSUME NEW i \in DOMAIN audit', audit'[i].state = "lost"
                 PROVE  ~audit'[i].reached /\ audit'[i].id # edit'.row
      BY Zenon
    <3>1. i \in DOMAIN audit /\ audit'[i].id = audit[i].id /\ audit[i].state = "lost"
      BY <1>1, Zenon DEF SameEdit
    <3>2. ~audit[i].reached /\ audit[i].id # edit.row BY <2>1, <3>1, Zenon DEF LostTrue
    <3>3. audit[i].id # NoRow /\ audit[i].state # "pending" BY <1>2, <3>1, Zenon
    <3>4. ~audit'[i].reached BY <1>1, <3>1, <3>2, <3>3, Zenon
    <3> QED BY <1>0, <3>1, <3>2, <3>4, Zenon
  <2> QED BY <2>4, <2>5, <2>6, Zenon DEF LostTrue
<1> QED BY <1>3, <1>7, <1>8, Zenon

\* A start's migration writes the file, with no edit under way.  The rows that led to the
\* file lead to it still, from the version the start began with, or no row names one that
\* was written over.
LEMMA MigrationTruth ==
    ASSUME Typed, Places, Numbered, Truth, MigrationWrites, behind' = {}
    PROVE  Truth'
<1> USE DEF Truth
<1>0. /\ pc = "migrating" /\ file' = node.loaded /\ audit' = Reached(node.loaded, NoRow) /\ migrated' = migrated \cup {file}
      /\ unsettled' = \/ unsettled
                      \/ (file # node.before \/ node.loaded \notin Loads) /\ Buried(migrated', node.loaded)
      /\ UNCHANGED <<lastGood, boots, edit>> /\ edit = NoEdit
  BY Zenon DEF MigrationWrites
<1>p. \/ node.loaded \in Loads /\ pc' = "loaded" /\ node'.before = node.before
      \/ node.loaded \notin Loads /\ pc' = "down" /\ node'.before = NoFile
  <2>1. [node EXCEPT !.loaded = node.loaded].before = node.before BY Zenon DEF Typed, Memories
  <2>2. Blank.before = NoFile BY Zenon DEF Blank
  <2> QED BY <2>1, <2>2, Zenon DEF MigrationWrites, Parse
<1>1. /\ DOMAIN audit' = DOMAIN audit
      /\ \A i \in DOMAIN audit :
            /\ SameEdit(audit'[i], audit[i]) /\ audit'[i].state = audit[i].state
            /\ audit'[i].reached <=> audit[i].reached \/ audit[i].id = NoRow
                                     \/ (audit[i].state = "pending" /\ audit[i].new = node.loaded)
  <2>1. audit' = Reached(node.loaded, NoRow) BY <1>0, Zenon
  <2> QED BY <2>1, ReachedIs
<1>2. \A i \in DOMAIN audit : audit[i].id # NoRow BY Positive, Zenon DEF NoRow
<1>3. EditHeld' BY <1>0, Zenon DEF EditHeld, NoEdit
<1>4. \A i \in DOMAIN audit : Stays(i)' BY <1>0, Zenon DEF Stays, NoEdit
<1>5. \A i \in DOMAIN audit : Open(i)' => Open(i) /\ audit'[i].new # file' BY <1>0, <1>1, Zenon DEF Open, SameEdit
<1>6. /\ \A i \in DOMAIN audit : Undone(i) => Undone(i)'
      /\ \A v : LeftFrom(v) => LeftFrom(v)'
      /\ \A v : Undoes(v) => Undoes(v)'
      /\ \A v : lastGood' = lastGood /\ Owes(v) => Owes(v)'
  <2>1. migrated \subseteq migrated' BY <1>0, Zenon
  <2> QED BY <1>1, <1>4, <1>5, <2>1, SameLog, Zenon
<1>7. \A v : v = file => LeftFrom(v)' BY <1>0, Zenon DEF LeftFrom
<1>8. LandedTrue'
  <2>1. \A i \in DOMAIN audit' : audit'[i].state = "landed" => audit'[i].reached \/ Undone(i)'
    BY <1>1, <1>6, Zenon DEF LandedTrue
  <2>2. \A i \in DOMAIN audit' : Open(i)' => audit'[i].new # file' BY <1>1, <1>5, Zenon
  <2>3. \A j \in DOMAIN audit' : Undoes(audit[j].old)' BY <1>1, <1>6, Zenon DEF LandedTrue, SameEdit
  <2>4. node'.before # NoFile => Undoes(node.before)' /\ (node'.before # file' => LeftFrom(node.before)')
    <3>1. CASE node'.before = node.before BY <1>6, <1>7, <3>1, Zenon DEF LandedTrue
    <3>2. CASE node'.before = NoFile BY <3>2, Zenon
    <3> QED BY <1>p, <3>1, <3>2, Zenon
  <2>5. boots'.restored # NoRestore => Owes(boots.restored.failed)' BY <1>0, <1>6, Zenon DEF LandedTrue
  <2>6. pc' # "replaced" /\ pc' # "keep" BY <1>p, Zenon
  <2>7. Unrecorded' /\ file' # lastGood' => LeftFrom(lastGood)'
    BY <1>0, <1>6, <1>7, <2>6, Zenon DEF LandedTrue, Unrecorded
  <2> QED BY <2>1, <2>2, <2>3, <2>4, <2>5, <2>6, <2>7, Zenon DEF LandedTrue
<1>9. ASSUME ~unsettled' PROVE LostTrue'
  <2>0. LostTrue /\ (~Buried(migrated', node.loaded) \/ (file = node.before /\ node.loaded \in Loads)) BY <1>0, <1>9, Zenon
  <2>1. Roots = {file} /\ file' \in Roots' BY <1>0, RootsAre, Zenon DEF Roots
  <2>2. \A i \in DOMAIN audit : audit[i].state = "pending" /\ audit[i].new = file => file \in Roots'
    <3>1. CASE ~Buried(migrated', node.loaded)
      <4>1. \A i \in DOMAIN audit : audit[i].state = "pending" /\ audit[i].new = file => file = file'
        BY <1>0, <3>1, Zenon DEF Buried
      <4> QED BY <2>1, <4>1, Zenon
    <3>2. CASE file = node.before /\ node.loaded \in Loads BY <1>0, <1>p, <3>2, Zenon DEF Roots
    <3> QED BY <2>0, <3>1, <3>2, Zenon
  <2>3. ASSUME NEW v, LeadsTo(v), v = file => file \in Roots' PROVE LeadsTo(v)'
    <3> SUFFICES ASSUME NEW marked \in SUBSET DOMAIN audit, Closed(audit', Roots', marked)
                 PROVE  v \in Roots' \/ \E k \in marked : audit'[k].old = v
      BY <1>1, Zenon DEF LeadsTo
    <3>1. \A k \in DOMAIN audit : /\ audit'[k].state = audit[k].state /\ audit'[k].new = audit[k].new
                                   /\ audit'[k].old = audit[k].old
      BY <1>1, Zenon DEF SameEdit
    <3>2. Closed(audit, {file}, marked)
      <4> SUFFICES ASSUME NEW i \in DOMAIN audit,
                          \/ audit[i].state = "landed"
                          \/ /\ audit[i].state = "pending"
                             /\ audit[i].new \in {file} \/ \E j \in marked : audit[j].old = audit[i].new
                   PROVE  i \in marked
        BY Zenon DEF Closed
      <4>1. i \in DOMAIN audit' BY <1>1, Zenon
      <4> QED BY <2>2, <3>1, <4>1, Zenon DEF Closed
    <3>3. v = file \/ \E k \in marked : audit[k].old = v BY <2>1, <2>3, <3>2, Zenon DEF LeadsTo
    <3> QED BY <2>3, <3>1, <3>3, Zenon
  <2>4. ASSUME NEW i \in DOMAIN audit', audit'[i].state = "pending", audit'[i].reached PROVE LeadsTo(audit[i].new)'
    <3>1. i \in DOMAIN audit /\ audit'[i].new = audit[i].new /\ audit[i].state = "pending" BY <1>1, <2>4, Zenon DEF SameEdit
    <3>2. CASE audit[i].reached
      <4>1. LeadsTo(audit[i].new) BY <1>0, <2>0, <3>1, <3>2, Zenon DEF LostTrue, Marking
      <4> QED BY <2>2, <2>3, <3>1, <4>1, Zenon
    <3>3. CASE ~audit[i].reached
      <4>1. audit'[i].new = file' BY <1>0, <1>1, <1>2, <2>4, <3>1, <3>3, Zenon
      <4> QED BY <2>1, <4>1, Zenon DEF LeadsTo
    <3> QED BY <3>2, <3>3, Zenon
  <2>5. Unrecorded' => LeadsTo(lastGood)' \/ lastGood' \in migrated'
    <3> SUFFICES ASSUME Unrecorded', lastGood \notin migrated' PROVE LeadsTo(lastGood)' BY <1>0, Zenon
    <3>1. Unrecorded /\ lastGood \notin migrated /\ lastGood # file BY <1>0, <1>p, Zenon DEF Unrecorded
    <3>2. LeadsTo(lastGood) BY <2>0, <3>1, Zenon DEF LostTrue
    <3> QED BY <1>0, <2>3, <3>1, <3>2, Zenon
  <2>6. \A i \in DOMAIN audit' : audit'[i].state = "lost" => ~audit'[i].reached /\ audit'[i].id # edit'.row
    <3> SUFFICES ASSUME NEW i \in DOMAIN audit', audit'[i].state = "lost"
                 PROVE  ~audit'[i].reached /\ audit'[i].id # edit'.row
      BY Zenon
    <3>1. i \in DOMAIN audit /\ audit'[i].id = audit[i].id /\ audit[i].state = "lost"
      BY <1>1, Zenon DEF SameEdit
    <3>2. ~audit[i].reached /\ audit[i].id # edit.row BY <2>0, <3>1, Zenon DEF LostTrue
    <3>3. audit[i].id # NoRow /\ audit[i].state # "pending" BY <1>2, <3>1, Zenon
    <3>4. ~audit'[i].reached BY <1>1, <3>1, <3>2, <3>3, Zenon
    <3> QED BY <1>0, <3>1, <3>2, <3>4, Zenon
  <2> QED BY <2>4, <2>5, <2>6, Zenon DEF LostTrue
<1> QED BY <1>0, <1>3, <1>8, <1>9, Zenon

\* A row is added at the end of the log.
LEMMA AddedLog ==
    ASSUME Typed, NEW r, audit' = Append(audit, r), \A i \in DOMAIN audit : Stays(i) => Stays(i)', UNCHANGED migrated
    PROVE  LET n == Len(audit) + 1
           IN /\ n \notin DOMAIN audit /\ DOMAIN audit' = DOMAIN audit \cup {n} /\ audit'[n] = r
              /\ \A i \in DOMAIN audit : i < n /\ audit'[i] = audit[i] /\ (Open(i)' <=> Open(i))
              /\ \A i \in DOMAIN audit : Undone(i) => Undone(i)'
              /\ \A v : LeftFrom(v) => LeftFrom(v)'
              /\ \A v : Roots' = Roots /\ LeadsTo(v) => LeadsTo(v)'
<1> DEFINE n == Len(audit) + 1
<1>1. audit \in Seq(Rows) /\ Len(audit) \in Nat /\ DOMAIN audit = 1 .. Len(audit) BY RowTypes, Zenon
<1>2. DOMAIN audit' = 1 .. n /\ audit'[n] = r /\ \A i \in DOMAIN audit : audit'[i] = audit[i]
  BY <1>1, Appended
<1>3. n \notin DOMAIN audit /\ DOMAIN audit' = DOMAIN audit \cup {n} /\ \A i \in DOMAIN audit : i < n BY <1>1, <1>2
<1> HIDE DEF n
<1>4. \A i \in DOMAIN audit : Open(i)' <=> Open(i) BY <1>2, Zenon DEF Open
<1>5. ASSUME NEW i \in DOMAIN audit, Undone(i) PROVE Undone(i)'
  <2>1. ASSUME NEW a \in DOMAIN audit, NEW b \in DOMAIN audit, a < b, audit[b].new = audit[a].old,
               Stays(a) \/ a = i, Stays(b) \/ b = i
        PROVE  Undone(i)'
    <3>1. a \in DOMAIN audit' /\ b \in DOMAIN audit' /\ audit'[b].new = audit'[a].old BY <1>2, <1>3, <2>1, Zenon
    <3>2. (Stays(a)' \/ a = i) /\ (Stays(b)' \/ b = i) BY <2>1, Zenon
    <3> QED BY <2>1, <3>1, <3>2, Zenon DEF Undone
  <2>2. ASSUME NEW b \in DOMAIN audit, audit[b].new \in migrated, Stays(b) \/ b = i PROVE Undone(i)'
    <3>1. b \in DOMAIN audit' /\ audit'[b].new \in migrated' /\ (Stays(b)' \/ b = i) BY <1>2, <1>3, <2>2, Zenon
    <3> QED BY <3>1, Zenon DEF Undone
  <2> QED BY <1>5, <2>1, <2>2, Zenon DEF Undone
<1>6. ASSUME NEW v, LeftFrom(v) PROVE LeftFrom(v)' BY <1>2, <1>3, <1>6, Zenon DEF LeftFrom
<1>7. ASSUME NEW v, Roots' = Roots, LeadsTo(v) PROVE LeadsTo(v)'
  <2> SUFFICES ASSUME NEW marked \in SUBSET DOMAIN audit', Closed(audit', Roots', marked)
               PROVE  v \in Roots' \/ \E k \in marked : audit'[k].old = v
    BY Zenon DEF LeadsTo
  <2>1. marked \ {n} \in SUBSET DOMAIN audit BY <1>3, Zenon
  <2>2. Closed(audit, Roots, marked \ {n})
    <3>1. ASSUME NEW i \in DOMAIN audit,
                 \/ audit[i].state = "landed"
                 \/ /\ audit[i].state = "pending"
                    /\ audit[i].new \in Roots \/ \E j \in marked \ {n} : audit[j].old = audit[i].new
          PROVE  i \in marked
      <4>1. i \in DOMAIN audit' /\ audit'[i] = audit[i] BY <1>2, <1>3, Zenon
      <4>2. \A j \in marked \ {n} : audit'[j] = audit[j] BY <1>2, <2>1, Zenon
      <4> QED BY <1>7, <3>1, <4>1, <4>2, Zenon DEF Closed
    <3>2. \A i \in DOMAIN audit : i # n BY <1>3, Zenon
    <3> QED BY <3>1, <3>2, Zenon DEF Closed
  <2>3. v \in Roots \/ \E k \in marked \ {n} : audit[k].old = v BY <1>7, <2>1, <2>2, Zenon DEF LeadsTo
  <2>4. \A j \in marked \ {n} : audit'[j] = audit[j] BY <1>2, <2>1, Zenon
  <2> QED BY <1>7, <2>3, <2>4, Zenon
<1> QED BY <1>2, <1>3, <1>4, <1>5, <1>6, <1>7, Zenon DEF n

\* An edit begins with a row of its own.
LEMMA EditBeginsTruth ==
    ASSUME Typed, Places, Numbered, Truth, NEW who \in {"node", "cli"}, NEW f \in Files, EditBegins(who, f)
    PROVE  Truth'
<1> USE DEF Truth
<1>r. PICK r : r = [id |-> writes + 1, old |-> file, new |-> f, state |-> "pending", reached |-> FALSE] BY Zenon
<1>n. PICK n : n = Len(audit) + 1 BY Zenon
<1>0. /\ edit = NoEdit /\ f # file /\ audit' = Append(audit, r) /\ edit'.row = writes + 1 /\ edit'.new = f
      /\ edit'.at = "inserted" /\ UNCHANGED <<file, lastGood, boots, pc, node, migrated, unsettled>>
      /\ writes \in Nat /\ writes < MaxWrites /\ pc # "keep"
  <2>1. /\ edit = NoEdit /\ f # file /\ audit' = Append(audit, r)
        /\ edit' = [who |-> who, row |-> writes + 1, new |-> f, at |-> "inserted"]
        /\ UNCHANGED <<file, lastGood, boots, pc, node, migrated, unsettled>> /\ writes < MaxWrites /\ pc # "keep"
    BY <1>r, Zenon DEF EditBegins, LockFree, history
  <2>2. writes \in Nat BY DEF Typed
  <2> QED BY <2>1, <2>2, Zenon
<1>1. r.id = writes + 1 /\ r.old = file /\ r.new = f /\ r.state = "pending" /\ ~r.reached BY <1>r, Zenon
<1>2. \A i \in DOMAIN audit : audit[i].id # writes + 1
  <2>1. \A i \in DOMAIN audit : audit[i].id \in Nat BY RowTypes, Zenon
  <2>2. \A i \in DOMAIN audit : audit[i].id \in 1 .. writes \/ audit[i].id > MaxWrites BY Zenon DEF Numbered
  <2> QED BY <1>0, <2>1, <2>2, Consts
<1>3. audit \in Seq(Rows) /\ Len(audit) \in Nat /\ DOMAIN audit = 1 .. Len(audit) BY RowTypes, Zenon
<1>4. \A i \in DOMAIN audit : audit'[i] = audit[i] BY <1>0, <1>3
<1>5. \A i \in DOMAIN audit : Stays(i)' BY <1>0, <1>2, <1>4, Zenon DEF Stays
<1>6. /\ n \notin DOMAIN audit /\ DOMAIN audit' = DOMAIN audit \cup {n} /\ audit'[n] = r
      /\ \A i \in DOMAIN audit : i < n /\ audit'[i] = audit[i] /\ (Open(i)' <=> Open(i))
      /\ \A i \in DOMAIN audit : Undone(i) => Undone(i)'
      /\ \A v : LeftFrom(v) => LeftFrom(v)'
      /\ \A v : Roots' = Roots /\ LeadsTo(v) => LeadsTo(v)'
  BY <1>n, <1>0, <1>5, AddedLog, Zenon
<1>7. ASSUME f \in migrated \/ \E j \in DOMAIN audit : audit[j].old = f PROVE Undone(n)'
  <2>1. CASE f \in migrated
    <3>1. n \in DOMAIN audit' /\ audit'[n].new \in migrated' BY <1>0, <1>1, <1>6, <2>1, Zenon
    <3> QED BY <3>1, Zenon DEF Undone
  <2>2. ASSUME NEW j \in DOMAIN audit, audit[j].old = f PROVE Undone(n)'
    <3>1. j \in DOMAIN audit' /\ n \in DOMAIN audit' /\ j < n /\ audit'[n].new = audit'[j].old BY <1>1, <1>6, <2>2, Zenon
    <3> QED BY <1>5, <3>1, Zenon DEF Undone
  <2> QED BY <1>7, <2>1, <2>2, Zenon
<1>8. ASSUME NEW v, Undoes(v), v = f => f \in migrated \/ \E j \in DOMAIN audit : audit[j].old = f PROVE Undoes(v)'
  <2> SUFFICES ASSUME NEW i \in DOMAIN audit', Open(i)', audit'[i].new = v PROVE Undone(i)' BY Zenon DEF Undoes
  <2>1. CASE i = n BY <1>1, <1>6, <1>7, <1>8, <2>1, Zenon
  <2>2. CASE i # n BY <1>6, <1>8, <2>2, Zenon DEF Undoes
  <2> QED BY <2>1, <2>2, Zenon
<1>9. EditHeld'
  <2>1. \A k \in DOMAIN audit' : audit'[k].id = edit'.row => k = n BY <1>0, <1>2, <1>6, Zenon
  <2> QED BY <1>0, <1>1, <1>6, <2>1, Zenon DEF EditHeld
<1>10. LandedTrue'
  <2>1. \A i \in DOMAIN audit' : audit'[i].state = "landed" => audit'[i].reached \/ Undone(i)'
    BY <1>1, <1>6, Zenon DEF LandedTrue
  <2>2. \A i \in DOMAIN audit' : Open(i)' => audit'[i].new # file' BY <1>0, <1>1, <1>6, Zenon DEF LandedTrue
  <2>3. ASSUME NEW j \in DOMAIN audit' PROVE Undoes(audit[j].old)'
    <3>1. CASE j = n
      <4>1. audit'[j].old = file' BY <1>0, <1>1, <1>6, <3>1, Zenon
      <4> QED BY <2>2, <4>1, Zenon DEF Undoes
    <3>2. CASE j # n
      <4>1. j \in DOMAIN audit /\ audit'[j] = audit[j] BY <1>6, <3>2, Zenon
      <4>2. Undoes(audit[j].old) BY <4>1, Zenon DEF LandedTrue
      <4> QED BY <1>8, <4>1, <4>2, Zenon
    <3> QED BY <3>1, <3>2, Zenon
  <2>4. node'.before # NoFile => Undoes(node.before)' /\ (node'.before # file' => LeftFrom(node.before)')
    <3>1. node.before # NoFile => Undoes(node.before) /\ (node.before # file => LeftFrom(node.before)) BY Zenon DEF LandedTrue
    <3>2. LeftFrom(node.before) => node.before \in migrated \/ \E j \in DOMAIN audit : audit[j].old = node.before
      BY Zenon DEF LeftFrom
    <3> QED BY <1>0, <1>6, <1>8, <3>1, <3>2, Zenon
  <2>5. Unrecorded => LeftFrom(lastGood)' \/ file = lastGood BY <1>0, <1>6, Zenon DEF LandedTrue
  <2>6. ASSUME NEW v, Owes(v), Unrecorded PROVE Owes(v)'
    <3> SUFFICES ASSUME NEW i \in DOMAIN audit', Open(i)', audit'[i].new = v
                 PROVE  LeftFrom(lastGood)' \/ audit'[i].old = lastGood'
      BY Zenon DEF Owes
    <3>1. CASE i = n BY <1>0, <1>1, <1>6, <2>5, <2>6, <3>1, Zenon
    <3>2. CASE i # n
      <4>1. i \in DOMAIN audit /\ audit'[i] = audit[i] /\ Open(i) BY <1>6, <3>2, Zenon
      <4>2. LeftFrom(lastGood) \/ audit[i].old = lastGood BY <2>6, <4>1, Zenon DEF Owes
      <4> QED BY <1>0, <1>6, <4>1, <4>2, Zenon
    <3> QED BY <3>1, <3>2, Zenon
  <2>7. boots'.restored # NoRestore => Owes(boots.restored.failed)' BY <1>0, <2>6, Zenon DEF LandedTrue, Unrecorded
  <2>8. pc' = "replaced" => Owes(node.seen)' BY <1>0, <2>6, Zenon DEF LandedTrue, Unrecorded
  <2>9. Unrecorded' /\ file' # lastGood' => LeftFrom(lastGood)' BY <1>0, <2>5, Zenon DEF Unrecorded
  <2> QED BY <1>0, <2>1, <2>2, <2>3, <2>4, <2>7, <2>8, <2>9, Zenon DEF LandedTrue
<1>11. ASSUME ~unsettled PROVE LostTrue'
  <2>1. LostTrue BY <1>11, Zenon
  <2>0. Roots' = Roots BY <1>0, RootsAre, Zenon
  <2>2. ASSUME NEW i \in DOMAIN audit', audit'[i].state = "pending", audit'[i].reached
        PROVE  LeadsTo(audit[i].new)' \/ Marking(i)'
    <3>1. i \in DOMAIN audit /\ audit'[i] = audit[i] BY <1>1, <1>6, <2>2, Zenon
    <3>2. CASE LeadsTo(audit[i].new) BY <1>6, <2>0, <3>1, <3>2, Zenon
    <3>3. CASE Marking(i) BY <1>0, <3>1, <3>3, Zenon DEF Marking
    <3> QED BY <2>1, <2>2, <3>1, <3>2, <3>3, Zenon DEF LostTrue
  <2>3. Unrecorded' => LeadsTo(lastGood)' \/ lastGood' \in migrated'
    BY <1>0, <1>6, <2>0, <2>1, Zenon DEF LostTrue, Unrecorded
  <2>4. \A i \in DOMAIN audit' : audit'[i].state = "lost" => ~audit'[i].reached /\ audit'[i].id # edit'.row
    BY <1>0, <1>1, <1>2, <1>6, <2>1, Zenon DEF LostTrue
  <2> QED BY <2>2, <2>3, <2>4, Zenon DEF LostTrue
<1> QED BY <1>0, <1>9, <1>10, <1>11, Zenon

\* The row of a restore is written once the node is about to serve.
LEMMA RecordTruth ==
    ASSUME Typed, Places, Numbered, Truth, Record
    PROVE  Truth'
<1> USE DEF Truth
<1>r. PICK r : r = RestoreRow(boots.restored) BY Zenon
<1>n. PICK n : n = Len(audit) + 1 BY Zenon
<1>0. /\ UNCHANGED <<file, lastGood, boots, node, edit, migrated, unsettled>> /\ pc = "settle" /\ pc' \in {"landing", "insert"}
      /\ node.before = NoFile /\ boots.restored # NoRestore /\ boots.restored.good = lastGood
      /\ boots.restored.id \in Nat /\ boots.restored.id >= 1
  BY Zenon DEF Record, history, Places, Typed, BootFiles, Restoring
<1>1. CASE audit' = audit BY <1>0, <1>1, QuietTruth, Zenon DEF Unrecorded
<1>2. CASE audit' = Append(audit, r) /\ pc' = "insert"
  <2>1. r.id > MaxWrites /\ r.old = boots.restored.failed /\ r.new = lastGood /\ r.state = "pending" /\ r.reached
    BY <1>r, <1>0, Consts DEF RestoreRow
  <2>2. audit \in Seq(Rows) /\ Len(audit) \in Nat /\ DOMAIN audit = 1 .. Len(audit) BY RowTypes, Zenon
  <2>3. \A i \in DOMAIN audit : audit'[i] = audit[i] BY <1>2, <2>2
  <2>4. \A i \in DOMAIN audit : Stays(i) => Stays(i)' BY <1>0, <2>3, Zenon DEF Stays
  <2>5. /\ n \notin DOMAIN audit /\ DOMAIN audit' = DOMAIN audit \cup {n} /\ audit'[n] = r
        /\ \A i \in DOMAIN audit : i < n /\ audit'[i] = audit[i] /\ (Open(i)' <=> Open(i))
        /\ \A i \in DOMAIN audit : Undone(i) => Undone(i)'
        /\ \A v : LeftFrom(v) => LeftFrom(v)'
        /\ \A v : Roots' = Roots /\ LeadsTo(v) => LeadsTo(v)'
    BY <1>n, <1>0, <1>2, <2>4, AddedLog, Zenon
  <2>6. r.id # edit'.row
    <3>1. edit.row \in 0 .. writes /\ writes \in 0 .. MaxWrites BY DEF Places, Typed, NoEdit, NoRow
    <3> QED BY <1>0, <2>1, <3>1, Consts, SMTT(40)
  <2>7. Stays(n)' BY <2>5, <2>6, Zenon DEF Stays
  <2>8. ~Open(n)' BY <2>1, <2>5, Zenon DEF Open
  <2>9. ASSUME NEW v, Undoes(v) PROVE Undoes(v)' BY <2>5, <2>8, <2>9, Zenon DEF Undoes
  <2>10. ASSUME NEW v, Owes(v) PROVE Owes(v)' BY <1>0, <2>5, <2>8, <2>10, Zenon DEF Owes
  <2>11. Undoes(r.old)'
    <3> SUFFICES ASSUME NEW i \in DOMAIN audit', Open(i)', audit'[i].new = boots.restored.failed PROVE Undone(i)'
      BY <1>0, <2>1, <2>5, Zenon DEF Undoes
    <3>1. i \in DOMAIN audit /\ i < n /\ audit'[i] = audit[i] /\ Open(i) BY <2>5, <2>8, Zenon
    <3>2. LeftFrom(lastGood) \/ audit[i].old = lastGood BY <1>0, <3>1, Zenon DEF LandedTrue, Owes
    <3>3. CASE lastGood \in migrated
      <4>1. n \in DOMAIN audit' /\ audit'[n].new \in migrated' BY <1>0, <2>1, <2>5, <3>3, Zenon
      <4> QED BY <2>7, <4>1, Zenon DEF Undone
    <3>4. ASSUME NEW k \in DOMAIN audit, Stays(k) \/ k = i, audit[k].old = lastGood PROVE Undone(i)'
      <4>1. /\ k \in DOMAIN audit' /\ n \in DOMAIN audit' /\ k < n /\ audit'[n].new = audit'[k].old
            /\ Stays(k)' \/ k = i
        BY <2>1, <2>4, <2>5, <3>4, Zenon
      <4> QED BY <2>7, <4>1, Zenon DEF Undone
    <3> QED BY <3>1, <3>2, <3>3, <3>4, Zenon DEF LeftFrom
  <2>12. EditHeld' BY <1>0, <2>5, <2>6, ZenonT(40) DEF EditHeld
  <2>13. LandedTrue'
    <3>1. \A i \in DOMAIN audit' : audit'[i].state = "landed" => audit'[i].reached \/ Undone(i)'
      BY <2>1, <2>5, Zenon DEF LandedTrue
    <3>2. \A i \in DOMAIN audit' : Open(i)' => audit'[i].new # file' BY <1>0, <2>5, <2>8, Zenon DEF LandedTrue
    <3>3. ASSUME NEW j \in DOMAIN audit' PROVE Undoes(audit[j].old)'
      <4>1. CASE j = n BY <2>5, <2>11, <4>1, Zenon
      <4>2. CASE j # n
        <5>1. j \in DOMAIN audit /\ audit'[j] = audit[j] BY <2>5, <4>2, Zenon
        <5>2. Undoes(audit[j].old) BY <5>1, Zenon DEF LandedTrue
        <5> QED BY <2>9, <5>1, <5>2, Zenon
      <4> QED BY <4>1, <4>2, Zenon
    <3>4. Owes(boots.restored.failed)' BY <1>0, <2>10, Zenon DEF LandedTrue
    <3>5. file' # lastGood' => LeftFrom(lastGood)' BY <1>0, <2>5, Zenon DEF LandedTrue, Unrecorded
    <3> QED BY <1>0, <3>1, <3>2, <3>3, <3>4, <3>5, Zenon DEF LandedTrue
  <2>14. ASSUME ~unsettled PROVE LostTrue'
    <3>1. LostTrue BY <2>14, Zenon
    <3>0. Roots' = Roots BY <1>0, RootsAre, Zenon DEF Roots
    <3>2. LeadsTo(lastGood)' \/ lastGood' \in migrated' BY <1>0, <2>5, <3>0, <3>1, Zenon DEF LostTrue, Unrecorded
    <3>3. ASSUME NEW i \in DOMAIN audit', audit'[i].state = "pending", audit'[i].reached
          PROVE  LeadsTo(audit[i].new)' \/ Marking(i)'
      <4>1. CASE i = n
        <5>1. audit'[i].new = lastGood' /\ audit'[i].id = MaxWrites + boots'.restored.id
          <6>1. r.id = MaxWrites + boots.restored.id BY <1>r, Zenon DEF RestoreRow
          <6> QED BY <1>0, <2>1, <2>5, <4>1, <6>1, Zenon
        <5> QED BY <1>2, <3>2, <5>1, Zenon DEF Marking
      <4>2. CASE i # n
        <5>1. i \in DOMAIN audit /\ audit'[i] = audit[i] BY <2>5, <4>2, Zenon
        <5>2. LeadsTo(audit[i].new) BY <1>0, <3>1, <3>3, <5>1, Zenon DEF LostTrue, Marking
        <5> QED BY <2>5, <3>0, <5>1, <5>2, Zenon
      <4> QED BY <4>1, <4>2, Zenon
    <3>4. \A i \in DOMAIN audit' : audit'[i].state = "lost" => ~audit'[i].reached /\ audit'[i].id # edit'.row
      BY <1>0, <2>1, <2>5, <3>1, Zenon DEF LostTrue
    <3> QED BY <3>2, <3>3, <3>4, Zenon DEF LostTrue
  <2> QED BY <1>0, <2>12, <2>13, <2>14, Zenon
<1> QED BY <1>r, <1>1, <1>2, Zenon DEF Record

\* A row that is withdrawn takes nothing with it: no other row depends on one that may
\* still be, and it leads from the file to the file.
LEMMA EditFailsTruth ==
    ASSUME Typed, Places, Numbered, Truth, EditFails
    PROVE  Truth'
<1> USE DEF Truth
<1>0. /\ edit.at = "inserted" /\ edit' = NoEdit /\ UNCHANGED <<file, lastGood, boots, pc, node, migrated, unsettled>>
  BY Zenon DEF EditFails, history
<1>1. PICK k \in DOMAIN audit : audit[k].id = edit.row /\ audit' = Without(audit, k) BY Zenon DEF EditFails
<1>2. audit \in Seq(Rows) /\ Len(audit) \in Nat /\ DOMAIN audit = 1 .. Len(audit) BY RowTypes, Zenon
<1>3. PICK len : len = Len(audit) BY Zenon
<1> DEFINE up(i) == IF i < k THEN i ELSE i + 1
           down(i) == IF i < k THEN i ELSE i - 1
<1>4. len \in Nat /\ DOMAIN audit = 1 .. len /\ k \in 1 .. len BY <1>1, <1>2, <1>3, Zenon
<1>5. DOMAIN audit' = 1 .. len - 1 /\ \A i \in 1 .. len - 1 : audit'[i] = audit[up(i)]
  <2>1. audit' \in Seq(Rows) /\ Len(audit') = len - 1 BY <1>1, <1>2, <1>3, <1>4, Withdrawn, Zenon
  <2>2. \A i \in 1 .. len - 1 : Without(audit, k)[i] = audit[IF i < k THEN i ELSE i + 1]
    BY <1>2, <1>3, <1>4, Withdrawn, Zenon
  <2>3. DOMAIN audit' = 1 .. len - 1 BY <2>1, SMTT(40)
  <2> QED BY <1>1, <2>2, <2>3, Zenon
<1>6. \A i \in DOMAIN audit' : up(i) \in DOMAIN audit /\ up(i) # k /\ audit'[i] = audit[up(i)] BY <1>4, <1>5
<1>7. \A i \in DOMAIN audit \ {k} : down(i) \in DOMAIN audit' /\ up(down(i)) = i /\ audit'[down(i)] = audit[i]
  <2>1. ASSUME NEW i \in 1 .. len, i # k PROVE down(i) \in 1 .. len - 1 /\ up(down(i)) = i
    <3>1. CASE i < k BY <1>4, <3>1
    <3>2. CASE i > k BY <1>4, <3>2
    <3> QED BY <1>4, <2>1, <3>1, <3>2
  <2> HIDE DEF up, down
  <2>2. ASSUME NEW i \in 1 .. len, i # k PROVE audit'[down(i)] = audit[i] BY <1>5, <2>1, <2>2, Zenon
  <2> QED BY <1>4, <1>5, <2>1, <2>2, Zenon
<1>8. \A i, j \in DOMAIN audit \ {k} : i < j => down(i) < down(j) BY <1>4
<1>9. \A i \in DOMAIN audit' : down(up(i)) = i BY <1>4, <1>5
<1>10. ~Stays(k) /\ audit[k].old = file BY <1>0, <1>1, Zenon DEF Stays, EditHeld
<1>11. \A i \in DOMAIN audit' : Stays(i)' BY <1>0, Zenon DEF Stays, NoEdit
<1>12. \A i \in DOMAIN audit' : Open(i)' <=> Open(up(i)) BY <1>6, Zenon DEF Open
<1> HIDE DEF up, down
<1>13. ASSUME NEW i \in DOMAIN audit', Undone(up(i)) PROVE Undone(i)'
  <2>1. ASSUME NEW a \in DOMAIN audit, NEW b \in DOMAIN audit, a < b, audit[b].new = audit[a].old,
               Stays(a) \/ a = up(i), Stays(b) \/ b = up(i)
        PROVE  Undone(i)'
    <3>1. a # k /\ b # k BY <1>6, <1>10, <2>1, Zenon
    <3>2. /\ down(a) \in DOMAIN audit' /\ down(b) \in DOMAIN audit' /\ down(a) < down(b)
          /\ audit'[down(b)].new = audit'[down(a)].old
      BY <1>7, <1>8, <2>1, <3>1, Zenon
    <3> QED BY <1>11, <3>2, Zenon DEF Undone
  <2>2. ASSUME NEW b \in DOMAIN audit, audit[b].new \in migrated, Stays(b) \/ b = up(i) PROVE Undone(i)'
    <3>1. b # k BY <1>6, <1>10, <2>2, Zenon
    <3>2. down(b) \in DOMAIN audit' /\ audit'[down(b)].new \in migrated' BY <1>0, <1>7, <2>2, <3>1, Zenon
    <3> QED BY <1>11, <3>2, Zenon DEF Undone
  <2> QED BY <1>13, <2>1, <2>2, Zenon DEF Undone
<1>14. ASSUME NEW v, LeftFrom(v) PROVE LeftFrom(v)'
  <2>1. CASE v \in migrated BY <1>0, <2>1, Zenon DEF LeftFrom
  <2>2. ASSUME NEW a \in DOMAIN audit, Stays(a), audit[a].old = v PROVE LeftFrom(v)'
    <3>1. a # k BY <1>10, <2>2, Zenon
    <3> QED BY <1>7, <1>11, <2>2, <3>1, Zenon DEF LeftFrom
  <2> QED BY <1>14, <2>1, <2>2, Zenon DEF LeftFrom
<1>15. ASSUME NEW v, Undoes(v) PROVE Undoes(v)' BY <1>6, <1>12, <1>13, <1>15, Zenon DEF Undoes
<1>16. ASSUME NEW v, Owes(v) PROVE Owes(v)' BY <1>0, <1>6, <1>12, <1>14, <1>16, Zenon DEF Owes
<1>17. EditHeld' BY <1>0, Zenon DEF EditHeld, NoEdit
<1>18. LandedTrue'
  <2>1. \A i \in DOMAIN audit' : audit'[i].state = "landed" => audit'[i].reached \/ Undone(i)'
    BY <1>6, <1>13, Zenon DEF LandedTrue
  <2>2. \A i \in DOMAIN audit' : Open(i)' => audit'[i].new # file' BY <1>0, <1>6, <1>12, Zenon DEF LandedTrue
  <2>3. ASSUME NEW j \in DOMAIN audit' PROVE Undoes(audit[j].old)'
    <3>1. Undoes(audit[up(j)].old) /\ audit'[j] = audit[up(j)] BY <1>6, Zenon DEF LandedTrue
    <3> QED BY <1>15, <3>1, Zenon
  <2>4. node'.before # NoFile => Undoes(node.before)' /\ (node'.before # file' => LeftFrom(node.before)')
    BY <1>0, <1>14, <1>15, Zenon DEF LandedTrue
  <2>5. boots'.restored # NoRestore => Owes(boots.restored.failed)' BY <1>0, <1>16, Zenon DEF LandedTrue
  <2>6. pc' = "replaced" => Owes(node.seen)' BY <1>0, <1>16, Zenon DEF LandedTrue
  <2>7. Unrecorded' /\ file' # lastGood' => LeftFrom(lastGood)' BY <1>0, <1>14, Zenon DEF LandedTrue, Unrecorded
  <2>8. pc' = "keep" => file' = node'.seen BY <1>0, Zenon DEF LandedTrue
  <2> QED BY <2>1, <2>2, <2>3, <2>4, <2>5, <2>6, <2>7, <2>8, Zenon DEF LandedTrue
<1>r. Roots' = Roots /\ file \in Roots BY <1>0, RootsAre, Zenon
<1>19. ASSUME NEW v, LeadsTo(v) PROVE LeadsTo(v)'
  <2> SUFFICES ASSUME NEW marked \in SUBSET DOMAIN audit', Closed(audit', Roots, marked)
               PROVE  v \in Roots \/ \E i \in marked : audit'[i].old = v
    BY <1>r, Zenon DEF LeadsTo
  <2> DEFINE before == {up(i) : i \in marked} \cup {k}
  <2>1. before \in SUBSET DOMAIN audit BY <1>1, <1>6, Zenon
  <2>2. ASSUME NEW i \in DOMAIN audit, i # k,
               \/ audit[i].state = "landed"
               \/ /\ audit[i].state = "pending"
                  /\ audit[i].new \in Roots \/ \E j \in before : audit[j].old = audit[i].new
        PROVE  i \in before
    <3>1. down(i) \in DOMAIN audit' /\ up(down(i)) = i /\ audit'[down(i)] = audit[i] BY <1>7, <2>2, Zenon
    <3>2. ASSUME NEW j \in before, audit[j].old = audit[i].new
          PROVE  audit[i].new \in Roots \/ \E m \in marked : audit'[m].old = audit[i].new
      <4>1. CASE j = k BY <1>r, <1>10, <3>2, <4>1, Zenon
      <4>2. CASE j # k
        <5>1. PICK m \in marked : j = up(m) BY <3>2, <4>2, Zenon
        <5> QED BY <1>6, <3>2, <5>1, Zenon
      <4> QED BY <4>1, <4>2, Zenon
    <3>3. down(i) \in marked BY <2>2, <3>1, <3>2, Zenon DEF Closed
    <3> QED BY <3>1, <3>3, Zenon
  <2>3. k \in before BY Zenon
  <2> HIDE DEF before
  <2>4. Closed(audit, Roots, before) BY <2>2, <2>3, Zenon DEF Closed
  <2>5. v \in Roots \/ \E j \in before : audit[j].old = v BY <1>19, <2>1, <2>4, Zenon DEF LeadsTo
  <2>6. ASSUME NEW j \in before, audit[j].old = v PROVE v \in Roots \/ \E m \in marked : audit'[m].old = v
    <3>1. CASE j = k BY <1>r, <1>10, <2>6, <3>1, Zenon
    <3>2. CASE j # k
      <4>1. PICK m \in marked : j = up(m) BY <2>6, <3>2, Zenon DEF before
      <4> QED BY <1>6, <2>6, <4>1, Zenon
    <3> QED BY <3>1, <3>2, Zenon
  <2> QED BY <2>5, <2>6, Zenon
<1>20. ASSUME ~unsettled PROVE LostTrue'
  <2>1. LostTrue BY <1>20, Zenon
  <2>2. ASSUME NEW i \in DOMAIN audit', audit'[i].state = "pending", audit'[i].reached
        PROVE  LeadsTo(audit[i].new)' \/ Marking(i)'
    <3>1. up(i) \in DOMAIN audit /\ audit'[i] = audit[up(i)] BY <1>6, Zenon
    <3>2. CASE LeadsTo(audit[up(i)].new) BY <1>19, <3>1, <3>2, Zenon
    <3>3. CASE Marking(up(i)) BY <1>0, <3>1, <3>3, Zenon DEF Marking
    <3> QED BY <2>1, <2>2, <3>1, <3>2, <3>3, Zenon DEF LostTrue
  <2>3. Unrecorded' => LeadsTo(lastGood)' \/ lastGood' \in migrated' BY <1>0, <1>19, <2>1, Zenon DEF LostTrue, Unrecorded
  <2>4. \A i \in DOMAIN audit' : audit'[i].state = "lost" => ~audit'[i].reached /\ audit'[i].id # edit'.row
    BY <1>0, <1>6, <2>1, Positive, Zenon DEF LostTrue, NoEdit, NoRow
  <2> QED BY <2>2, <2>3, <2>4, Zenon DEF LostTrue
<1> QED BY <1>0, <1>17, <1>18, <1>20, Zenon

\* Whatever a start does.
LEMMA StartTruth ==
    ASSUME LInv, IInv, StartStep \/ NotCounted \/ MigrationFails \/ NotReconciled, behind = {}, behind' = {}
    PROVE  Truth'
<1> USE DEF history
<1>0. Typed /\ Places /\ Numbered /\ Truth /\ Kept BY Zenon DEF LInv, IInv
<1>1. node \in Memories /\ boots \in BootFiles BY <1>0, Zenon DEF Typed
<1>2. CASE Boot
  <2>1. boots'.restored = boots.restored /\ node'.before = node.before BY <1>1, <1>2, Zenon DEF Boot, Counted, BootFiles, Memories
  <2> QED BY <1>0, <1>2, <2>1, QuietTruth, Zenon DEF Boot, Unrecorded
<1>3. CASE RestoreLocked
  <2>1. boots'.restored = boots.restored BY <1>1, <1>3, Zenon DEF RestoreLocked, BootFiles
  <2>2. node'.before = node.before \/ node'.before = NoFile BY <1>3 DEF RestoreLocked, Blank
  <2>3. pc' = "keep" => file = node'.seen BY <1>3, Zenon DEF RestoreLocked
  <2> QED BY <1>0, <1>3, <2>1, <2>2, <2>3, QuietTruth, Zenon DEF RestoreLocked, Unrecorded
<1>4. CASE RestoreReplace BY <1>0, <1>4, RestoreTruth, Zenon
<1>5. CASE RestoreNoted
  <2>1. boots'.restored.failed = node.seen BY <1>5, Zenon DEF RestoreNoted, Counted
  <2>2. node'.before = NoFile BY <1>5, Zenon DEF RestoreNoted, Blank
  <2> QED BY <1>0, <1>5, <2>1, <2>2, QuietTruth, Zenon DEF RestoreNoted, Unrecorded
<1>6. CASE HashFile
  <2>1. node'.before = file BY <1>1, <1>6, Zenon DEF HashFile, Memories
  <2> QED BY <1>0, <1>6, <2>1, QuietTruth, Zenon DEF HashFile, Unrecorded
<1>7. ASSUME NEW g, Parse(g) PROVE (node'.before = node.before \/ node'.before = NoFile) /\ pc' \in {"loaded", "down"}
  <2>1. [node EXCEPT !.loaded = g].before = node.before BY <1>1, Zenon DEF Memories
  <2>2. Blank.before = NoFile BY Zenon DEF Blank
  <2> QED BY <1>7, <2>1, <2>2, Zenon DEF Parse
<1>8. CASE Load
  <2>1. (node'.before = node.before \/ node'.before = NoFile) /\ pc' \in {"loaded", "down", "migrating"}
    <3>1. CASE Parse(file) BY <1>7, <3>1, Zenon
    <3>2. CASE pc' = "migrating" /\ node' = [node EXCEPT !.loaded = Migrate[file]] BY <1>1, <3>2, Zenon DEF Memories
    <3> QED BY <1>8, <3>1, <3>2, Zenon DEF Load
  <2>2. pc = "hashed" /\ UNCHANGED <<audit, file, migrated, edit, lastGood, boots, unsettled>> BY <1>8, Zenon DEF Load
  <2> QED BY <1>0, <2>1, <2>2, QuietTruth, Zenon DEF Unrecorded
<1>9. CASE MigrationWrites BY <1>0, <1>9, MigrationTruth, Zenon
<1>10. CASE MigrationFails
  <2>1. (node'.before = node.before \/ node'.before = NoFile) /\ pc' \in {"loaded", "down"}
    BY <1>7, <1>10, Zenon DEF MigrationFails
  <2>2. pc = "migrating" /\ UNCHANGED <<audit, file, migrated, edit, lastGood, boots, unsettled>>
    BY <1>10, Zenon DEF MigrationFails
  <2> QED BY <1>0, <2>1, <2>2, QuietTruth, Zenon DEF Unrecorded
<1>11. CASE NotReconciled
  <2>1. node'.before = NoFile BY <1>1, <1>11, Zenon DEF NotReconciled, Memories
  <2>2. /\ pc = "reconcile" /\ pc' = "start" /\ UNCHANGED <<audit, file, migrated, edit, lastGood, boots>>
        /\ unsettled' = (unsettled \/ Buried(migrated, file))
    BY <1>11, Zenon DEF NotReconciled
  <2> QED BY <1>0, <2>1, <2>2, QuietTruth, Zenon DEF Unrecorded
<1>12. CASE ReadBootText
  <2>1. node'.before = node.before BY <1>1, <1>12, Zenon DEF ReadBootText, Memories
  <2> QED BY <1>0, <1>12, <2>1, QuietTruth, Zenon DEF ReadBootText, Unrecorded
<1>13. CASE ReconcileAudit BY <1>0, <1>13, SettleTruth, Zenon
<1>14. CASE Start
  <2>1. node'.before = node.before \/ node'.before = NoFile BY <1>1, <1>14 DEF Start, Memories, Blank
  <2> QED BY <1>0, <1>14, <2>1, QuietTruth, Zenon DEF Start, Unrecorded
<1>15. CASE Record BY <1>0, <1>15, RecordTruth, Zenon
<1>16. CASE RecordLanded
  <2>1. audit' = SetRow(MaxWrites + boots.restored.id, "landed") /\ pc = "insert" /\ pc' = "landing"
        /\ UNCHANGED <<file, lastGood, boots, node, migrated, unsettled, edit>>
    BY <1>16, Zenon DEF RecordLanded
  <2>2. ASSUME NEW i \in DOMAIN audit, audit[i].id = MaxWrites + boots.restored.id PROVE audit[i].reached
    <3>1. boots.restored.id \in Nat /\ boots.restored.id >= 1
      BY <1>0, <2>1, Zenon DEF Places, Typed, BootFiles, Restoring
    <3>2. writes \in 0 .. MaxWrites BY <1>0, Zenon DEF Typed
    <3> QED BY <1>0, <2>2, <3>1, <3>2, Consts DEF Numbered
  <2> QED BY <1>0, <2>1, <2>2, LandsTruth, Zenon
<1>17. CASE RecordForgets
  <2>1. boots'.restored = NoRestore BY <1>1, <1>17, Zenon DEF RecordForgets, BootFiles
  <2> QED BY <1>0, <1>17, <2>1, QuietTruth, Zenon DEF RecordForgets, Unrecorded
<1>18. CASE NotCounted
  <2>1. node'.before = NoFile BY <1>18, Zenon DEF NotCounted, Blank
  <2> QED BY <1>0, <1>18, <2>1, QuietTruth, Zenon DEF NotCounted, Unrecorded
<1> QED
  BY <1>2, <1>3, <1>4, <1>5, <1>6, <1>8, <1>9, <1>10, <1>11, <1>12, <1>13, <1>14, <1>15, <1>16, <1>17, <1>18,
     Zenon DEF StartStep

\* Whatever a running node does.
LEMMA RunningTruth ==
    ASSUME LInv, IInv, Graced \/ Promote \/ KeepCurrent \/ Refresh \/ Stop \/ Killed, behind = {}
    PROVE  Truth'
<1> USE DEF history
<1>0. Typed /\ Places /\ Numbered /\ Truth BY Zenon DEF LInv, IInv
<1>1. node \in Memories /\ boots \in BootFiles BY <1>0, Zenon DEF Typed
<1>2. pc \in Up => ~Unrecorded BY <1>0, Zenon DEF Places, Unrecorded, Up
<1>3. CASE Graced
  <2>1. boots'.restored = boots.restored BY <1>1, <1>3, Zenon DEF Graced, BootFiles
  <2> QED BY <1>0, <1>3, <2>1, QuietTruth, Zenon DEF Graced, Unrecorded
<1>4. CASE Promote
  <2>1. pc \in Up BY <1>4, Zenon DEF Promote, Up
  <2> QED BY <1>0, <1>2, <1>4, <2>1, QuietTruth, Zenon DEF Promote, Unrecorded
<1>5. CASE KeepCurrent
  <2>1. pc \in Up BY <1>5, Zenon DEF KeepCurrent, Up
  <2>2. node'.before = node.before BY <1>1, <1>5, Zenon DEF KeepCurrent, Memories
  <2>3. pc = "healthy" /\ UNCHANGED <<audit, file, migrated, unsettled, edit, boots, pc>> BY <1>5, Zenon DEF KeepCurrent
  <2> QED BY <1>0, <1>2, <2>1, <2>2, <2>3, QuietTruth, Zenon DEF Unrecorded
<1>6. CASE Refresh
  <2>1. TakenIn(file) = [node EXCEPT !.applied = file]
          \/ TakenIn(file) = [node EXCEPT !.applied = file, !.failed = IF file \in Overlays THEN NoFile ELSE file]
    BY Zenon DEF TakenIn, Applied
  <2>2. node'.before = node.before BY <1>1, <1>6, <2>1, Zenon DEF Refresh, Memories
  <2>3. pc \in Up /\ UNCHANGED <<audit, file, migrated, unsettled, edit, boots, pc, lastGood>> BY <1>6, Zenon DEF Refresh
  <2> QED BY <1>0, <2>2, <2>3, QuietTruth, Zenon DEF Unrecorded, Up
<1>7. CASE Stop
  <2>1. boots'.restored = boots.restored BY <1>1, <1>7, Zenon DEF Stop, BootFiles
  <2>2. node'.before = NoFile BY <1>7, Zenon DEF Stop, Blank
  <2> QED BY <1>0, <1>7, <2>1, <2>2, QuietTruth, Zenon DEF Stop, Unrecorded, Up
<1>8. CASE Killed
  <2>1. node'.before = NoFile BY <1>8, Zenon DEF Killed, Blank
  <2>2. /\ UNCHANGED <<audit, file, migrated, boots, lastGood>> /\ pc' = "down" /\ (edit' = edit \/ edit' = NoEdit)
        /\ unsettled' = (unsettled \/ Buried(migrated, file))
    BY <1>8, Zenon DEF Killed
  <2> QED BY <1>0, <2>1, <2>2, QuietTruth, Zenon DEF Unrecorded
<1> QED BY <1>3, <1>4, <1>5, <1>6, <1>7, <1>8, Zenon

\* Whatever an edit does, made under the lock.
LEMMA EditTruth ==
    ASSUME LInv, IInv, NEW f \in Files, behind = {},
           \/ EditBegins("node", f) \/ EditBegins("cli", f)
           \/ EditStep \/ EditFails \/ EditUnmarked \/ EditApplies \/ EditorKilled
    PROVE  Truth'
<1> USE DEF history
<1>0. Typed /\ Places /\ Numbered /\ Truth /\ Kept BY Zenon DEF LInv, IInv
<1>1. CASE EditBegins("node", f) \/ EditBegins("cli", f) BY <1>0, <1>1, EditBeginsTruth, Zenon
<1>2. CASE EditWrites BY <1>0, <1>2, EditWritesTruth, Zenon
<1>3. CASE EditLands
  <2>1. \A i \in DOMAIN audit : audit[i].id = edit.row => audit[i].reached
    BY <1>0, <1>3, Zenon DEF EditLands, Truth, EditHeld
  <2> QED BY <1>0, <1>3, <2>1, LandsTruth, Zenon DEF EditLands
<1>4. CASE EditFails BY <1>0, <1>4, EditFailsTruth, Zenon
<1>5. ASSUME UNCHANGED <<audit, file, migrated, unsettled, boots, pc, lastGood>>, edit' = edit \/ edit' = NoEdit,
             node'.before = node.before, node'.seen = node.seen
      PROVE  Truth'
  <2>1. pc = "keep" => file = node.seen BY <1>0, Zenon DEF Truth, LandedTrue
  <2>2. \/ pc \notin {"loaded", "reconcile", "insert"}
        \/ pc \in {"loaded", "reconcile"} /\ pc' \in {"loaded", "reconcile"} /\ node'.before = node.before
        \/ pc = "insert" /\ pc' = "insert" /\ boots'.restored = boots.restored
    BY <1>5, Zenon
  <2> QED BY <1>0, <1>5, <2>1, <2>2, QuietTruth, Zenon DEF Unrecorded
<1>6. CASE EditUnmarked BY <1>5, <1>6, Zenon DEF EditUnmarked
<1>7. CASE EditApplies
  <2>1. node'.before = node.before /\ node'.seen = node.seen BY <1>0, <1>7, Zenon DEF EditApplies, Applied, Typed, Memories
  <2>2. UNCHANGED <<audit, file, migrated, unsettled, edit, boots, pc, lastGood>> BY <1>7, Zenon DEF EditApplies
  <2> QED BY <1>5, <2>1, <2>2, Zenon
<1>8. CASE EditorKilled BY <1>5, <1>8, Zenon DEF EditorKilled
<1> QED BY <1>1, <1>2, <1>3, <1>4, <1>6, <1>7, <1>8, Zenon DEF EditStep

\* Before the first start the log is empty.
LEMMA InitLInv == Init => LInv
<1> SUFFICES ASSUME Init PROVE LInv BY Zenon
<1> USE DEF Init
<1>1. Typed BY InitTyped, Zenon
<1>2. DOMAIN audit = {} BY <1>1, RowTypes
<1>3. Numbered BY <1>2, Zenon DEF Numbered
<1>4. EditHeld BY <1>2, Zenon DEF EditHeld
<1>5. LandedTrue BY <1>2, Zenon DEF LandedTrue, Undoes, Owes, Unrecorded, Blank
<1>6. LostTrue BY <1>2, Zenon DEF LostTrue, Unrecorded
<1> QED BY <1>3, <1>4, <1>5, <1>6, Zenon DEF LInv, Truth

\* Every step keeps it.
LEMMA NextLInv == IInv /\ LInv /\ [Next]_vars => LInv'
<1> SUFFICES ASSUME IInv, LInv, [Next]_vars PROVE LInv' BY Zenon
<1>0. Typed /\ Places /\ Numbered /\ Kept BY Zenon DEF LInv, IInv
<1>1. Typed' /\ Places' BY <1>0, NextTyped, Zenon
<1>2. Numbered' BY <1>0, <1>1, NumberedStep, Zenon
<1>3. ASSUME behind' = {} PROVE Truth'
  <2>1. ASSUME NEW f, TextEditor(f) PROVE FALSE BY <1>3, <2>1, Zenon DEF TextEditor
  <2>2. behind = {}
    <3>1. CASE UNCHANGED vars BY <1>3, <3>1, Zenon DEF vars
    <3>2. CASE StartStep \/ NotCounted \/ MigrationFails \/ NotReconciled
      <4>1. CASE MigrationWrites BY <1>3, <4>1, Zenon DEF MigrationWrites
      <4>2. CASE ~MigrationWrites
        BY <1>3, <3>2, <4>2, Zenon DEF StartStep, NotCounted, MigrationFails, NotReconciled, Boot, RestoreLocked, RestoreReplace,
                        RestoreNoted, HashFile, Load, ReadBootText, ReconcileAudit, Start, Record, RecordLanded, RecordForgets, history
      <4> QED BY <4>1, <4>2, Zenon
    <3>3. CASE Graced \/ Promote \/ KeepCurrent \/ Refresh \/ Stop \/ Killed
      BY <1>3, <3>3, Zenon DEF Graced, Promote, KeepCurrent, Refresh, Stop, Killed, history
    <3>4. ASSUME NEW f, EditBegins("node", f) \/ EditBegins("cli", f) PROVE behind = {}
      BY <1>3, <3>4, Zenon DEF EditBegins, history
    <3>5. CASE EditStep \/ EditFails \/ EditUnmarked \/ EditApplies \/ EditorKilled
      BY <1>3, <3>5, Zenon DEF EditStep, EditWrites, EditLands, EditFails, EditUnmarked, EditApplies, EditorKilled, history
    <3> QED BY <2>1, <3>1, <3>2, <3>3, <3>4, <3>5, Zenon DEF Next
  <2>3. Truth BY <2>2, Zenon DEF LInv
  <2>4. CASE UNCHANGED vars
    <3>1. pc = "keep" => file = node.seen BY <2>3, Zenon DEF Truth, LandedTrue
    <3>2. UNCHANGED <<audit, file, migrated, unsettled, edit, boots, pc, lastGood, node>> BY <2>4, Zenon DEF vars
    <3>3. \/ pc \notin {"loaded", "reconcile", "insert"}
          \/ pc \in {"loaded", "reconcile"} /\ pc' \in {"loaded", "reconcile"} /\ node'.before = node.before
          \/ pc = "insert" /\ pc' = "insert" /\ boots'.restored = boots.restored
      BY <3>2, Zenon
    <3> QED BY <1>0, <2>3, <3>1, <3>2, <3>3, QuietTruth, Zenon DEF Unrecorded
  <2>5. CASE StartStep \/ NotCounted \/ MigrationFails \/ NotReconciled BY <1>3, <2>2, <2>5, StartTruth, Zenon
  <2>6. CASE Graced \/ Promote \/ KeepCurrent \/ Refresh \/ Stop \/ Killed BY <2>2, <2>6, RunningTruth, Zenon
  <2>7. ASSUME NEW f \in Files,
               \/ EditBegins("node", f) \/ EditBegins("cli", f)
               \/ EditStep \/ EditFails \/ EditUnmarked \/ EditApplies \/ EditorKilled
        PROVE  Truth'
    BY <2>2, <2>7, EditTruth, Zenon
  <2>8. file \in Files BY <1>0, Zenon DEF Typed
  <2> QED BY <2>1, <2>4, <2>5, <2>6, <2>7, <2>8, Zenon DEF Next
<1> QED BY <1>1, <1>2, <1>3, Zenon DEF LInv

\* What the invariant says of the log.
LEMMA LInvSays == IInv /\ LInv => LogTellsTheTruth
<1> SUFFICES ASSUME IInv, LInv PROVE LogTellsTheTruth BY Zenon
<1>0. Typed /\ Places /\ Numbered BY Zenon DEF LInv, IInv
<1>1. TypeOK
  <2>1. boots.hash \in Files \cup {NoFile} /\ boots.attempts \in 0 .. FAILED_BOOTS + 1
    BY <1>0, Zenon DEF Typed, BootFiles, Versions
  <2>2. boots.restored.id <= restores.made BY <1>0, Zenon DEF Places
  <2>3. \A i \in DOMAIN audit : audit[i] \in Rows
    <3>1. audit \in Seq(Rows) /\ DOMAIN audit = 1 .. Len(audit) BY <1>0, RowTypes, Zenon
    <3> QED BY <3>1
  <2>4. edit.at \in {"idle", "inserted", "written"} /\ edit.who \in {"none", "node", "cli"} BY <1>0, Zenon DEF Typed
  <2>5. (pc = "down" => node = Blank) /\ (applying # NoFile => pc \in Up) BY <1>0, Zenon DEF Places
  <2> QED BY <1>0, <2>1, <2>2, <2>3, <2>4, <2>5, Zenon DEF TypeOK, Typed, Versions
<1>2. \A i, j \in DOMAIN audit : audit[i].id = audit[j].id => i = j BY <1>0, Zenon DEF Numbered
<1>3. ASSUME behind = {}, NEW i \in DOMAIN audit, audit[i].state = "landed" PROVE audit[i].reached \/ Reverts
  <2>1. audit[i].reached \/ Undone(i) BY <1>3, Zenon DEF LInv, Truth, LandedTrue
  <2>2. Undone(i) => Reverts BY Zenon DEF Undone, Reverts
  <2> QED BY <2>1, <2>2, Zenon
<1>4. ASSUME behind = {}, NEW i \in DOMAIN audit, audit[i].state = "lost" PROVE ~audit[i].reached \/ unsettled
  BY <1>4, Zenon DEF LInv, Truth, LostTrue
<1> QED BY <1>1, <1>2, <1>3, <1>4, Zenon DEF LogTellsTheTruth

\* The audit log tells what happened to the file, for any versions, any migration and any
\* number of edits, restores, kills and refused writes: a restore has one row however often
\* the start that records it is killed, a landed row names a version that reached the file
\* or an edit was undone, and a lost row wrote nothing unless the log was settled in the
\* middle of its edit, or after a restore, or a migration whose start did not settle it,
\* had put its version away (config_audit_settle, reconcile_audit, settle,
\* persist_config_migration).
THEOREM LogIsTrue == Spec => []LogTellsTheTruth
<1>1. Spec => []LInv BY InitLInv, NextLInv, Inductive, PTL DEF Spec
<1> QED BY <1>1, LInvSays, Inductive, PTL

=============================================================================
