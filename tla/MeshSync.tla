------------------------------- MODULE MeshSync -------------------------------
(***************************************************************************)
(* How record changes travel between nodes (node/src/mesh/client.rs and    *)
(* forward.rs): committed, tapped, queued in the durable outbox, posted to *)
(* the hub's per-channel log, pulled page by page, deduplicated, opened or *)
(* held until the channel's key arrives, applied; and how a node notices   *)
(* that changes are missing and asks their site for them.                  *)
(*                                                                         *)
(* There is one record channel, Rec, and the channel every node is on,     *)
(* Mesh, which carries the direct requests and answers.  A change is       *)
(* identified by its site and site_seq; what a change does to the rows is  *)
(* module Records.  Each Changes frame carries one change.                 *)
(***************************************************************************)
EXTENDS Integers, Sequences, FiniteSets

CONSTANTS
    Nodes,
    Writers,      \* the nodes that write records
    Readers,      \* the nodes that pull Rec; one that reads only its own frames
                  \* there changes nothing but its cursor and may be left out
    Keyless,      \* the nodes that lack the epoch key the writers seal under
    MaxSeq,       \* bound: changes a site writes
    MaxFaults,    \* bound: crashes, prunes, refusals, lost responses, aged frames
    TapCap,       \* capacity of the bus's tap (1024 in the code)
    PageLimit,    \* PULL_LIMIT
    ControlLoss   \* how a request or an answer may be lost: a subset of Losses

Losses == {"refused", "pruned", "crash"}

ASSUME ConstAssumption ==
    /\ Writers \subseteq Nodes /\ Keyless \subseteq Nodes \ Writers
    /\ Readers \subseteq Nodes /\ \A n \in Nodes \ Readers : Writers \subseteq {n}
    /\ {MaxSeq, MaxFaults, TapCap} \subseteq Nat /\ PageLimit \in Nat \ {0}
    /\ ControlLoss \subseteq Losses
    /\ \A n \in Nodes : Cardinality(Nodes \ {n}) \in Nat

Rec == "rec"
Mesh == "@mesh"
Chans == {Rec, Mesh}

VARIABLES
    own,      \* own[n]: changes n has committed, 1 .. own[n]
    known,    \* known[n][a]: the changes of site a in n's change_log
    unsent,   \* unsent[n]: committed, on their way through the tap (memory)
    outbox,   \* outbox[n]: mesh_outbox, oldest first
    sent,     \* sent[n]: envelopes n has sealed; gives frames their ids
    log,      \* log[c]: every frame the hub appended to channel c
    lo,       \* lo[c]: frames of log[c] dropped by retention
    cursor,   \* cursor[n][c]: mesh_cursor
    page,     \* page[n][c]: last frame of the page being read (memory)
    pos,      \* pos[n][c]: frames of that page ingested so far (memory)
    seen,     \* seen[n]: mesh_seen
    key,      \* key[n]: n's keyring for Rec has the epoch in use
    held,     \* held[n]: mesh_held, oldest first
    lost,     \* lost[n]: history, frames n stopped on after seen_insert
    aged,     \* aged[n]: history, parked frames n dropped for their age
    faults

vars == <<own, known, unsent, outbox, sent, log, lo, cursor, page, pos, seen,
          key, held, lost, aged, faults>>

Payload == [kind : {"changes", "request", "batch"}, to : Nodes, after : 0 .. MaxSeq,
            seqs : SUBSET (1 .. MaxSeq)]

TypeOK ==
    /\ own \in [Nodes -> 0 .. MaxSeq]
    /\ known \in [Nodes -> [Nodes -> SUBSET (1 .. MaxSeq)]]
    /\ unsent \in [Nodes -> SUBSET (1 .. MaxSeq)]
    /\ \A n \in Nodes : \A i \in DOMAIN outbox[n] :
            outbox[n][i].from = n /\ outbox[n][i].body \in Payload
    /\ sent \in [Nodes -> Nat]
    /\ \A c \in Chans : lo[c] \in 0 .. Len(log[c])
    /\ \A n \in Nodes, c \in Chans :
            /\ cursor[n][c] <= pos[n][c]
            /\ pos[n][c] <= page[n][c]
            /\ page[n][c] <= Len(log[c])
    /\ key \in [Nodes -> BOOLEAN]
    /\ faults \in 0 .. MaxFaults

Zero == [n \in Nodes |-> [c \in Chans |-> 0]]

Init ==
    /\ own = [n \in Nodes |-> 0]
    /\ known = [n \in Nodes |-> [a \in Nodes |-> {}]]
    /\ unsent = [n \in Nodes |-> {}]
    /\ outbox = [n \in Nodes |-> <<>>]
    /\ sent = [n \in Nodes |-> 0]
    /\ log = [c \in Chans |-> <<>>]
    /\ lo = [c \in Chans |-> 0]
    /\ cursor = Zero /\ page = Zero /\ pos = Zero
    /\ seen = [n \in Nodes |-> {}]
    /\ key = [n \in Nodes |-> n \notin Keyless]
    /\ held = [n \in Nodes |-> <<>>]
    /\ lost = [n \in Nodes |-> {}] /\ aged = [n \in Nodes |-> {}]
    /\ faults = 0

-----------------------------------------------------------------------------
(* Payloads and the outbox *)

Changes(n, k) == [kind |-> "changes", to |-> n, after |-> 0, seqs |-> {k}]
Request(site, after) == [kind |-> "request", to |-> site, after |-> after, seqs |-> {}]
Batch(n, ks) == [kind |-> "batch", to |-> n, after |-> 0, seqs |-> ks]

ChanOf(f) == IF f.body.kind = "changes" THEN Rec ELSE Mesh

\* enqueue / enqueue_direct / push_envelope: seal, give the frame its id, queue.
Push(n, bodies) ==
    /\ outbox' = [outbox EXCEPT ![n] = @ \o
            [i \in 1 .. Len(bodies) |-> [from |-> n, id |-> sent[n] + i, body |-> bodies[i]]]]
    /\ sent' = [sent EXCEPT ![n] = @ + Len(bodies)]

\* change_log_max: MAX(site_seq) of a site on the channel, 0 if none.
ChangeLogMax(ks) == CHOOSE k \in {0} \cup ks : \A j \in ks : j <= k

\* answer_changes_request: this site's own changes after the asked sequence;
\* an empty answer goes out only to a request from 0.
AnswerSkipsFirst(n, asker, after) ==
    LET ks == {k \in 1 .. own[n] : k > after + 1}
    IN IF ks = {} /\ after > 0 THEN <<>> ELSE <<Batch(asker, ks)>>

Answer(n, asker, after) ==
    LET ks == {k \in 1 .. own[n] : k > after}
    IN IF ks = {} /\ after > 0 THEN <<>> ELSE <<Batch(asker, ks)>>

\* open_and_apply of a Changes frame at a node that can open it: a gap before the
\* change makes it ask the site for what follows the last change it holds, then
\* the change is applied.
OpenChanges(n, f) ==
    LET after == ChangeLogMax(known[n][f.from])
        gap   == \A k \in f.body.seqs : k > after + 1
    IN /\ known' = [known EXCEPT ![n][f.from] = @ \cup f.body.seqs]
       /\ Push(n, IF gap THEN <<Request(f.from, after)>> ELSE <<>>)

\* request_changes_backfill_all: every other site on the channel is asked for what
\* follows the last change of it held here, in any order.
AskAll(n) ==
    LET others == Nodes \ {n}
    IN \E sites \in [1 .. Cardinality(others) -> others] :
        /\ \A a \in others : \E i \in DOMAIN sites : sites[i] = a
        /\ Push(n, [i \in DOMAIN sites |-> Request(sites[i], ChangeLogMax(known[n][sites[i]]))])

-----------------------------------------------------------------------------
(* Outbound *)

\* corpus::write: the change is committed, then published to the tap.
Commit(n) ==
    /\ n \in Writers /\ own[n] < MaxSeq
    /\ own' = [own EXCEPT ![n] = @ + 1]
    /\ unsent' = [unsent EXCEPT ![n] = @ \cup {own[n] + 1}]
    /\ UNCHANGED <<known, outbox, sent, log, lo, cursor, page, pos, seen, key, held, lost, aged, faults>>

\* Bus::publish: a full tap drops the frame.
TapDrop(n, k) ==
    /\ k \in unsent[n] /\ Cardinality(unsent[n]) > TapCap
    /\ unsent' = [unsent EXCEPT ![n] = @ \ {k}]
    /\ UNCHANGED <<own, known, outbox, sent, log, lo, cursor, page, pos, seen, key, held, lost, aged, faults>>

\* tap_loop, on_frame: publishers race after their commits, so changes reach
\* the outbox in any order.
OnFrame(n, k) ==
    /\ k \in unsent[n] /\ key[n]
    /\ unsent' = [unsent EXCEPT ![n] = @ \ {k}]
    /\ Push(n, <<Changes(n, k)>>)
    /\ UNCHANGED <<own, known, log, lo, cursor, page, pos, seen, key, held, lost, aged, faults>>

\* drain_once: post the oldest frame, delete it once the hub took it.
DrainOnce(n) ==
    /\ outbox[n] # <<>>
    /\ log' = [log EXCEPT ![ChanOf(Head(outbox[n]))] = Append(@, Head(outbox[n]))]
    /\ outbox' = [outbox EXCEPT ![n] = Tail(@)]
    /\ UNCHANGED <<own, known, unsent, sent, lo, cursor, page, pos, seen, key, held, lost, aged, faults>>

\* The hub took the frame but the node did not learn so (lost response, or a
\* crash before outbox_delete): it will be posted again.
DrainUnconfirmed(n) ==
    /\ outbox[n] # <<>> /\ faults < MaxFaults
    /\ log' = [log EXCEPT ![ChanOf(Head(outbox[n]))] = Append(@, Head(outbox[n]))]
    /\ faults' = faults + 1
    /\ UNCHANGED <<own, known, unsent, outbox, sent, lo, cursor, page, pos, seen, key, held, lost, aged>>

\* The hub refused the frame (4xx): dropped rather than block the rest.
DrainRefused(n) ==
    /\ outbox[n] # <<>> /\ faults < MaxFaults
    /\ "refused" \in ControlLoss \/ ChanOf(Head(outbox[n])) = Rec
    /\ outbox' = [outbox EXCEPT ![n] = Tail(@)]
    /\ faults' = faults + 1
    /\ UNCHANGED <<own, known, unsent, sent, log, lo, cursor, page, pos, seen, key, held, lost, aged>>

-----------------------------------------------------------------------------
(* The hub's retention, and inbound *)

\* FrameStore::prune drops the oldest frames of a channel.
Prune(c) ==
    /\ lo[c] < Len(log[c]) /\ faults < MaxFaults
    /\ "pruned" \in ControlLoss \/ c = Rec
    /\ lo' = [lo EXCEPT ![c] = @ + 1]
    /\ faults' = faults + 1
    /\ UNCHANGED <<own, known, unsent, outbox, sent, log, cursor, page, pos, seen, key, held, lost, aged>>

\* pull_once goes through the channels one after another.
MayPull(n, c) ==
    /\ c = Rec => n \in Readers
    /\ \A d \in Chans : pos[n][d] = page[n][d]

\* pull_channel, the GET: a page of frames after the cursor.
Fetch(n, c) ==
    /\ MayPull(n, c)
    /\ cursor[n][c] >= lo[c] /\ cursor[n][c] < Len(log[c])
    /\ page' = [page EXCEPT ![n][c] = IF @ + PageLimit < Len(log[c]) THEN @ + PageLimit ELSE Len(log[c])]
    /\ UNCHANGED <<own, known, unsent, outbox, sent, log, lo, cursor, pos, seen, key, held, lost, aged, faults>>

\* pull_channel, 410: the cursor is behind retention.  Every site is asked
\* for what this node lacks, and the cursor jumps to the oldest frame.
SkipOnly(n, c) ==
    /\ cursor' = [cursor EXCEPT ![n][c] = lo[c]]
    /\ UNCHANGED <<outbox, sent>>

Resync(n, c) ==
    /\ cursor' = [cursor EXCEPT ![n][c] = lo[c]]
    /\ IF c = Rec THEN AskAll(n) ELSE UNCHANGED <<outbox, sent>>

Gone(n, c) ==
    /\ MayPull(n, c)
    /\ cursor[n][c] < lo[c]
    /\ Resync(n, c)
    /\ pos' = [pos EXCEPT ![n][c] = lo[c]]
    /\ page' = [page EXCEPT ![n][c] = lo[c]]
    /\ UNCHANGED <<own, known, unsent, log, lo, seen, key, held, lost, aged, faults>>

\* open_and_apply, for a frame this node has not seen.
OpenAndApply(n, f) ==
    CASE f.body.kind = "changes" /\ ~key[n] ->
            /\ held' = [held EXCEPT ![n] = Append(@, f)]
            /\ UNCHANGED <<known, outbox, sent>>
      [] f.body.kind = "changes" /\ key[n] ->
            OpenChanges(n, f) /\ UNCHANGED held
      [] f.body.kind = "request" /\ f.body.to = n ->
            /\ Push(n, Answer(n, f.from, f.body.after))
            /\ UNCHANGED <<known, held>>
      [] f.body.kind = "batch" /\ f.body.to = n ->
            /\ known' = [known EXCEPT ![n][f.from] = @ \cup f.body.seqs]
            /\ UNCHANGED <<held, outbox, sent>>
      [] OTHER -> UNCHANGED <<known, held, outbox, sent>>

\* ingest: the next frame of the page; a node's own frames and frames it has
\* seen are skipped.  pull_channel moves the cursor after the last one.
CursorAtPageEnd(n, c) ==
    cursor' = IF pos[n][c] + 1 = page[n][c] THEN [cursor EXCEPT ![n][c] = page[n][c]]
                                            ELSE cursor

Ingest(n, c) ==
    LET f == log[c][pos[n][c] + 1]
    IN /\ pos[n][c] < page[n][c]
       /\ pos' = [pos EXCEPT ![n][c] = @ + 1]
       /\ CursorAtPageEnd(n, c)
       /\ IF f.from = n \/ <<f.from, f.id>> \in seen[n]
          THEN UNCHANGED <<known, held, outbox, sent, seen>>
          ELSE /\ seen' = [seen EXCEPT ![n] = @ \cup {<<f.from, f.id>>}]
               /\ OpenAndApply(n, f)
       /\ UNCHANGED <<own, unsent, log, lo, page, key, lost, aged, faults>>

\* A key handoff is taken; after_handoff asks every site for what was written
\* before this node could listen.
TakeKey(n) ==
    /\ ~key[n]
    /\ key' = [key EXCEPT ![n] = TRUE]
    /\ AskAll(n)
    /\ UNCHANGED <<own, known, unsent, log, lo, cursor, page, pos, seen, held, lost, aged, faults>>

\* apply_held, which after_handoff calls and every later pull calls again: the frame
\* parked longest is opened, and deleted once it is applied.
DropHeld(n, f) == UNCHANGED <<known, outbox, sent>>

OpenHeld(n, f) == OpenChanges(n, f)

ApplyHeld(n) ==
    /\ key[n] /\ held[n] # <<>>
    /\ OpenHeld(n, Head(held[n]))
    /\ held' = [held EXCEPT ![n] = Tail(@)]
    /\ UNCHANGED <<own, unsent, log, lo, cursor, page, pos, seen, key, lost, aged, faults>>

\* held_prune, which ends every pull: a frame parked for SEEN_RETENTION_MS is dropped.
\* With the key here the pull has opened it by then.  (seen_prune goes by the same age;
\* what it forgets matters to a frame posted once more after that time only, and is
\* kept here.)
HeldPrune(n) ==
    /\ \A c \in Chans : pos[n][c] = page[n][c]
    /\ ~key[n] /\ held[n] # <<>> /\ faults < MaxFaults
    /\ held' = [held EXCEPT ![n] = Tail(@)]
    /\ aged' = [aged EXCEPT ![n] = @ \cup {Head(held[n])}]
    /\ faults' = faults + 1
    /\ UNCHANGED <<own, known, unsent, outbox, sent, log, lo, cursor, page, pos, seen, key, lost>>

\* The node stops and starts again.  What was in memory is gone: the tap, the
\* page.  It may stop after seen_insert and before open_and_apply; the frame
\* will then be skipped as seen.
Restart(n) ==
    /\ faults < MaxFaults /\ faults' = faults + 1
    /\ unsent' = [unsent EXCEPT ![n] = {}]
    /\ pos' = [pos EXCEPT ![n] = cursor[n]]
    /\ page' = [page EXCEPT ![n] = cursor[n]]
    /\ UNCHANGED <<own, log, lo, cursor, key, held, aged>>

Crash(n) == Restart(n) /\ UNCHANGED <<known, outbox, sent, seen, lost>>

CrashInIngest(n, c) ==
    /\ pos[n][c] < page[n][c]
    /\ LET f == log[c][pos[n][c] + 1]
       IN /\ "crash" \in ControlLoss \/ c = Rec
          /\ f.from # n /\ <<f.from, f.id>> \notin seen[n]
          /\ seen' = [seen EXCEPT ![n] = @ \cup {<<f.from, f.id>>}]
          /\ lost' = [lost EXCEPT ![n] = @ \cup {<<f.from, f.id>>}]
    /\ Restart(n) /\ UNCHANGED <<known, outbox, sent>>

\* Or after a parked frame is applied and before held_delete.
CrashInApplyHeld(n) ==
    /\ key[n] /\ held[n] # <<>>
    /\ OpenHeld(n, Head(held[n]))
    /\ Restart(n) /\ UNCHANGED <<seen, lost>>

Next ==
    \/ \E n \in Nodes :
        \/ Commit(n)
        \/ \E k \in unsent[n] : TapDrop(n, k) \/ OnFrame(n, k)
        \/ DrainOnce(n) \/ DrainUnconfirmed(n) \/ DrainRefused(n)
        \/ \E c \in Chans : Fetch(n, c) \/ Gone(n, c) \/ Ingest(n, c) \/ CrashInIngest(n, c)
        \/ TakeKey(n) \/ ApplyHeld(n) \/ HeldPrune(n)
        \/ Crash(n) \/ CrashInApplyHeld(n)
    \/ \E c \in Chans : Prune(c)

Spec == Init /\ [][Next]_vars

\* The loops of a node that is up keep running: the tap of a writer is drained,
\* the outbox is posted (with backoff, for ever), every channel the node reads is
\* pulled, a joining node is given the key, and the frames it parked are tried
\* with every pull.  Only such nodes ever have these steps to take.
LiveSpec ==
    /\ Spec
    /\ \A n \in Writers : WF_vars(\E k \in unsent[n] : OnFrame(n, k))
    /\ \A n \in Nodes : WF_vars(DrainOnce(n))
    /\ \A n \in Keyless : WF_vars(TakeKey(n)) /\ WF_vars(ApplyHeld(n))
    /\ \A n \in Nodes : WF_vars(Fetch(n, Mesh) \/ Gone(n, Mesh) \/ Ingest(n, Mesh))
    /\ \A n \in Readers : WF_vars(Fetch(n, Rec) \/ Gone(n, Rec) \/ Ingest(n, Rec))

-----------------------------------------------------------------------------
(* Properties *)

\* The frames node n will still read from channel c, or is holding.
ToRead(n, c) == {i \in pos[n][c] + 1 .. Len(log[c]) : i > lo[c] \/ i <= page[n][c]}

Unread(n, c) == {log[c][i] : i \in {j \in ToRead(n, c) :
                    <<log[c][j].from, log[c][j].id>> \notin seen[n]}}

Elements(q) == {q[i] : i \in DOMAIN q}

Queued(n) == Elements(outbox[n])

\* A request of n to a that covers change k, or a's answer to it, is on its way.
BackfillComing(n, a, k) ==
    \/ \E f \in Queued(n) \cup Unread(a, Mesh) :
            f.body.kind = "request" /\ f.from = n /\ f.body.to = a /\ f.body.after < k
    \/ \E f \in Queued(a) \cup Unread(n, Mesh) :
            f.body.kind = "batch" /\ f.from = a /\ f.body.to = n /\ k \in f.body.seqs

\* A hole: n lacks change k of site a but has a later one.
Hole(n, a, k) == k \notin known[n][a] /\ \E j \in known[n][a] : j > k

\* A frame the hub drops under a reader is never dropped silently: when the
\* cursor is moved past a pruned Changes frame of another site that the node
\* has not seen, that change is asked for by then.
SkippedChangesAreAsked ==
    \A n \in Nodes : \A i \in 1 .. cursor[n][Rec] :
        LET f == log[Rec][i]
        IN \A k \in f.body.seqs :
            \/ f.from = n
            \/ <<f.from, f.id>> \in seen[n]
            \/ k \in known[n][f.from]
            \/ BackfillComing(n, f.from, k)

\* A frame a node has seen is never left behind for want of a key: it is
\* parked until the key is here and its change is in the change log, wherever
\* the node stops in between; and if it grows too old for that and is dropped
\* (held_prune: "the sites' change logs are how the records behind them come back"),
\* its change is known or asked for as soon as the key is here.
\* (A crash between seen_insert and open_and_apply is the exception; lost.)
\* Cursors, logs and queues are well formed throughout.
HeldFramesAreOpened ==
    /\ TypeOK
    /\ \A n \in Nodes : \A i \in 1 .. Len(log[Rec]) :
        LET f == log[Rec][i]
        IN f.from # n /\ <<f.from, f.id>> \in seen[n] \ lost[n] =>
                \/ key[n] /\ f.body.seqs \subseteq known[n][f.from]
                \/ \E j \in DOMAIN held[n] : held[n][j] = f
                \/ /\ f \in aged[n]
                   /\ key[n] => \A k \in f.body.seqs :
                                    k \in known[n][f.from] \/ BackfillComing(n, f.from, k)

\* A hole does not last: the request is posted, answered and applied.  Once the key is
\* here, neither does a parked frame, nor the lack of a change whose frame was dropped
\* for its age.  (The last change has no later one, and a node that had the key from
\* the start parks nothing.)
HolesGetFilled ==
    /\ \A a \in Writers : \A n \in Nodes \ {a}, k \in 1 .. MaxSeq - 1 :
            Hole(n, a, k) ~> k \in known[n][a]
    /\ \A n \in Keyless :
            key[n] ~> held[n] = <<>> /\ \A f \in aged[n] : f.body.seqs \subseteq known[n][f.from]
=============================================================================
