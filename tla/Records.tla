------------------------------- MODULE Records -------------------------------
(***************************************************************************)
(* The replicated records of sync/src/apply.rs: each site (a node, or the  *)
(* hub's replica) keeps a clock, a change log and the rows the changes     *)
(* describe.  A local write stamps a change, logs it and writes the row    *)
(* without comparing stamps; a change from another site is logged once and *)
(* applied only if its (ms, ctr, site) is larger than the row's.           *)
(*                                                                         *)
(* Abstractions.  The replicated tables behave alike, so there is one.     *)
(* The content of a row is what the winning change says, and a change is   *)
(* identified by its site, sequence and stamp: a row is modelled by the    *)
(* change it was last written from (deleted = 1 is op = "delete").  The    *)
(* network is modelled by Deliver alone: any change a site logged about    *)
(* itself may reach any other site, at any time, in any order, any number  *)
(* of times.  A batch is applied in one transaction; its changes are       *)
(* applied here one by one, which only adds intermediate states.           *)
(***************************************************************************)
EXTENDS Hlc

CONSTANTS
    Sites,      \* site names; their order is the tie-break of the code
    Ids,        \* record ids
    Channels,
    NoRow,      \* a record this replica has never held
    MaxSeq      \* bound: changes one site writes

Ops == {"upsert", "delete"}

Change == [id : Ids, op : Ops, chan : Channels, site : Sites,
           seq : 1 .. MaxSeq, at : Stamp]

ASSUME SitesAssumption == Sites \subseteq Nat
ASSUME NoRowAssumption == NoRow \notin Change
ASSUME MaxSeqAssumption == MaxSeq \in Nat

VARIABLES
    hlc,    \* hlc[s]: the one row of the hlc table
    log,    \* log[s]: the change_log table, own and received changes
    rows    \* rows[s][i]: the record's row, NoRow when absent

vars == <<hlc, log, rows>>

TypeOK ==
    /\ hlc \in [Sites -> Stamp]
    /\ log \in [Sites -> SUBSET Change]
    /\ rows \in [Sites -> [Ids -> Change \cup {NoRow}]]

Init ==
    /\ hlc = [s \in Sites |-> [ms |-> 0, ctr |-> 0]]
    /\ log = [s \in Sites |-> {}]
    /\ rows = [s \in Sites |-> [i \in Ids |-> NoRow]]

\* The changes of one site in replica s's log.
OfSite(s, t) == {c \in log[s] : c.site = t}

\* COALESCE(MAX(site_seq), 0) + 1 over the site's own changes, whatever
\* their channel.
NextSeq(s, ch) ==
    CHOOSE n \in 1 .. MaxSeq + 1 :
        /\ \A c \in OfSite(s, s) : c.seq < n
        /\ n = 1 \/ \E c \in OfSite(s, s) : c.seq = n - 1

\* validate_channel: a record id stays in the channel it was first seen in.
AnyChannel(s, i, ch) == TRUE

ChannelAgrees(s, i, ch) == rows[s][i] # NoRow => rows[s][i].chan = ch

\* write_change_in_tx, one transaction.
Write(s, ch, op, i, now) ==
    LET at == Tick(hlc[s], now)
        c  == [id |-> i, op |-> op, chan |-> ch, site |-> s,
               seq |-> NextSeq(s, ch), at |-> at]
    IN /\ at # NoStamp
       /\ c.seq \in 1 .. MaxSeq
       /\ ChannelAgrees(s, i, ch)
       /\ rows' = [rows EXCEPT ![s][i] = c]
       /\ log' = [log EXCEPT ![s] = @ \cup {c}]
       /\ hlc' = [hlc EXCEPT ![s] = at]

\* (c.hlc_ms, c.hlc_ctr, c.site) > (ms, ctr, site) of the row.
LaterStampOnly(c, d) == Before(d.at, c.at)

Later(c, d) == Before(d.at, c.at) \/ (c.at = d.at /\ c.site > d.site)

Wins(s, c) == rows[s][c.id] = NoRow \/ Later(c, rows[s][c.id])

\* INSERT OR IGNORE INTO change_log, keyed by (site, site_seq).
Fresh(s, c) == \A d \in OfSite(s, c.site) : d.seq # c.seq

\* apply_changes for one change c that site a sent, at wall time now.  A
\* refused change (impersonation, another channel's id, an exhausted clock)
\* and a duplicate leave the replica as it was.
Deliver(s, a, c, now) ==
    LET seen == Observe(hlc[s], now, c.at)
    IN /\ a # s
       /\ c.site = a
       /\ ChannelAgrees(s, c.id, c.chan)
       /\ seen # NoStamp
       /\ Fresh(s, c)
       /\ log' = [log EXCEPT ![s] = @ \cup {c}]
       /\ hlc' = [hlc EXCEPT ![s] = seen]
       /\ rows' = IF Wins(s, c) THEN [rows EXCEPT ![s][c.id] = c] ELSE rows

Next ==
    \/ \E s \in Sites, ch \in Channels, op \in Ops, i \in Ids, now \in 0 .. MaxMs :
            Write(s, ch, op, i, now)
    \/ \E s, a \in Sites, now \in 0 .. MaxMs : \E c \in log[a] : Deliver(s, a, c, now)

Spec == Init /\ [][Next]_vars

-----------------------------------------------------------------------------
(* Properties *)

\* (site, site_seq) names one change in the whole mesh: two replicas never
\* log different changes under one key, so INSERT OR IGNORE drops copies and
\* nothing else (apply.rs "(site, site_seq) makes a change idempotent").
OneChangePerKey ==
    \A s, t \in Sites : \A c \in log[s], d \in log[t] :
        c.site = d.site /\ c.seq = d.seq => c = d

\* "the change log and the row never disagree": the row is the latest change
\* the replica has logged for the record, however the changes arrived.
RowIsLatestLogged ==
    \A s \in Sites, i \in Ids :
        LET logged == {c \in log[s] : c.id = i}
        IN IF rows[s][i] = NoRow
           THEN logged = {}
           ELSE /\ rows[s][i] \in logged
                /\ \A c \in logged : c = rows[s][i] \/ Later(rows[s][i], c)

\* The (site, site_seq) pairs a replica has, which is all a backfill compares.
Keys(s) == {<<c.site, c.seq>> : c \in log[s]}

\* Two replicas that have logged the same changes of a record hold the same
\* row for it, whatever order, batching or repetition brought the changes; and
\* two that agree on the sequence numbers they have agree on every row.
Converged ==
    \A s, t \in Sites :
        /\ \A i \in Ids : {c \in log[s] : c.id = i} = {c \in log[t] : c.id = i}
                            => rows[s][i] = rows[t][i]
        /\ Keys(s) = Keys(t) => rows[s] = rows[t]

\* A site's changes carry growing stamps in site_seq order, even when its
\* wall clock goes backward or the counter overflows.
SiteStampsFollowSeq ==
    \A s \in Sites : \A c, d \in OfSite(s, s) :
        c.seq < d.seq => Before(c.at, d.at)

\* A record never leaves the channel it was first seen in (validate_channel),
\* and a row is only ever replaced by a later change: write_change, which
\* compares nothing, relies on the clock having passed every stamp the site
\* holds ("a received timestamp can never be overtaken by a local one").
RowStep(r, q) == r # NoRow => /\ q # NoRow
                              /\ q = r \/ Later(q, r)
                              /\ q.chan = r.chan

RowsOnlyAdvance ==
    [][\A s \in Sites, i \in Ids : RowStep(rows[s][i], rows'[s][i])]_vars
=============================================================================
