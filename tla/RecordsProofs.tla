---------------------------- MODULE RecordsProofs ----------------------------
(***************************************************************************)
(* Proofs about Hlc and Records, for every set of sites, ids and channels  *)
(* and every width of the clock; and, at the end, about Commands for every *)
(* timeout, skew, clock offset and number of faults.                       *)
(***************************************************************************)
EXTENDS Records, Commands, TLAPS

-----------------------------------------------------------------------------
(* The clock *)

\* bump (hlc.rs) gives up or returns a stamp after its argument.
LEMMA BumpLater ==
    ASSUME NEW a \in Stamp, Bump(a) # NoStamp
    PROVE  Bump(a) \in Stamp /\ Before(a, Bump(a))
BY WidthAssumption DEF Bump, Stamp, Before

\* Hlc::tick gives up or returns a stamp after the last one.
LEMMA TickLater ==
    ASSUME NEW last \in Stamp, NEW wall \in 0 .. MaxMs, Tick(last, wall) # NoStamp
    PROVE  Tick(last, wall) \in Stamp /\ Before(last, Tick(last, wall))
<1>1. CASE wall > last.ms
  BY <1>1, WidthAssumption DEF Tick, Stamp, Before
<1>2. CASE ~(wall > last.ms)
  BY <1>2, BumpLater, Zenon DEF Tick
<1> QED BY <1>1, <1>2, Zenon

\* Hlc::observe gives up or returns a stamp after both the site's last stamp
\* and the stamp it observed.
LEMMA ObserveLater ==
    ASSUME NEW last \in Stamp, NEW wall \in 0 .. MaxMs, NEW remote \in Stamp,
           Observe(last, wall, remote) # NoStamp
    PROVE  /\ Observe(last, wall, remote) \in Stamp
           /\ Before(last, Observe(last, wall, remote))
           /\ Before(remote, Observe(last, wall, remote))
<1> DEFINE ahead == wall > last.ms /\ wall > remote.ms
           larger == [ms |-> last.ms, ctr |-> LargerCtr(last, remote)]
<1>1. CASE ahead
  BY <1>1, WidthAssumption DEF Observe, Stamp, Before
<1>2. CASE ~ahead /\ remote.ms > last.ms
  <2>1. Observe(last, wall, remote) = Bump(remote)
    BY <1>2 DEF Observe, Stamp
  <2>2. Before(last, remote)
    BY <1>2, Zenon DEF Before
  <2> QED BY <2>1, <2>2, BumpLater DEF Before, Stamp
<1>3. CASE ~ahead /\ remote.ms = last.ms
  <2>1. Observe(last, wall, remote) = Bump(larger)
    BY <1>3 DEF Observe, Stamp
  <2>2. larger \in Stamp /\ ~Before(larger, last) /\ ~Before(larger, remote)
    BY <1>3 DEF Before, Stamp, LargerCtr
  <2>3. Bump(larger) \in Stamp /\ Before(larger, Bump(larger))
    BY <2>1, <2>2, BumpLater, Zenon
  <2> HIDE DEF larger
  <2> QED BY <2>1, <2>2, <2>3 DEF Before, Stamp
<1>4. CASE ~ahead /\ remote.ms < last.ms
  <2>1. Observe(last, wall, remote) = Bump(last)
    BY <1>4 DEF Observe, Stamp
  <2>2. Before(remote, last)
    BY <1>4, Zenon DEF Before
  <2> QED BY <2>1, <2>2, BumpLater DEF Before, Stamp
<1> QED BY <1>1, <1>2, <1>3, <1>4 DEF Stamp

-----------------------------------------------------------------------------
(* The inductive invariant *)

\* Every change a replica holds is in the log of the site that wrote it.
Authored == \A s \in Sites : \A c \in log[s] : c \in log[c.site]

\* The clock has passed, or is at, every stamp the replica holds.
ClockAhead == \A s \in Sites : \A c \in log[s] : ~Before(hlc[s], c.at)

\* A site's own sequence numbers are 1..n: what MAX(site_seq) + 1 relies on.
OwnSeqsGapless ==
    \A s \in Sites : \E n \in 0 .. MaxSeq : \A k \in 1 .. MaxSeq :
        k <= n <=> \E c \in OfSite(s, s) : c.seq = k

OwnSeqsUnique ==
    \A s \in Sites : \A c, d \in OfSite(s, s) : c.seq = d.seq => c = d

IInv ==
    /\ TypeOK
    /\ Authored
    /\ ClockAhead
    /\ OwnSeqsGapless
    /\ OwnSeqsUnique
    /\ SiteStampsFollowSeq
    /\ RowIsLatestLogged

\* write_change's MAX(site_seq) + 1 is above every sequence number the site
\* has used, and everything below it is used.
LEMMA NextSeqIsNew ==
    ASSUME IInv, NEW s \in Sites, NEW ch
    PROVE  /\ NextSeq(s, ch) \in 1 .. MaxSeq + 1
           /\ \A c \in OfSite(s, s) : c.seq < NextSeq(s, ch)
           /\ NextSeq(s, ch) = 1 \/ \E c \in OfSite(s, s) : c.seq = NextSeq(s, ch) - 1
<1> DEFINE P(n) == /\ \A c \in OfSite(s, s) : c.seq < n
                   /\ n = 1 \/ \E c \in OfSite(s, s) : c.seq = n - 1
<1>1. PICK n \in 0 .. MaxSeq : \A k \in 1 .. MaxSeq :
            k <= n <=> \E c \in OfSite(s, s) : c.seq = k
  BY Zenon DEF IInv, OwnSeqsGapless
<1>2. \A c \in OfSite(s, s) : c.seq \in 1 .. MaxSeq
  BY DEF IInv, TypeOK, OfSite, Change
<1>3. n + 1 \in 1 .. MaxSeq + 1 /\ P(n + 1)
  BY <1>1, <1>2, MaxSeqAssumption
<1>4. NextSeq(s, ch) = CHOOSE m \in 1 .. MaxSeq + 1 : P(m)
  BY Zenon DEF NextSeq
<1> HIDE DEF P
<1>5. NextSeq(s, ch) \in 1 .. MaxSeq + 1 /\ P(NextSeq(s, ch))
  BY <1>3, <1>4, Zenon
<1> QED BY <1>5, Zenon DEF P

\* Initially every replica is empty.
LEMMA InitIInv == Init => IInv
<1> SUFFICES ASSUME Init PROVE IInv
  BY Zenon
<1>1. TypeOK
  BY WidthAssumption DEF Init, TypeOK, Stamp
<1>2. Authored /\ ClockAhead
  BY Zenon DEF Init, Authored, ClockAhead
<1>3. OwnSeqsGapless
  <2>1. 0 \in 0 .. MaxSeq
    BY MaxSeqAssumption
  <2>2. \A s \in Sites : \A k \in 1 .. MaxSeq :
            k <= 0 <=> \E c \in OfSite(s, s) : c.seq = k
    BY DEF Init, OfSite
  <2> QED BY <2>1, <2>2, Zenon DEF OwnSeqsGapless
<1>4. OwnSeqsUnique /\ SiteStampsFollowSeq
  BY Zenon DEF Init, OwnSeqsUnique, SiteStampsFollowSeq, OfSite
<1>5. RowIsLatestLogged
  BY Zenon DEF Init, RowIsLatestLogged
<1> QED BY <1>1, <1>2, <1>3, <1>4, <1>5, Zenon DEF IInv

\* What the invariant gives for a step of replica s that logs one change c:
\* the shape that Write and Deliver share.
Logs(s, c) ==
    /\ log' = [log EXCEPT ![s] = @ \cup {c}]
    /\ c \in Change
    /\ hlc' = [hlc EXCEPT ![s] = hlc'[s]]
    /\ hlc'[s] \in Stamp
    /\ Before(hlc[s], hlc'[s])
    /\ ~Before(hlc'[s], c.at)

\* A step that logs one change keeps the clock ahead of the log.
LEMMA ClockStaysAhead ==
    ASSUME IInv, NEW s \in Sites, NEW c, Logs(s, c)
    PROVE  ClockAhead'
<1> SUFFICES ASSUME NEW t \in Sites, NEW d \in log'[t]
             PROVE  ~Before(hlc'[t], d.at)
  BY Zenon DEF ClockAhead
<1>1. CASE t # s
  BY <1>1, Zenon DEF IInv, ClockAhead, Logs, TypeOK
<1>2. CASE t = s /\ d = c
  BY <1>2, Zenon DEF Logs
<1>3. CASE t = s /\ d \in log[s]
  <2>1. ~Before(hlc[s], d.at) /\ d.at \in Stamp /\ hlc[s] \in Stamp
    BY <1>3 DEF IInv, ClockAhead, TypeOK, Change
  <2> QED BY <1>3, <2>1 DEF Logs, Before, Stamp
<1> QED BY <1>1, <1>2, <1>3, Zenon DEF IInv, TypeOK, Logs

\* write_change_in_tx preserves the invariant.
LEMMA WriteIInv ==
    ASSUME IInv, NEW s \in Sites, NEW ch \in Channels, NEW op \in Ops,
           NEW i \in Ids, NEW wall \in 0 .. MaxMs, Write(s, ch, op, i, wall)
    PROVE  IInv' /\ \A t \in Sites, j \in Ids : RowStep(rows[t][j], rows'[t][j])
<1> DEFINE at == Tick(hlc[s], wall)
           n  == NextSeq(s, ch)
           c  == [id |-> i, op |-> op, chan |-> ch, site |-> s, seq |-> n, at |-> at]
<1>1. /\ at # NoStamp /\ n \in 1 .. MaxSeq
      /\ ChannelAgrees(s, i, ch)
      /\ rows' = [rows EXCEPT ![s][i] = c]
      /\ log' = [log EXCEPT ![s] = @ \cup {c}]
      /\ hlc' = [hlc EXCEPT ![s] = at]
  BY Zenon DEF Write
<1>2. at \in Stamp /\ Before(hlc[s], at)
  BY <1>1, TickLater, Zenon DEF IInv, TypeOK
<1>3. /\ \A d \in OfSite(s, s) : d.seq < n
      /\ n = 1 \/ \E d \in OfSite(s, s) : d.seq = n - 1
  BY NextSeqIsNew, Zenon
<1> HIDE DEF at, n
<1>4. c \in Change
  BY <1>1, <1>2, Zenon DEF Change
<1>5. TypeOK'
  BY <1>1, <1>2, <1>4, Zenon DEF IInv, TypeOK
<1>6. /\ c.id = i /\ c.chan = ch /\ c.site = s /\ c.seq = n /\ c.at = at
  BY Zenon
<1> HIDE DEF c
<1>7. \A t \in Sites : log'[t] = IF t = s THEN log[s] \cup {c} ELSE log[t]
  BY <1>1, Zenon DEF IInv, TypeOK
<1>8. \A d \in log[s] : Before(d.at, at)
  <2> SUFFICES ASSUME NEW d \in log[s] PROVE Before(d.at, at)
    BY Zenon
  <2>1. ~Before(hlc[s], d.at) /\ d.at \in Stamp /\ hlc[s] \in Stamp
    BY DEF IInv, ClockAhead, TypeOK, Change
  <2> QED BY <1>2, <2>1 DEF Before, Stamp
<1>9. Authored'
  BY <1>4, <1>6, <1>7 DEF IInv, Authored, TypeOK, Change
<1>10. ClockAhead'
  <2>1. Logs(s, c)
    BY <1>1, <1>2, <1>4, <1>6 DEF Logs, IInv, TypeOK, Before, Stamp
  <2> QED BY <2>1, ClockStaysAhead, Zenon
<1>11. \A t \in Sites : OfSite(t, t)' = IF t = s THEN OfSite(s, s) \cup {c} ELSE OfSite(t, t)
  BY <1>6, <1>7, Zenon DEF OfSite
<1>12. OwnSeqsGapless'
  <2> SUFFICES ASSUME NEW t \in Sites
               PROVE  \E m \in 0 .. MaxSeq : \A k \in 1 .. MaxSeq :
                          k <= m <=> \E d \in OfSite(t, t)' : d.seq = k
    BY Zenon DEF OwnSeqsGapless
  <2>1. PICK m \in 0 .. MaxSeq : \A k \in 1 .. MaxSeq :
            k <= m <=> \E d \in OfSite(t, t) : d.seq = k
    BY Zenon DEF IInv, OwnSeqsGapless
  <2>2. CASE t # s
    BY <1>11, <2>1, <2>2, Zenon
  <2>3. CASE t = s
    <3>1. n = m + 1
      <4>1. \A d \in OfSite(s, s) : d.seq \in 1 .. MaxSeq
        BY DEF IInv, TypeOK, OfSite, Change
      <4>2. ~(n <= m)
        BY <1>1, <1>3, <2>1, <2>3, <4>1
      <4>3. n = 1 \/ n - 1 <= m
        BY <1>1, <1>3, <2>1, <2>3, <4>1, Zenon
      <4> QED BY <1>1, <4>2, <4>3, MaxSeqAssumption
    <3>2. \A k \in 1 .. MaxSeq : k <= n <=> \E d \in OfSite(s, s) \cup {c} : d.seq = k
      <4> TAKE k \in 1 .. MaxSeq
      <4>1. k <= n <=> k <= m \/ k = n
        BY <1>1, <3>1
      <4> QED BY <1>6, <2>1, <2>3, <4>1, Zenon
    <3>3. n \in 0 .. MaxSeq
      BY <1>1
    <3> QED BY <1>11, <2>3, <3>2, <3>3, Zenon
  <2> QED BY <2>2, <2>3, Zenon
<1>13. OwnSeqsUnique'
  <2> SUFFICES ASSUME NEW t \in Sites, NEW d \in OfSite(t, t)', NEW e \in OfSite(t, t)',
                      d.seq = e.seq
               PROVE  d = e
    BY Zenon DEF OwnSeqsUnique
  <2>1. \A x \in OfSite(s, s) : x.seq # n
    BY <1>1, <1>3 DEF IInv, TypeOK, OfSite, Change
  <2> QED BY <1>6, <1>11, <2>1 DEF IInv, OwnSeqsUnique
<1>14. SiteStampsFollowSeq'
  <2> SUFFICES ASSUME NEW t \in Sites, NEW d \in OfSite(t, t)', NEW e \in OfSite(t, t)',
                      d.seq < e.seq
               PROVE  Before(d.at, e.at)
    BY Zenon DEF SiteStampsFollowSeq
  <2>1. CASE t # s
    BY <1>11, <2>1, Zenon DEF IInv, SiteStampsFollowSeq
  <2>2. CASE t = s
    <3>1. CASE d \in OfSite(s, s) /\ e \in OfSite(s, s)
      BY <3>1, Zenon DEF IInv, SiteStampsFollowSeq
    <3>2. CASE d \in OfSite(s, s) /\ e = c
      BY <1>6, <1>8, <3>2, Zenon DEF OfSite
    <3>3. ~(d = c)
      <4> SUFFICES ASSUME d = c PROVE FALSE
        BY Zenon
      <4>1. e = c \/ e.seq < n
        BY <1>3, <1>11, <2>2, Zenon
      <4>2. e \in Change
        BY <1>4, <1>11, <2>2, Zenon DEF OfSite, IInv, TypeOK
      <4> QED BY <1>1, <1>6, <4>1, <4>2 DEF Change
    <3> QED BY <1>11, <2>2, <3>1, <3>2, <3>3, Zenon
  <2> QED BY <2>1, <2>2, Zenon
<1>15. \A t \in Sites, j \in Ids :
          rows'[t][j] = IF t = s /\ j = i THEN c ELSE rows[t][j]
  BY <1>1, Zenon DEF IInv, TypeOK
<1>16. c # NoRow
  BY <1>4, NoRowAssumption, Zenon
<1>17. RowIsLatestLogged'
  <2> SUFFICES ASSUME NEW t \in Sites, NEW j \in Ids
               PROVE  IF rows'[t][j] = NoRow
                      THEN {d \in log'[t] : d.id = j} = {}
                      ELSE /\ rows'[t][j] \in {d \in log'[t] : d.id = j}
                           /\ \A d \in {x \in log'[t] : x.id = j} :
                                 d = rows'[t][j] \/ Later(rows'[t][j], d)
    BY Zenon DEF RowIsLatestLogged
  <2>1. CASE t = s /\ j = i
    BY <1>6, <1>7, <1>8, <1>15, <1>16, <2>1 DEF Later
  <2>2. CASE ~(t = s /\ j = i)
    <3>1. {d \in log'[t] : d.id = j} = {d \in log[t] : d.id = j}
      BY <1>6, <1>7, <2>2, Zenon
    <3>2. rows'[t][j] = rows[t][j]
      BY <1>15, <2>2, Zenon
    <3> QED BY <3>1, <3>2, Zenon DEF IInv, RowIsLatestLogged
  <2> QED BY <2>1, <2>2, Zenon
<1>18. \A t \in Sites, j \in Ids : RowStep(rows[t][j], rows'[t][j])
  <2> SUFFICES ASSUME NEW t \in Sites, NEW j \in Ids, rows[t][j] # NoRow
               PROVE  /\ rows'[t][j] # NoRow
                      /\ rows'[t][j] = rows[t][j] \/ Later(rows'[t][j], rows[t][j])
                      /\ rows'[t][j].chan = rows[t][j].chan
    BY Zenon DEF RowStep
  <2>1. CASE t = s /\ j = i
    <3>1. rows[s][i] \in log[s]
      BY <2>1, Zenon DEF IInv, RowIsLatestLogged
    <3> QED BY <1>1, <1>6, <1>8, <1>15, <1>16, <2>1, <3>1 DEF Later, ChannelAgrees
  <2>2. CASE ~(t = s /\ j = i)
    BY <1>15, <2>2, Zenon
  <2> QED BY <2>1, <2>2, Zenon
<1> QED BY <1>5, <1>9, <1>10, <1>12, <1>13, <1>14, <1>17, <1>18, Zenon DEF IInv

\* apply_changes preserves the invariant: the case where the change loses
\* needs Authored and SiteStampsFollowSeq, which make equal (ms, ctr, site)
\* of two different changes impossible.
LEMMA DeliverIInv ==
    ASSUME IInv, NEW s \in Sites, NEW a \in Sites, NEW wall \in 0 .. MaxMs,
           NEW c \in log[a], Deliver(s, a, c, wall)
    PROVE  IInv' /\ \A t \in Sites, j \in Ids : RowStep(rows[t][j], rows'[t][j])
<1> DEFINE met == Observe(hlc[s], wall, c.at)
<1>1. /\ a # s /\ c.site = a /\ met # NoStamp
      /\ ChannelAgrees(s, c.id, c.chan)
      /\ Fresh(s, c)
      /\ log' = [log EXCEPT ![s] = @ \cup {c}]
      /\ hlc' = [hlc EXCEPT ![s] = met]
      /\ rows' = IF Wins(s, c) THEN [rows EXCEPT ![s][c.id] = c] ELSE rows
  BY Zenon DEF Deliver
<1>2. /\ c \in Change /\ c.at \in Stamp /\ c.id \in Ids /\ c.site \in Sites
      /\ hlc[s] \in Stamp
  BY DEF IInv, TypeOK, Change
<1>3. met \in Stamp /\ Before(hlc[s], met) /\ Before(c.at, met)
  BY <1>1, <1>2, ObserveLater, Zenon
<1> HIDE DEF met
<1>4. TypeOK'
  BY <1>1, <1>2, <1>3, Zenon DEF IInv, TypeOK
<1>5. \A t \in Sites : log'[t] = IF t = s THEN log[s] \cup {c} ELSE log[t]
  BY <1>1, Zenon DEF IInv, TypeOK
<1>6. Authored'
  BY <1>1, <1>2, <1>5 DEF IInv, Authored, TypeOK, Change
<1>7. ClockAhead'
  <2>1. Logs(s, c)
    BY <1>1, <1>2, <1>3 DEF Logs, IInv, TypeOK, Before, Stamp
  <2> QED BY <2>1, ClockStaysAhead, Zenon
<1>8. \A t \in Sites : OfSite(t, t)' = OfSite(t, t)
  BY <1>1, <1>5 DEF OfSite
<1>9. OwnSeqsGapless' /\ OwnSeqsUnique' /\ SiteStampsFollowSeq'
  BY <1>8 DEF IInv, OwnSeqsGapless, OwnSeqsUnique, SiteStampsFollowSeq
<1>10. \A t \in Sites, j \in Ids :
          rows'[t][j] = IF t = s /\ j = c.id /\ Wins(s, c) THEN c ELSE rows[t][j]
  BY <1>1, <1>2, Zenon DEF IInv, TypeOK
<1>11. c # NoRow
  BY <1>2, NoRowAssumption, Zenon
<1>12. ASSUME ~Wins(s, c)
       PROVE  rows[s][c.id] # NoRow /\ Later(rows[s][c.id], c)
  <2> DEFINE r == rows[s][c.id]
  <2>1. r # NoRow /\ ~Later(c, r)
    BY <1>12, Zenon DEF Wins
  <2>2. r \in log[s] /\ r \in Change
    BY <1>2, <2>1, Zenon DEF IInv, RowIsLatestLogged, TypeOK
  <2>3. ASSUME r.site = c.site PROVE r.at # c.at
    <3>1. r.seq # c.seq
      BY <1>1, <2>2, <2>3, Zenon DEF Fresh, OfSite
    <3>2. r \in OfSite(a, a) /\ c \in OfSite(a, a)
      BY <1>1, <2>2, <2>3, Zenon DEF OfSite, IInv, Authored
    <3>3. r.seq < c.seq \/ c.seq < r.seq
      BY <1>2, <2>2, <3>1 DEF Change
    <3>4. Before(r.at, c.at) \/ Before(c.at, r.at)
      BY <3>2, <3>3, Zenon DEF IInv, SiteStampsFollowSeq
    <3> QED BY <1>2, <2>2, <3>4 DEF Before, Stamp, Change
  <2>4. r.at \in Stamp /\ r.site \in Nat /\ c.site \in Nat
    BY <1>2, <2>2, SitesAssumption, Zenon DEF Change
  <2> HIDE DEF r
  <2>5. Before(r.at, c.at) \/ Before(c.at, r.at) \/ r.at = c.at
    BY <1>2, <2>4 DEF Before, Stamp
  <2>6. Later(r, c)
    BY <2>1, <2>3, <2>4, <2>5 DEF Later
  <2> QED BY <2>1, <2>6, Zenon DEF r
<1>13. ASSUME Wins(s, c), NEW d \in log[s], d.id = c.id
       PROVE  d = c \/ Later(c, d)
  <2> DEFINE r == rows[s][c.id]
  <2>1. r # NoRow /\ r \in log[s] /\ (d = r \/ Later(r, d))
    BY <1>2, <1>13 DEF IInv, RowIsLatestLogged
  <2>2. Later(c, r)
    BY <1>13, <2>1, Zenon DEF Wins
  <2>3. r \in Change /\ d \in Change
    BY <2>1, Zenon DEF IInv, TypeOK
  <2> HIDE DEF r
  <2>4. /\ r.at \in Stamp /\ d.at \in Stamp
        /\ r.site \in Nat /\ d.site \in Nat /\ c.site \in Nat
    BY <1>2, <2>3, SitesAssumption, Zenon DEF Change
  <2>5. CASE d = r
    BY <2>2, <2>5, Zenon
  <2>6. CASE Later(r, d)
    <3>1. Before(d.at, c.at) \/ (d.at = c.at /\ c.site > d.site)
      BY <1>2, <2>2, <2>4, <2>6 DEF Later, Before, Stamp
    <3> QED BY <3>1, Zenon DEF Later
  <2> QED BY <2>1, <2>5, <2>6, Zenon
<1>14. RowIsLatestLogged'
  <2> SUFFICES ASSUME NEW t \in Sites, NEW j \in Ids
               PROVE  IF rows'[t][j] = NoRow
                      THEN {d \in log'[t] : d.id = j} = {}
                      ELSE /\ rows'[t][j] \in {d \in log'[t] : d.id = j}
                           /\ \A d \in {x \in log'[t] : x.id = j} :
                                 d = rows'[t][j] \/ Later(rows'[t][j], d)
    BY Zenon DEF RowIsLatestLogged
  <2>1. CASE t = s /\ j = c.id /\ Wins(s, c)
    BY <1>5, <1>10, <1>11, <1>13, <2>1
  <2>2. CASE t = s /\ j = c.id /\ ~Wins(s, c)
    <3>1. rows'[t][j] = rows[s][c.id] /\ rows[s][c.id] # NoRow /\ Later(rows[s][c.id], c)
      BY <1>10, <1>12, <2>2, Zenon
    <3>2. /\ rows[s][c.id] \in {d \in log[s] : d.id = c.id}
          /\ \A d \in {x \in log[s] : x.id = c.id} :
                d = rows[s][c.id] \/ Later(rows[s][c.id], d)
      BY <1>2, <3>1, Zenon DEF IInv, RowIsLatestLogged
    <3> QED BY <1>5, <2>2, <3>1, <3>2, Zenon
  <2>3. CASE ~(t = s /\ j = c.id)
    <3>1. {d \in log'[t] : d.id = j} = {d \in log[t] : d.id = j}
      BY <1>5, <2>3, Zenon
    <3>2. rows'[t][j] = rows[t][j]
      BY <1>10, <2>3, Zenon
    <3> QED BY <3>1, <3>2, Zenon DEF IInv, RowIsLatestLogged
  <2> QED BY <2>1, <2>2, <2>3, Zenon
<1>15. \A t \in Sites, j \in Ids : RowStep(rows[t][j], rows'[t][j])
  <2> SUFFICES ASSUME NEW t \in Sites, NEW j \in Ids, rows[t][j] # NoRow
               PROVE  /\ rows'[t][j] # NoRow
                      /\ rows'[t][j] = rows[t][j] \/ Later(rows'[t][j], rows[t][j])
                      /\ rows'[t][j].chan = rows[t][j].chan
    BY Zenon DEF RowStep
  <2>1. CASE t = s /\ j = c.id /\ Wins(s, c)
    BY <1>1, <1>10, <1>11, <2>1 DEF Wins, ChannelAgrees
  <2>2. CASE ~(t = s /\ j = c.id /\ Wins(s, c))
    BY <1>10, <2>2, Zenon
  <2> QED BY <2>1, <2>2, Zenon
<1> QED BY <1>4, <1>6, <1>7, <1>9, <1>14, <1>15, Zenon DEF IInv

\* Every step of the system preserves the invariant and moves rows forward.
LEMMA NextIInv ==
    ASSUME IInv, [Next]_vars
    PROVE  IInv' /\ \A t \in Sites, j \in Ids : RowStep(rows[t][j], rows'[t][j])
<1>1. ASSUME NEW s \in Sites, NEW ch \in Channels, NEW op \in Ops, NEW i \in Ids,
             NEW wall \in 0 .. MaxMs, Write(s, ch, op, i, wall)
      PROVE  IInv' /\ \A t \in Sites, j \in Ids : RowStep(rows[t][j], rows'[t][j])
  BY <1>1, WriteIInv, Zenon
<1>2. ASSUME NEW s \in Sites, NEW a \in Sites, NEW wall \in 0 .. MaxMs,
             NEW c \in log[a], Deliver(s, a, c, wall)
      PROVE  IInv' /\ \A t \in Sites, j \in Ids : RowStep(rows[t][j], rows'[t][j])
  BY <1>2, DeliverIInv, Zenon
<1>3. CASE UNCHANGED vars
  <2>1. IInv'
    BY <1>3 DEF IInv, vars, TypeOK, Authored, ClockAhead, OwnSeqsGapless, OwnSeqsUnique,
                SiteStampsFollowSeq, RowIsLatestLogged, OfSite
  <2>2. \A t \in Sites, j \in Ids : RowStep(rows[t][j], rows'[t][j])
    BY <1>3, Zenon DEF vars, RowStep
  <2> QED BY <2>1, <2>2, Zenon
<1> QED BY <1>1, <1>2, <1>3, Zenon DEF Next

-----------------------------------------------------------------------------
(* Theorems *)

\* The invariant holds in every reachable state.
THEOREM InvariantHolds == Spec => []IInv
<1>1. IInv /\ [Next]_vars => IInv'
  BY NextIInv, Zenon
<1> QED BY InitIInv, <1>1, PTL DEF Spec

\* Type correctness: in particular every stamp handed out or observed is
\* representable, although bump may overflow its counter.
THEOREM TypeCorrect == Spec => []TypeOK
<1>1. IInv => TypeOK
  BY Zenon DEF IInv
<1> QED BY InvariantHolds, <1>1, PTL

\* "The change log and the row never disagree" (apply.rs): the row is the
\* latest logged change of the record.
THEOREM RowAgreesWithLog == Spec => []RowIsLatestLogged
<1>1. IInv => RowIsLatestLogged
  BY Zenon DEF IInv
<1> QED BY InvariantHolds, <1>1, PTL

\* A site's writes are stamped in the order it made them.
THEOREM StampsFollowSeq == Spec => []SiteStampsFollowSeq
<1>1. IInv => SiteStampsFollowSeq
  BY Zenon DEF IInv
<1> QED BY InvariantHolds, <1>1, PTL

\* (site, site_seq) names one change: every replica copies the author's own log,
\* in which next_seq hands out each number once.
LEMMA OneKeyOneChange == IInv => OneChangePerKey
<1> SUFFICES ASSUME IInv, NEW s \in Sites, NEW t \in Sites,
                    NEW c \in log[s], NEW d \in log[t],
                    c.site = d.site, c.seq = d.seq
             PROVE  c = d
  BY Zenon DEF OneChangePerKey
<1>1. c.site \in Sites
  BY DEF IInv, TypeOK, Change
<1>2. c \in OfSite(c.site, c.site) /\ d \in OfSite(c.site, c.site)
  BY Zenon DEF IInv, Authored, OfSite
<1> QED BY <1>1, <1>2, Zenon DEF IInv, OwnSeqsUnique

\* (site, site_seq) names one change: dropping a duplicate key never drops
\* a change the replica does not have.
THEOREM KeysNameOneChange == Spec => []OneChangePerKey
<1> QED BY InvariantHolds, OneKeyOneChange, PTL

\* Replicas that logged the same changes of a record hold the same row.
LEMMA SameChangesSameRow ==
    ASSUME IInv, NEW s \in Sites, NEW t \in Sites, NEW i \in Ids,
           {c \in log[s] : c.id = i} = {c \in log[t] : c.id = i}
    PROVE  rows[s][i] = rows[t][i]
<1> DEFINE L == {c \in log[s] : c.id = i}
           r == rows[s][i]
           q == rows[t][i]
<1>1. CASE L = {}
  BY <1>1 DEF IInv, RowIsLatestLogged
<1>2. CASE L # {}
  <2>1. /\ r \in L /\ \A c \in L : c = r \/ Later(r, c)
        /\ q \in L /\ \A c \in L : c = q \/ Later(q, c)
    BY <1>2, Zenon DEF IInv, RowIsLatestLogged
  <2>2. r \in Change /\ q \in Change
    BY <2>1, Zenon DEF IInv, TypeOK
  <2>3. /\ r.at \in Stamp /\ q.at \in Stamp /\ r.site \in Nat /\ q.site \in Nat
    BY <2>2, SitesAssumption, Zenon DEF Change
  <2>4. r = q \/ (Later(r, q) /\ Later(q, r))
    BY <2>1, Zenon
  <2> HIDE DEF r, q
  <2>5. ~(Later(r, q) /\ Later(q, r))
    BY <2>3 DEF Later, Before, Stamp
  <2> QED BY <2>4, <2>5, Zenon DEF r, q
<1> QED BY <1>1, <1>2, Zenon

\* Strong eventual consistency: replicas that logged the same changes of a record
\* hold the same row, and replicas with the same keys have logged the same changes.
THEOREM ReplicasConverge == Spec => []Converged
<1>1. IInv => Converged
  <2> SUFFICES ASSUME IInv, NEW s \in Sites, NEW t \in Sites
               PROVE  /\ \A i \in Ids : {c \in log[s] : c.id = i} = {c \in log[t] : c.id = i}
                                            => rows[s][i] = rows[t][i]
                      /\ Keys(s) = Keys(t) => rows[s] = rows[t]
    BY Zenon DEF Converged
  <2>1. \A i \in Ids : {c \in log[s] : c.id = i} = {c \in log[t] : c.id = i}
                            => rows[s][i] = rows[t][i]
    BY SameChangesSameRow, Zenon
  <2>2. ASSUME Keys(s) = Keys(t)
        PROVE  rows[s] = rows[t]
    <3>1. ASSUME NEW u \in Sites, NEW v \in Sites, Keys(u) = Keys(v)
          PROVE  log[u] \subseteq log[v]
      <4>1. SUFFICES ASSUME NEW c \in log[u]
                     PROVE  c \in log[v]
        BY Zenon
      <4>2. <<c.site, c.seq>> \in Keys(v)
        BY <3>1, Zenon DEF Keys
      <4>3. PICK d \in log[v] : <<c.site, c.seq>> = <<d.site, d.seq>>
        BY <4>2, Zenon DEF Keys
      <4> QED BY <4>3, OneKeyOneChange, Zenon DEF OneChangePerKey
    <3>2. log[s] = log[t]
      BY <2>2, <3>1
    <3>3. \A i \in Ids : rows[s][i] = rows[t][i]
      BY <2>1, <3>2, Zenon
    <3> QED BY <3>3 DEF IInv, TypeOK
  <2> QED BY <2>1, <2>2, Zenon
<1> QED BY InvariantHolds, <1>1, PTL

\* No step, local or remote, replaces a row by an earlier change or moves a
\* record to another channel.
THEOREM RowsAdvance == Spec => RowsOnlyAdvance
<1>1. IInv /\ [Next]_vars => [\A s \in Sites, i \in Ids : RowStep(rows[s][i], rows'[s][i])]_vars
  BY NextIInv, Zenon
<1> QED BY InvariantHolds, <1>1, PTL DEF Spec, RowsOnlyAdvance

-----------------------------------------------------------------------------
(* One command and its ack (module Commands), beside the records' own state *)

\* The frame is at the hub or in the outbox only once it was sent, and at most
\* twice at the hub, since a post that was answered leaves the outbox.
Sent ==
    /\ outbox => hub <= 1
    /\ caller = "idle" => hub = 0 /\ ~outbox
    /\ pending => timed

\* mesh_seen is what makes the owner run it once: nothing has happened before it
\* has the frame, and a task past "spawned" never comes back to it.
OnceOnly ==
    /\ seen <=> task # "none"
    /\ task \in {"none", "spawned"} => starts = {}
    /\ task \notin {"done", "dropped"} => answer = "none"
    /\ task = "running" => starts # {}

\* An ack on its way tells what the task did.
AckIsTruth == (answer = "ok" => starts # {}) /\ (answer = "expired" => starts = {})

CInv == CommandTypeOK /\ Sent /\ OnceOnly /\ AckIsTruth /\ AnswerIsTruth

\* The inductive invariant holds before the command is sent.
LEMMA InitCInv == CommandInit => CInv
<1> SUFFICES ASSUME CommandInit PROVE CInv BY Zenon
<1>1. /\ MaxTime \in Nat /\ MaxFaults \in Nat
      /\ timed \in BOOLEAN /\ offset \in Offsets
  BY ConstAssumption, Zenon DEF ConstAssumption, CommandInit
<1>2. CommandTypeOK
  <2>1. now \in 0 .. MaxTime /\ hub \in 0 .. 2 /\ faults \in 0 .. MaxFaults /\ starts \subseteq 0 .. MaxTime
    BY <1>1 DEF CommandInit
  <2> QED BY <1>1, <2>1, Zenon DEF CommandInit, CommandTypeOK
<1>3. Sent /\ OnceOnly /\ AckIsTruth BY Zenon DEF CommandInit, Sent, OnceOnly, AckIsTruth
<1>4. AnswerIsTruth BY Zenon DEF CommandInit, AnswerIsTruth
<1> QED BY <1>2, <1>3, <1>4, Zenon DEF CInv

\* Every step of the sender, the owner, the hub and the clock keeps it.
LEMMA NextCInv == CInv /\ [CommandNext]_commandVars => CInv'
<1> SUFFICES ASSUME CInv, [CommandNext]_commandVars PROVE CInv' BY Zenon
<1> USE DEF CInv, CommandTypeOK, Sent, OnceOnly, AckIsTruth, AnswerIsTruth, owner
<1>0. Timeout \in Nat /\ Skew \in Nat /\ MaxTime \in Nat /\ MaxFaults \in Nat /\ Offsets \subseteq Int
  BY ConstAssumption, Zenon DEF ConstAssumption
<1>1. CASE Send BY <1>0, <1>1 DEF Send
<1>2. CASE TimesOut BY <1>0, <1>2, Zenon DEF TimesOut
<1>3. CASE ReceiveAck BY <1>0, <1>3, Zenon DEF ReceiveAck, AckAnswers
<1>4. CASE CallerDropped BY <1>0, <1>4 DEF CallerDropped, Fault
<1>5. CASE SenderRestarts
  <2>1. faults' \in 0 .. MaxFaults BY <1>0, <1>5 DEF SenderRestarts, Fault
  <2> QED BY <1>0, <1>5, <2>1, Zenon DEF SenderRestarts
<1>6. CASE Post
  <2>1. hub' \in 0 .. 2 BY <1>6 DEF Post
  <2> QED BY <1>0, <1>6, <2>1, Zenon DEF Post
<1>7. CASE PostUnanswered BY <1>0, <1>7 DEF PostUnanswered, Fault
<1>8. CASE Pull BY <1>0, <1>8 DEF Pull, TakesFrame
<1>9. CASE Refuse BY <1>0, <1>9, Zenon DEF Refuse
<1>10. CASE Start BY <1>0, <1>10 DEF Start, Expired, deadline
<1>11. CASE NotReady BY <1>0, <1>11 DEF NotReady, Fault
<1>12. CASE OwnerRestarts BY <1>0, <1>12 DEF OwnerRestarts, Fault
<1>13. ASSUME NEW result \in {"ok", "error"}, Finish(result) PROVE CInv'
  BY <1>0, <1>13, Zenon DEF Finish, Acks
<1>14. CASE Lose BY <1>0, <1>14 DEF Lose, Fault
<1>15. CASE TimePasses BY <1>0, <1>15 DEF TimePasses
<1>16. CASE UNCHANGED commandVars BY <1>16 DEF commandVars
<1> QED
  BY <1>1, <1>2, <1>3, <1>4, <1>5, <1>6, <1>7, <1>8, <1>9, <1>10, <1>11, <1>12, <1>13, <1>14,
     <1>15, <1>16, Zenon DEF CommandNext

\* The invariant holds throughout.
LEMMA CInvHolds == CommandSpec => []CInv
BY InitCInv, NextCInv, PTL DEF CommandSpec

\* Every piece of state keeps its shape, and no entry of the pending map outlives
\* the wait it was made for, unless the waiting caller was dropped (await_ack).
THEOREM CommandTypeCorrect == CommandSpec => []CommandTypeOK
BY CInvHolds, PTL DEF CInv

\* A caller told of success asked for something that was run, and a command
\* refused as expired never ran (run_command, open_and_apply of an Ack).
THEOREM Truthful == CommandSpec => []AnswerIsTruth
BY CInvHolds, PTL DEF CInv

\* A step that starts the command finds that nothing started it before.
LEMMA StartsFirst == CInv /\ [CommandNext]_commandVars => [task # "running" /\ task' = "running" => starts = {}]_commandVars
<1> SUFFICES ASSUME CInv, [CommandNext]_commandVars, task # "running", task' = "running" PROVE starts = {}
  BY Zenon
<1>1. CASE Start BY <1>1, Zenon DEF Start, CInv, OnceOnly
<1>2. CASE UNCHANGED commandVars BY <1>2, Zenon DEF commandVars, owner
<1> QED
  BY <1>1, <1>2, Zenon DEF CommandNext, Send, TimesOut, ReceiveAck, CallerDropped, SenderRestarts, Post,
     PostUnanswered, Pull, Refuse, NotReady, OwnerRestarts, Finish, Acks, Lose, TimePasses, owner

\* The owner runs the command at most once, whatever is posted again, pulled again
\* or interrupted by a restart (ingest, mesh_seen).
THEOREM AtMostOnce == CommandSpec => RunsAtMostOnce
BY CInvHolds, StartsFirst, PTL DEF CommandSpec, RunsAtMostOnce
=============================================================================
