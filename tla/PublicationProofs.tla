---------------------------- MODULE PublicationProofs ----------------------------
(***************************************************************************)
(* Proofs about Publication for any number of revisions, requests at once, *)
(* stops, lost answers and acts of others.                                 *)
(***************************************************************************)
EXTENDS Publication, TLAPS

\* Where a request writes the record, or is about to.
Writes == {"authorize", "local", "change", "observe", "push", "confirm", "opening", "lookup", "open",
           "edit", "comment", "opened", "settle"}

\* Where it may speak to the forge.
Speaks == {"change", "observe", "push", "confirm", "opening", "lookup", "open", "edit", "comment"}

\* Where it has seen its commit on the branch, or at the head of a change.
Sees == {"opening", "lookup", "open", "edit", "comment", "opened", "recheck", "settle"}

\* Before it pushes, where it still knows whether an earlier attempt had.
Knows == {"authorize", "local", "change", "observe"}

\* What a request under way relies on, whatever others do beside it.
Mem(t) ==
    /\ task[t].pc # "idle" => Rev(t) \in Revisions
    /\ task[t].pc \in Writes => row[Rev(t)].state # "none"
    /\ task[t].pc \in Speaks => row[Rev(t)].contacted
    /\ task[t].pc \in Sees => Rev(t) \in landed
    /\ task[t].change <= Len(changes) /\ task[t].was.change <= Len(changes)
    /\ At(t, "ask") => task[t].change # 0

\* As long as nobody raced another: a request that holds the claim holds it alone, for
\* the latest revision,
Sole(t) ==
    task[t].pc \in Held =>
        /\ review = "publishing" /\ Rev(t) = latest
        /\ \A u \in Tasks \ {t} : task[u].pc \notin Held

\* and what it read of the record is still so.
Fresh(t) ==
    /\ At(t, "begin") => task[t].was = row[Rev(t)]
    /\ task[t].pc \in Knows /\ row[Rev(t)].pushed => task[t].had /\ task[t].resume
    /\ At(t, "push") => ~row[Rev(t)].pushed
    /\ At(t, "finish") => row[Rev(t)].state = "opened"

Alone(t) == Sole(t) /\ Fresh(t)

\* Whatever is at the forge because of a revision has its record say it was contacted.
Contacted ==
    /\ \A r \in landed : row[r].contacted
    /\ \A r \in Revisions : opens[r] > 0 => row[r].contacted
    /\ \A r \in Revisions, n \in DOMAIN changes : changes[n].notes[r] > 0 => row[r].contacted

\* The branch and the changes hold what was pushed, or what somebody else did.
HoldPushed ==
    /\ branch \in landed \cup {Nothing, Other}
    /\ \A n \in DOMAIN changes : changes[n].head \in landed \cup {Other}

\* What a record says of its revision.
RowsTrue ==
    \A r \in Revisions :
        /\ row[r].state = "opened" => r \in landed
        /\ row[r].change <= Len(changes)

Settled == review = "approved" => row[latest].state = "opened"

IInv ==
    /\ TypeOK /\ (\A t \in Tasks : Mem(t)) /\ Contacted /\ HoldPushed /\ RowsTrue
    /\ raced \/ (Settled /\ \A t \in Tasks : Alone(t))

-----------------------------------------------------------------------------
(* What an update of one request or one record changes *)

Pcs == {"idle"} \cup Held \cup Waiting

\* A request that only goes on remembers what it did.
LEMMA PcMoves ==
    ASSUME NEW f \in [Tasks -> Requests], NEW t \in Tasks, NEW v \in Pcs,
           NEW g, g = [f EXCEPT ![t].pc = v]
    PROVE  /\ g \in [Tasks -> Requests] /\ \A u \in Tasks \ {t} : g[u] = f[u]
           /\ g[t].pc = v /\ g[t].how = f[t].how /\ g[t].rev = f[t].rev /\ g[t].text = f[t].text
           /\ g[t].was = f[t].was /\ g[t].stale = f[t].stale /\ g[t].resume = f[t].resume
           /\ g[t].had = f[t].had /\ g[t].change = f[t].change
<1>1. f[t] \in Requests OBVIOUS
<1>2. g[t] = [f[t] EXCEPT !.pc = v] OBVIOUS
<1>3. g[t] \in Requests BY <1>1, <1>2 DEF Requests, Pcs
<1>4. g \in [Tasks -> Requests] /\ \A u \in Tasks \ {t} : g[u] = f[u] BY <1>3
<1> QED BY <1>1, <1>2, <1>4 DEF Requests

\* A request that goes on with another change ...
WithChange(f, g, t, v, k) == g = [f EXCEPT ![t].pc = v, ![t].change = k]

\* ... or with another reading of the record.
WithReading(f, g, t, v, w) == g = [f EXCEPT ![t].pc = v, ![t].was = w]

\* It remembers the rest.
LEMMA ChangeMoves ==
    ASSUME NEW f \in [Tasks -> Requests], NEW t \in Tasks, NEW v \in Pcs, NEW k \in Nat,
           NEW g, WithChange(f, g, t, v, k)
    PROVE  /\ g \in [Tasks -> Requests] /\ \A u \in Tasks \ {t} : g[u] = f[u]
           /\ g[t].pc = v /\ g[t].rev = f[t].rev /\ g[t].was = f[t].was /\ g[t].change = k
           /\ g[t].text = f[t].text
<1>1. f[t] \in Requests BY Zenon
<1> DEFINE m == [f[t] EXCEPT !.pc = v, !.change = k]
<1>2. m \in Requests /\ m.pc = v /\ m.rev = f[t].rev /\ m.was = f[t].was /\ m.change = k /\ m.text = f[t].text
  BY <1>1, Zenon DEF Requests, Pcs
<1>3. g = [f EXCEPT ![t] = m] BY <1>1, Zenon DEF WithChange
<1> HIDE DEF m
<1> QED BY <1>2, <1>3

\* It remembers the rest.
LEMMA ReadMoves ==
    ASSUME NEW f \in [Tasks -> Requests], NEW t \in Tasks, NEW v \in Pcs, NEW w \in Rows,
           NEW g, WithReading(f, g, t, v, w)
    PROVE  /\ g \in [Tasks -> Requests] /\ \A u \in Tasks \ {t} : g[u] = f[u]
           /\ g[t].pc = v /\ g[t].rev = f[t].rev /\ g[t].was = w /\ g[t].change = f[t].change
           /\ g[t].text = f[t].text
<1>1. f[t] \in Requests BY Zenon
<1> DEFINE m == [f[t] EXCEPT !.pc = v, !.was = w]
<1>2. m \in Requests /\ m.pc = v /\ m.rev = f[t].rev /\ m.was = w /\ m.change = f[t].change /\ m.text = f[t].text
  BY <1>1, Zenon DEF Requests, Pcs
<1>3. g = [f EXCEPT ![t] = m] BY <1>1, Zenon DEF WithReading
<1> HIDE DEF m
<1> QED BY <1>2, <1>3

\* A record that only changes state keeps its evidence.
LEMMA StateSet ==
    ASSUME NEW f \in [Revisions -> Rows], NEW r \in Revisions, NEW s \in States,
           NEW g, g = [f EXCEPT ![r].state = s]
    PROVE  /\ g \in [Revisions -> Rows] /\ \A q \in Revisions \ {r} : g[q] = f[q]
           /\ g[r].state = s /\ g[r].mine = f[r].mine /\ g[r].contacted = f[r].contacted
           /\ g[r].pushed = f[r].pushed /\ g[r].text = f[r].text /\ g[r].change = f[r].change
<1>1. f[r] \in Rows OBVIOUS
<1>2. g[r] = [f[r] EXCEPT !.state = s] OBVIOUS
<1>3. g[r] \in Rows BY <1>1, <1>2 DEF Rows
<1>4. g \in [Revisions -> Rows] /\ \A q \in Revisions \ {r} : g[q] = f[q] BY <1>3
<1> QED BY <1>1, <1>2, <1>4 DEF Rows

\* A request that ended.
LEMMA IdleTyped ==
    /\ Idle \in Requests /\ Idle.pc = "idle" /\ Idle.change = 0 /\ Idle.was.change = 0
    /\ NoRow \in Rows /\ NoRow.state = "none" /\ NoRow.change = 0
<1>1. NoRow \in Rows /\ NoRow.state = "none" /\ NoRow.change = 0 BY DEF NoRow, Rows, States
<1>2. Idle \in Requests BY <1>1, ConstAssumption DEF Idle, Requests, ConstAssumption
<1> QED BY <1>1, <1>2 DEF Idle

-----------------------------------------------------------------------------
(* A step of one request *)

\* Records only gain evidence, and only the record of a request that holds the claim
\* is written.
RowsGrow(t) ==
    \A r \in Revisions :
        /\ row'[r] = row[r] \/ (r = Rev(t) /\ task[t].pc \in Held)
        /\ row[r].contacted => row'[r].contacted
        /\ row'[r] = row[r] \/ row'[r].state # "none"

\* The forge gains nothing but what the request brings it.
ForgeGains(t) ==
    /\ branch' \in Commits \cup {Nothing} /\ changes' \in Seq(Changes)
    /\ opens' \in [Revisions -> Nat] /\ landed' \subseteq Revisions
    /\ landed \subseteq landed' /\ Len(changes) <= Len(changes')
    /\ landed' \subseteq landed \cup {Rev(t)}
    /\ \A r \in Revisions \ {Rev(t)} : opens'[r] = opens[r]
    /\ \A r \in Revisions \ {Rev(t)}, n \in DOMAIN changes' :
            changes'[n].notes[r] > 0 => n \in DOMAIN changes /\ changes[n].notes[r] > 0
    /\ HoldPushed'

\* ... and only once its record says so.
ForgeStep(t) == UNCHANGED forge \/ (task[t].pc \in Speaks /\ ForgeGains(t))

\* Nothing comes to the forge that no record tells of.
LEMMA ForgeKeeps ==
    ASSUME IInv, NEW t \in Tasks, RowsGrow(t), ForgeStep(t)
    PROVE  /\ Contacted' /\ HoldPushed'
           /\ branch' \in Commits \cup {Nothing} /\ changes' \in Seq(Changes)
           /\ opens' \in [Revisions -> Nat] /\ landed' \subseteq Revisions
           /\ landed \subseteq landed' /\ Len(changes) <= Len(changes')
<1>1. CASE UNCHANGED forge
  <2>1. branch' = branch /\ changes' = changes /\ opens' = opens /\ landed' = landed BY <1>1 DEF forge
  <2>2. /\ branch \in Commits \cup {Nothing} /\ changes \in Seq(Changes) /\ opens \in [Revisions -> Nat]
        /\ landed \subseteq Revisions
    BY DEF IInv, TypeOK
  <2>3. Len(changes) \in Nat BY <2>2
  <2>4. Contacted' BY <2>1, <2>2, Zenon DEF IInv, Contacted, RowsGrow
  <2>5. HoldPushed' BY <2>1 DEF IInv, HoldPushed
  <2> QED BY <2>1, <2>2, <2>3, <2>4, <2>5
<1>2. CASE task[t].pc \in Speaks /\ ForgeGains(t)
  <2>1. Rev(t) \in Revisions /\ row[Rev(t)].contacted
    BY <1>2, Zenon DEF IInv, Mem, Speaks
  <2>2. row'[Rev(t)].contacted BY <2>1 DEF RowsGrow
  <2>3. \A r \in landed' : row'[r].contacted
    BY <1>2, <2>2, Zenon DEF ForgeGains, IInv, Contacted, RowsGrow, TypeOK
  <2>4. \A r \in Revisions : opens'[r] > 0 => row'[r].contacted
    BY <1>2, <2>2, Zenon DEF ForgeGains, IInv, Contacted, RowsGrow
  <2>5. \A r \in Revisions, n \in DOMAIN changes' : changes'[n].notes[r] > 0 => row'[r].contacted
    BY <1>2, <2>2, Zenon DEF ForgeGains, IInv, Contacted, RowsGrow
  <2> QED BY <1>2, <2>3, <2>4, <2>5 DEF ForgeGains, Contacted
<1> QED BY <1>1, <1>2 DEF ForgeStep

\* A step of one request keeps the invariant if it keeps what that request, the
\* records and the review rest on.
LEMMA OneMoves ==
    ASSUME IInv, NEW t \in Tasks, RowsGrow(t), ForgeStep(t),
           \A u \in Tasks \ {t} : task'[u] = task[u],
           task' \in [Tasks -> Requests], task'[t].pc = "idle" => task'[t] = Idle,
           row' \in [Revisions -> Rows], latest' = latest, target' \in {target} \cup 0 .. Len(changes),
           review' \in {"claimed", "publishing", "approved"}, raced' \in BOOLEAN, raced => raced',
           review' = review \/ (raced' \/ \A u \in Tasks \ {t} : task[u].pc \notin Held),
           Mem(t)', RowsTrue', raced' \/ (Settled' /\ Alone(t)')
    PROVE  IInv'
<1>1. /\ Contacted' /\ HoldPushed' /\ landed \subseteq landed' /\ Len(changes) <= Len(changes')
      /\ changes \in Seq(Changes) /\ changes' \in Seq(Changes) /\ task \in [Tasks -> Requests]
  BY ForgeKeeps, Zenon DEF IInv, TypeOK
<1>2. ASSUME NEW u \in Tasks, u # t PROVE Mem(u)'
  <2>1. Mem(u) /\ task'[u] = task[u] /\ task[u] \in Requests BY <1>1, <1>2, Zenon DEF IInv
  <2>2. task[u].change \in Nat /\ task[u].was.change \in Nat BY <2>1, Zenon DEF Requests, Rows
  <2>3. Len(changes) \in Nat /\ Len(changes') \in Nat BY <1>1
  <2>4. task'[u].change <= Len(changes') /\ task'[u].was.change <= Len(changes')
    BY <1>1, <2>1, <2>2, <2>3 DEF Mem
  <2>5. task[u].pc \in Writes \cup Speaks \cup Sees => Rev(u) \in Revisions
    BY <2>1, Zenon DEF Mem, Writes, Speaks, Sees
  <2> QED BY <1>1, <2>1, <2>4, <2>5 DEF Mem, Rev, At, RowsGrow
<1>3. ASSUME ~raced', NEW u \in Tasks, u # t PROVE Alone(u)'
  <2>1. Alone(u) /\ Alone(t)' /\ task'[u] = task[u] BY <1>3, Zenon DEF IInv
  <2>2. CASE task[u].pc \notin Held
    BY <2>1, <2>2, Zenon DEF Alone, Sole, Fresh, At, Rev, Held, Knows
  <2>3. CASE task[u].pc \in Held
    <3>1. task[t].pc \notin Held /\ review = "publishing" /\ Rev(u) = latest
      BY <2>1, <2>3, <1>3, Zenon DEF Alone, Sole, Fresh
    <3>2. \A w \in Tasks \ {u} : task'[w].pc \notin Held
      BY <2>1, <2>3, <1>3, Zenon DEF Alone, Sole, Fresh
    <3>3. review' = review BY <1>3, <2>3, Zenon
    <3>4. Rev(u) \in Revisions BY <2>3, <1>3, Zenon DEF IInv, Mem, Held
    <3>5. row'[Rev(u)] = row[Rev(u)] BY <3>1, <3>4, Zenon DEF RowsGrow
    <3> QED BY <2>1, <3>1, <3>2, <3>3, <3>5 DEF Alone, Sole, Fresh, At, Rev
  <2> QED BY <2>2, <2>3, Zenon
<1>4. TypeOK'
  <2>1. /\ branch' \in Commits \cup {Nothing} /\ opens' \in [Revisions -> Nat] /\ landed' \subseteq Revisions
    BY ForgeKeeps, Zenon
  <2>2. target' \in InitialCommit .. Len(changes')
    <3>1. target \in InitialCommit .. Len(changes) /\ Len(changes) \in Nat /\ Len(changes') \in Nat
      BY <1>1 DEF IInv, TypeOK
    <3> QED BY <1>1, <3>1 DEF InitialCommit
  <2>3. latest' \in Revisions BY Zenon DEF IInv, TypeOK
  <2>4. \A r \in Revisions : row'[r].state = "none" => row'[r] = NoRow
    BY DEF IInv, TypeOK, RowsGrow
  <2>5. \A u \in Tasks : task'[u].pc = "idle" => task'[u] = Idle
    BY Zenon DEF IInv, TypeOK
  <2> QED BY <1>1, <2>1, <2>2, <2>3, <2>4, <2>5, Zenon DEF TypeOK
<1>5. (\A u \in Tasks : Mem(u))' BY <1>2, Zenon
<1>6. raced' \/ (Settled' /\ \A u \in Tasks : Alone(u)') BY <1>3, Zenon
<1> QED BY <1>1, <1>4, <1>5, <1>6, Zenon DEF IInv

-----------------------------------------------------------------------------
(* What an attempt brings the forge *)

\* What the types say of the forge.
LEMMA ForgeTyped ==
    ASSUME IInv
    PROVE  /\ branch \in Commits \cup {Nothing} /\ changes \in Seq(Changes) /\ Len(changes) \in Nat
           /\ opens \in [Revisions -> Nat] /\ landed \subseteq Revisions
           /\ \A n \in DOMAIN changes : changes[n] \in Changes
           /\ DOMAIN changes = 1 .. Len(changes)
BY DEF IInv, TypeOK

\* A push.
LEMMA LandsGains ==
    ASSUME IInv, NEW t \in Tasks, Rev(t) \in Revisions, Lands(Rev(t))
    PROVE  ForgeGains(t)
<1>1. branch' = Rev(t) /\ landed' = landed \cup {Rev(t)} /\ changes' = changes /\ opens' = opens
  BY DEF Lands
<1>2. Rev(t) \in Commits BY ConstAssumption DEF ConstAssumption, Revisions, Commits, Other
<1>3. HoldPushed' BY <1>1 DEF IInv, HoldPushed
<1> QED BY <1>1, <1>2, <1>3, ForgeTyped DEF ForgeGains

\* A change, opened by the node or by somebody else: it starts without comments.
LEMMA CreatedTyped ==
    ASSUME IInv, NEW x \in Texts \cup {NoText}, CanOpen, Created(x)
    PROVE  /\ changes' \in Seq(Changes) /\ Len(changes') = Len(changes) + 1
           /\ DOMAIN changes' = DOMAIN changes \cup {Len(changes) + 1}
           /\ \A n \in DOMAIN changes : changes'[n] = changes[n]
           /\ changes'[Len(changes) + 1].head = branch /\ branch # Nothing
           /\ changes'[Len(changes) + 1].status = "open"
           /\ \A r \in Revisions : changes'[Len(changes) + 1].notes[r] = 0
<1> DEFINE c == [status |-> "open", head |-> branch, text |-> x, notes |-> [r \in Revisions |-> 0]]
<1>1. changes' = Append(changes, c) BY DEF Created
<1>2. branch \in Commits /\ branch # Nothing BY ForgeTyped DEF CanOpen
<1>3. c \in Changes BY <1>2 DEF Changes
<1>4. c.head = branch /\ c.status = "open" /\ \A r \in Revisions : c.notes[r] = 0 OBVIOUS
<1> HIDE DEF c
<1>5. /\ changes' \in Seq(Changes) /\ Len(changes') = Len(changes) + 1
      /\ \A n \in 1 .. Len(changes) : changes'[n] = changes[n]
      /\ changes'[Len(changes) + 1] = c
  BY <1>1, <1>3, ForgeTyped
<1> QED BY <1>2, <1>4, <1>5, ForgeTyped

\* A change the node opens, whoever got the answer.
LEMMA OpensGains ==
    ASSUME IInv, NEW t \in Tasks, NEW x \in Texts \cup {NoText}, Rev(t) \in Revisions, CanOpen, Created(x),
           opens' = [opens EXCEPT ![Rev(t)] = @ + 1], UNCHANGED <<branch, landed>>
    PROVE  ForgeGains(t)
<1>1. opens' \in [Revisions -> Nat] /\ \A r \in Revisions \ {Rev(t)} : opens'[r] = opens[r]
  BY ForgeTyped
<1>2. \A r \in Revisions, n \in DOMAIN changes' :
            changes'[n].notes[r] > 0 => n \in DOMAIN changes /\ changes[n].notes[r] > 0
  BY CreatedTyped
<1>3. HoldPushed' BY CreatedTyped DEF IInv, HoldPushed
<1>4. changes' \in Seq(Changes) /\ Len(changes) <= Len(changes') BY CreatedTyped, ForgeTyped
<1> QED BY <1>1, <1>2, <1>3, <1>4, ForgeTyped, Zenon DEF ForgeGains

\* A description.
LEMMA EditGains ==
    ASSUME IInv, NEW t \in Tasks, NEW x \in Texts \cup {NoText}, NEW k, changes' = [changes EXCEPT ![k].text = x],
           UNCHANGED <<branch, opens, landed>>
    PROVE  ForgeGains(t)
<1>1. /\ changes' \in Seq(Changes) /\ Len(changes') = Len(changes) /\ DOMAIN changes' = DOMAIN changes
      /\ \A n \in DOMAIN changes : changes'[n].notes = changes[n].notes /\ changes'[n].head = changes[n].head
  <2>1. DOMAIN changes' = 1 .. Len(changes) BY ForgeTyped
  <2>2. ASSUME NEW n \in DOMAIN changes
        PROVE  /\ changes'[n] \in Changes
               /\ changes'[n].notes = changes[n].notes /\ changes'[n].head = changes[n].head
    <3>1. changes'[n] = IF n = k THEN [changes[n] EXCEPT !.text = x] ELSE changes[n] BY ForgeTyped
    <3>2. changes[n] \in Changes BY ForgeTyped
    <3>3. [changes[n] EXCEPT !.text = x] \in Changes BY <3>2 DEF Changes
    <3> QED BY <3>1, <3>2, <3>3, Zenon DEF Changes
  <2>3. changes' \in [1 .. Len(changes) -> Changes] BY <2>1, <2>2, ForgeTyped, Zenon
  <2>4. changes' \in Seq(Changes) /\ Len(changes') = Len(changes) BY <2>3, ForgeTyped
  <2> QED BY <2>1, <2>2, <2>4, ForgeTyped, Zenon
<1>2. HoldPushed' BY <1>1 DEF IInv, HoldPushed
<1> QED BY <1>1, <1>2, ForgeTyped DEF ForgeGains

\* A comment.
LEMMA NoteGains ==
    ASSUME IInv, NEW t \in Tasks, Rev(t) \in Revisions, NEW k, changes' = [changes EXCEPT ![k].notes[Rev(t)] = @ + 1],
           UNCHANGED <<branch, opens, landed>>
    PROVE  ForgeGains(t)
<1>1. /\ changes' \in Seq(Changes) /\ Len(changes') = Len(changes) /\ DOMAIN changes' = DOMAIN changes
      /\ \A n \in DOMAIN changes :
            /\ changes'[n].head = changes[n].head
            /\ \A r \in Revisions \ {Rev(t)} : changes'[n].notes[r] = changes[n].notes[r]
  <2>1. DOMAIN changes' = 1 .. Len(changes) BY ForgeTyped
  <2>2. ASSUME NEW n \in DOMAIN changes
        PROVE  /\ changes'[n] \in Changes /\ changes'[n].head = changes[n].head
               /\ \A r \in Revisions \ {Rev(t)} : changes'[n].notes[r] = changes[n].notes[r]
    <3> DEFINE ns == [changes[n].notes EXCEPT ![Rev(t)] = @ + 1]
    <3>1. changes'[n] = IF n = k THEN [changes[n] EXCEPT !.notes = ns] ELSE changes[n] BY ForgeTyped, Zenon
    <3>2. changes[n] \in Changes BY ForgeTyped, Zenon
    <3>3. changes[n].notes \in [Revisions -> Nat] BY <3>2 DEF Changes
    <3>4. ns \in [Revisions -> Nat] /\ \A r \in Revisions \ {Rev(t)} : ns[r] = changes[n].notes[r]
      BY <3>3
    <3> HIDE DEF ns
    <3>5. [changes[n] EXCEPT !.notes = ns] \in Changes BY <3>2, <3>4, Zenon DEF Changes
    <3> QED BY <3>1, <3>2, <3>4, <3>5, Zenon DEF Changes
  <2>3. changes' \in [1 .. Len(changes) -> Changes] BY <2>1, <2>2, ForgeTyped, Zenon
  <2>4. changes' \in Seq(Changes) /\ Len(changes') = Len(changes) BY <2>3, ForgeTyped
  <2> QED BY <2>1, <2>2, <2>4, ForgeTyped, Zenon
<1>2. HoldPushed' BY <1>1, Zenon DEF IInv, HoldPushed
<1> QED BY <1>1, <1>2, ForgeTyped DEF ForgeGains

-----------------------------------------------------------------------------
(* An attempt under way *)

Attempts == Writes \ {"settle"}

\* What an attempt under way has at hand.
LEMMA UnderWay ==
    ASSUME IInv, NEW t \in Tasks, task[t].pc # "idle"
    PROVE  /\ Rev(t) \in Revisions /\ task \in [Tasks -> Requests] /\ task[t] \in Requests
           /\ row \in [Revisions -> Rows] /\ row[Rev(t)] \in Rows
           /\ task[t].text \in Texts \cup {NoText}
           /\ task[t].change \in Nat /\ task[t].was \in Rows /\ task[t].was.change \in Nat
           /\ row[Rev(t)].change \in Nat /\ Len(changes) \in Nat
           /\ task[t].change <= Len(changes) /\ task[t].was.change <= Len(changes)
           /\ row[Rev(t)].change <= Len(changes)
           /\ Mem(t)
<1>1. Mem(t) /\ task \in [Tasks -> Requests] /\ row \in [Revisions -> Rows] BY DEF IInv, TypeOK
<1>2. Rev(t) \in Revisions BY <1>1, Zenon DEF Mem
<1>3. task[t] \in Requests /\ row[Rev(t)] \in Rows BY <1>1, <1>2
<1>4. row[Rev(t)].change <= Len(changes) BY <1>2 DEF IInv, RowsTrue
<1> QED BY <1>1, <1>2, <1>3, <1>4, ForgeTyped, Zenon DEF Mem, Requests, Rows

\* It goes on.
LEMMA GoesOn ==
    ASSUME IInv, NEW t \in Tasks, task[t].pc # "idle", NEW v \in Held, Goes(t, v)
    PROVE  /\ task' \in [Tasks -> Requests] /\ \A u \in Tasks \ {t} : task'[u] = task[u]
           /\ task'[t].pc = v /\ v # "idle"
           /\ task'[t].rev = task[t].rev /\ task'[t].text = task[t].text /\ task'[t].was = task[t].was
           /\ task'[t].resume = task[t].resume /\ task'[t].had = task[t].had
           /\ task'[t].change = task[t].change
<1>1. task \in [Tasks -> Requests] BY UnderWay, Zenon
<1>2. v \in Pcs BY DEF Pcs
<1>3. task' = [task EXCEPT ![t].pc = v] BY DEF Goes
<1>4. v # "idle" BY DEF Held
<1>5. /\ task' \in [Tasks -> Requests] /\ \A u \in Tasks \ {t} : task'[u] = task[u]
      /\ task'[t].pc = v
      /\ task'[t].rev = task[t].rev /\ task'[t].text = task[t].text /\ task'[t].was = task[t].was
      /\ task'[t].resume = task[t].resume /\ task'[t].had = task[t].had
      /\ task'[t].change = task[t].change
  BY <1>1, <1>2, <1>3, PcMoves
<1> QED BY <1>4, <1>5

\* It writes the state of its record.
LEMMA RecordSet ==
    ASSUME IInv, NEW t \in Tasks, task[t].pc # "idle", NEW s \in States, Set(Rev(t), s)
    PROVE  /\ row' \in [Revisions -> Rows] /\ \A q \in Revisions \ {Rev(t)} : row'[q] = row[q]
           /\ row'[Rev(t)].state = s /\ row'[Rev(t)].contacted = row[Rev(t)].contacted
           /\ row'[Rev(t)].pushed = row[Rev(t)].pushed /\ row'[Rev(t)].change = row[Rev(t)].change
<1>1. row \in [Revisions -> Rows] /\ Rev(t) \in Revisions BY UnderWay, Zenon
<1>2. row' = [row EXCEPT ![Rev(t)].state = s] BY DEF Set
<1> QED BY <1>1, <1>2, StateSet

\* An attempt that goes on, fails or leaves its outcome open, having written its own
\* record and nothing else of the node's, keeps the invariant.
LEMMA AttemptKeeps ==
    ASSUME IInv, NEW t \in Tasks, task[t].pc \in Held, ForgeStep(t),
           UNCHANGED <<review, latest, target, raced>>,
           row' \in [Revisions -> Rows], \A q \in Revisions \ {Rev(t)} : row'[q] = row[q],
           row[Rev(t)].contacted => row'[Rev(t)].contacted, row'[Rev(t)].state # "none",
           row'[Rev(t)].state = "opened" => Rev(t) \in landed', row'[Rev(t)].change <= Len(changes'),
           task' \in [Tasks -> Requests], \A u \in Tasks \ {t} : task'[u] = task[u],
           task'[t].pc = "idle" => task'[t] = Idle,
           task'[t].pc # "idle" => task'[t].rev = task[t].rev,
           Mem(t)', raced \/ Fresh(t)'
    PROVE  IInv'
<1>1. task[t].pc \in Held /\ task[t].pc # "idle" BY Zenon DEF Held
<1>2. /\ Rev(t) \in Revisions /\ row \in [Revisions -> Rows]
      /\ \A r \in Revisions : row[r].change \in Nat /\ row[r].change <= Len(changes)
  BY <1>1, UnderWay, Zenon DEF IInv, RowsTrue, Rows
<1>3. RowsGrow(t) BY <1>1, <1>2, Zenon DEF RowsGrow
<1>4. RowsTrue'
  <2>1. landed \subseteq landed' /\ Len(changes) <= Len(changes') /\ changes' \in Seq(Changes)
    BY <1>3, ForgeKeeps, Zenon
  <2>2. Len(changes) \in Nat /\ Len(changes') \in Nat BY <2>1, ForgeTyped
  <2>3. ASSUME NEW r \in Revisions
        PROVE  (row'[r].state = "opened" => r \in landed') /\ row'[r].change <= Len(changes')
    <3>1. CASE r = Rev(t) BY <3>1, Zenon
    <3>2. CASE r # Rev(t)
      <4>1. row'[r] = row[r] /\ row[r].change \in Nat /\ row[r].change <= Len(changes) BY <1>2, <3>2, Zenon
      <4> QED BY <2>1, <2>2, <4>1 DEF IInv, RowsTrue
    <3> QED BY <3>1, <3>2, Zenon
  <2> QED BY <2>3, Zenon DEF RowsTrue
<1>5. raced' \/ (Settled' /\ Alone(t)')
  <2>1. SUFFICES ASSUME ~raced PROVE Settled' /\ Sole(t)' BY Zenon DEF Alone
  <2>2. Sole(t) BY <2>1, Zenon DEF IInv, Alone
  <2>3. /\ review = "publishing" /\ Rev(t) = latest /\ \A u \in Tasks \ {t} : task[u].pc \notin Held
    BY <1>1, <2>2, Zenon DEF Sole
  <2>4. Settled' BY <2>3, Zenon DEF Settled
  <2>5. Sole(t)' BY <2>3, Zenon DEF Sole, Rev, Held
  <2> QED BY <2>4, <2>5, Zenon
<1>6. /\ review \in {"claimed", "publishing", "approved"} /\ raced \in BOOLEAN
  BY Zenon DEF IInv, TypeOK
<1> QED BY <1>3, <1>4, <1>5, <1>6, OneMoves, Zenon

\* An attempt that fails ...
LEMMA FailsKeeps ==
    ASSUME IInv, NEW t \in Tasks, task[t].pc \in Attempts, Fails(t), ForgeStep(t)
    PROVE  IInv'
<1>1. task[t].pc # "idle" /\ task[t].pc \in Held BY Zenon DEF Attempts, Writes, Held
<1>2. /\ Set(Rev(t), "failed") /\ Goes(t, "abort")
      /\ UNCHANGED <<review, latest, target, raced>>
  BY DEF Fails
<1>3. /\ row' \in [Revisions -> Rows] /\ \A q \in Revisions \ {Rev(t)} : row'[q] = row[q]
      /\ row'[Rev(t)].state = "failed" /\ row'[Rev(t)].contacted = row[Rev(t)].contacted
      /\ row'[Rev(t)].change = row[Rev(t)].change
  BY <1>1, <1>2, RecordSet, Zenon DEF States
<1>4. /\ task' \in [Tasks -> Requests] /\ \A u \in Tasks \ {t} : task'[u] = task[u]
      /\ task'[t].pc = "abort" /\ task'[t].rev = task[t].rev /\ task'[t].change = task[t].change
      /\ task'[t].was = task[t].was
  BY <1>1, <1>2, GoesOn, Zenon DEF Held
<1>5. RowsGrow(t) BY <1>1, <1>3, Zenon DEF RowsGrow, Attempts, Writes, Held
<1>6. Len(changes) <= Len(changes') /\ Len(changes') \in Nat
  <2>1. Len(changes) <= Len(changes') /\ changes' \in Seq(Changes) BY <1>5, ForgeKeeps
  <2> QED BY <2>1
<1>7. Mem(t)' BY <1>1, <1>4, <1>6, UnderWay DEF Mem, Rev, At, Writes, Speaks, Sees
<1>8. Fresh(t)' BY <1>4, Zenon DEF Fresh, At, Knows
<1>9. row'[Rev(t)].change <= Len(changes') BY <1>1, <1>3, <1>6, UnderWay
<1> QED BY <1>1, <1>2, <1>3, <1>4, <1>7, <1>8, <1>9, AttemptKeeps, Zenon

\* ... and one whose outcome stays open.
LEMMA UnknownKeeps ==
    ASSUME IInv, NEW t \in Tasks, task[t].pc \in Attempts, Unknown(t), ForgeStep(t)
    PROVE  IInv'
<1>1. task[t].pc # "idle" /\ task[t].pc \in Held BY Zenon DEF Attempts, Writes, Held
<1>2. /\ Set(Rev(t), "uncertain") /\ task' = [task EXCEPT ![t] = Idle]
      /\ UNCHANGED <<review, latest, target, raced>>
  BY DEF Unknown, Ends
<1>3. /\ row' \in [Revisions -> Rows] /\ \A q \in Revisions \ {Rev(t)} : row'[q] = row[q]
      /\ row'[Rev(t)].state = "uncertain" /\ row'[Rev(t)].contacted = row[Rev(t)].contacted
      /\ row'[Rev(t)].change = row[Rev(t)].change
  BY <1>1, <1>2, RecordSet, Zenon DEF States
<1>4. /\ task' \in [Tasks -> Requests] /\ \A u \in Tasks \ {t} : task'[u] = task[u]
      /\ task'[t] = Idle
  BY <1>1, <1>2, UnderWay, IdleTyped, Zenon
<1>5. RowsGrow(t) BY <1>1, <1>3, Zenon DEF RowsGrow, Attempts, Writes, Held
<1>6. Len(changes) <= Len(changes') /\ Len(changes') \in Nat
  <2>1. Len(changes) <= Len(changes') /\ changes' \in Seq(Changes) BY <1>5, ForgeKeeps
  <2> QED BY <2>1
<1>7. Mem(t)' BY <1>4, <1>6, IdleTyped DEF Mem, At, Writes, Speaks, Sees
<1>8. Fresh(t)' BY <1>4, IdleTyped, Zenon DEF Fresh, At, Knows
<1>9. row'[Rev(t)].change <= Len(changes') BY <1>1, <1>3, <1>6, UnderWay
<1>10. task'[t].pc = "idle" BY <1>4, IdleTyped, Zenon
<1> QED BY <1>1, <1>2, <1>3, <1>4, <1>7, <1>8, <1>9, <1>10, AttemptKeeps, Zenon

\* An attempt that goes on with its record as it was.
LEMMA StepKeeps ==
    ASSUME IInv, NEW t \in Tasks, task[t].pc \in Attempts, NEW v \in Attempts, Step(t, v), row' = row,
           ForgeStep(t), v \in Speaks => task[t].pc \in Speaks, v \in Sees => Rev(t) \in landed,
           v \in Knows => task[t].pc \in Knows, v = "push" => raced \/ ~row[Rev(t)].pushed
    PROVE  IInv'
<1>1. /\ task[t].pc # "idle" /\ task[t].pc \in Held /\ task[t].pc \in Writes
      /\ v \in Held /\ v \notin {"idle", "begin", "finish", "ask"}
  BY DEF Attempts, Writes, Held
<1>2. Goes(t, v) /\ UNCHANGED <<review, latest, target, raced>> BY Zenon DEF Step
<1>3. /\ task' \in [Tasks -> Requests] /\ \A u \in Tasks \ {t} : task'[u] = task[u]
      /\ task'[t].pc = v /\ task'[t].rev = task[t].rev /\ task'[t].was = task[t].was
      /\ task'[t].resume = task[t].resume /\ task'[t].had = task[t].had
      /\ task'[t].change = task[t].change
  BY <1>1, <1>2, GoesOn, Zenon
<1>4. /\ Rev(t) \in Revisions /\ row \in [Revisions -> Rows] /\ row[Rev(t)].state # "none"
      /\ task[t].pc \in Speaks => row[Rev(t)].contacted
  BY <1>1, UnderWay, Zenon DEF Mem
<1>5. RowsGrow(t) BY Zenon DEF RowsGrow
<1>6. landed \subseteq landed' /\ Len(changes) <= Len(changes') /\ changes' \in Seq(Changes)
  BY <1>5, ForgeKeeps, Zenon
<1>7. Len(changes') \in Nat BY <1>6
<1>8. Mem(t)'
  <2>1. task'[t].change <= Len(changes') /\ task'[t].was.change <= Len(changes')
    BY <1>1, <1>3, <1>6, <1>7, UnderWay
  <2> QED BY <1>1, <1>3, <1>4, <1>6, <2>1, Zenon DEF Mem, Rev, At
<1>9. raced \/ Fresh(t)'
  BY <1>1, <1>3, Zenon DEF IInv, Alone, Fresh, At, Rev
<1>10. row[Rev(t)].state = "opened" => Rev(t) \in landed'
  BY <1>4, <1>6, Zenon DEF IInv, RowsTrue
<1>11. row[Rev(t)].change <= Len(changes') BY <1>1, <1>6, <1>7, UnderWay
<1> QED BY <1>1, <1>2, <1>3, <1>4, <1>8, <1>9, <1>10, <1>11, AttemptKeeps, Zenon

\* publication_begin keeps what an earlier attempt observed.
LEMMA BeginKeeps ==
    ASSUME IInv, NEW t \in Tasks, Begin(t)
    PROVE  IInv'
<1>1. task[t].pc = "begin" /\ task[t].pc # "idle" /\ task[t].pc \in Held BY Zenon DEF Begin, At, Held
<1>2. /\ UNCHANGED <<review, latest, target, raced>> /\ UNCHANGED forge
  BY Zenon DEF Begin
<1> DEFINE b == Begun(Rev(t))
           m == [task[t] EXCEPT !.resume = MayHaveReached(task[t].was), !.had = row[Rev(t)].pushed,
                                !.was = NoRow, !.stale = "none", !.pc = "authorize"]
<1>3. b \in Rows /\ b.state = (IF row[Rev(t)].state = "opened" THEN "opened" ELSE "pending")
      /\ b.contacted = row[Rev(t)].contacted /\ b.pushed = row[Rev(t)].pushed
      /\ b.change = row[Rev(t)].change
  BY <1>1, UnderWay, Zenon DEF Begun, Rows, States
<1>4. /\ m \in Requests /\ m.pc = "authorize" /\ m.rev = task[t].rev /\ m.change = task[t].change
      /\ m.was = NoRow /\ m.had = row[Rev(t)].pushed /\ m.resume = MayHaveReached(task[t].was)
  <2>1. task[t] \in Requests /\ row[Rev(t)] \in Rows BY <1>1, UnderWay, Zenon
  <2>2. MayHaveReached(task[t].was) \in BOOLEAN BY Zenon DEF MayHaveReached
  <2>3. row[Rev(t)].pushed \in BOOLEAN BY <2>1, Zenon DEF Rows
  <2> QED BY <2>1, <2>2, <2>3, IdleTyped, Zenon DEF Requests, Held
<1>5. row' = [row EXCEPT ![Rev(t)] = b] /\ task' = [task EXCEPT ![t] = m]
  BY <1>1, UnderWay, Zenon DEF Begin
<1> HIDE DEF b, m
<1>6. /\ row' \in [Revisions -> Rows] /\ row'[Rev(t)] = b
      /\ \A q \in Revisions \ {Rev(t)} : row'[q] = row[q]
  BY <1>1, <1>3, <1>5, UnderWay, Zenon
<1>7. /\ task' \in [Tasks -> Requests] /\ task'[t] = m /\ \A u \in Tasks \ {t} : task'[u] = task[u]
  BY <1>1, <1>4, <1>5, UnderWay, Zenon
<1>8. changes' = changes /\ landed' = landed BY <1>2 DEF forge
<1>9. Mem(t)'
  <2>1. m.change <= Len(changes') /\ m.was.change <= Len(changes')
    BY <1>1, <1>4, <1>8, UnderWay, IdleTyped
  <2>2. Rev(t) \in Revisions /\ b.state # "none" BY <1>1, <1>3, UnderWay, Zenon
  <2> QED BY <1>4, <1>6, <1>7, <2>1, <2>2, Zenon DEF Mem, Rev, At, Speaks, Sees
<1>10. raced \/ Fresh(t)'
  <2>1. SUFFICES ASSUME ~raced, row[Rev(t)].pushed PROVE MayHaveReached(task[t].was)
    BY <1>3, <1>4, <1>6, <1>7, Zenon DEF Fresh, At, Rev
  <2>2. task[t].was = row[Rev(t)] BY <1>1, <2>1, Zenon DEF IInv, Alone, Fresh, At
  <2>3. ~NoRow.pushed BY Zenon DEF NoRow
  <2> QED BY <2>1, <2>2, <2>3, Zenon DEF MayHaveReached
<1>11. b.state = "opened" => Rev(t) \in landed' BY <1>1, <1>3, <1>8, UnderWay, Zenon DEF IInv, RowsTrue
<1>12. b.change <= Len(changes') /\ b.state # "none" BY <1>1, <1>3, <1>8, UnderWay, Zenon
<1>13. ForgeStep(t) BY <1>2, Zenon DEF ForgeStep
<1>14. task'[t].pc = "authorize" /\ task'[t].rev = task[t].rev BY <1>4, <1>7, Zenon
<1> QED BY <1>1, <1>2, <1>3, <1>6, <1>7, <1>9, <1>10, <1>11, <1>12, <1>13, <1>14, AttemptKeeps, Zenon

\* publication_authorized and contacting, before the attempt speaks to the forge.
LEMMA LocalKeeps ==
    ASSUME IInv, NEW t \in Tasks, Authorize(t) \/ Contact(t)
    PROVE  IInv'
<1>1. /\ task[t].pc \in Knows /\ task[t].pc # "idle" /\ task[t].pc \in Held /\ task[t].pc \in Writes
      /\ UNCHANGED <<review, latest, target, raced>> /\ UNCHANGED forge
  BY Zenon DEF Authorize, Contact, At, Knows, Held, Writes
<1>2. PICK v \in {"local", "change", "observe", "push"} :
        /\ Goes(t, v) /\ (v # "local" => task[t].pc = "local")
        /\ v = "push" => ~task[t].resume
  BY Zenon DEF Authorize, Contact, At, LooksAtBranch
<1>3. /\ task' \in [Tasks -> Requests] /\ \A u \in Tasks \ {t} : task'[u] = task[u]
      /\ task'[t].pc = v /\ v # "idle" /\ task'[t].rev = task[t].rev /\ task'[t].was = task[t].was
      /\ task'[t].resume = task[t].resume /\ task'[t].had = task[t].had
      /\ task'[t].change = task[t].change
  BY <1>1, <1>2, GoesOn, Zenon DEF Held
<1>4. /\ row' \in [Revisions -> Rows] /\ \A q \in Revisions \ {Rev(t)} : row'[q] = row[q]
      /\ row'[Rev(t)].state = row[Rev(t)].state /\ row'[Rev(t)].pushed = row[Rev(t)].pushed
      /\ row'[Rev(t)].change = row[Rev(t)].change
      /\ row[Rev(t)].contacted => row'[Rev(t)].contacted
      /\ v # "local" => row'[Rev(t)].contacted
  <2>1. CASE Authorize(t)
    <3> DEFINE b == [row[Rev(t)] EXCEPT !.text = task[t].text]
    <3>1. /\ b \in Rows /\ b.state = row[Rev(t)].state /\ b.pushed = row[Rev(t)].pushed
          /\ b.change = row[Rev(t)].change /\ b.contacted = row[Rev(t)].contacted
      BY <1>1, UnderWay, Zenon DEF Rows
    <3>2. row' = [row EXCEPT ![Rev(t)] = b] BY <2>1, <1>1, UnderWay, Zenon DEF Authorize
    <3> HIDE DEF b
    <3>3. task[t].pc # "local" BY <2>1 DEF Authorize, At
    <3> QED BY <1>1, <1>2, <3>1, <3>2, <3>3, UnderWay, Zenon
  <2>2. CASE Contact(t)
    <3> DEFINE b == [row[Rev(t)] EXCEPT !.contacted = TRUE]
    <3>1. /\ b \in Rows /\ b.state = row[Rev(t)].state /\ b.pushed = row[Rev(t)].pushed
          /\ b.change = row[Rev(t)].change /\ b.contacted
      BY <1>1, UnderWay, Zenon DEF Rows
    <3>2. row' = [row EXCEPT ![Rev(t)] = b] BY <2>2, <1>1, UnderWay, Zenon DEF Contact
    <3> HIDE DEF b
    <3> QED BY <1>1, <3>1, <3>2, UnderWay, Zenon
  <2> QED BY <2>1, <2>2, Zenon
<1>5. row[Rev(t)].state # "none" /\ Rev(t) \in Revisions BY <1>1, UnderWay, Zenon DEF Mem
<1>6. changes' = changes /\ landed' = landed BY <1>1, Zenon DEF forge
<1>7. Mem(t)'
  <2>1. task'[t].change <= Len(changes') /\ task'[t].was.change <= Len(changes')
    BY <1>1, <1>3, <1>6, UnderWay, Zenon
  <2> QED BY <1>2, <1>3, <1>4, <1>5, <2>1, Zenon DEF Mem, Rev, At, Speaks, Sees
<1>8. raced \/ Fresh(t)'
  <2>1. SUFFICES ASSUME ~raced PROVE Fresh(t)' OBVIOUS
  <2>2. row[Rev(t)].pushed => task[t].had /\ task[t].resume
    BY <1>1, <2>1, Zenon DEF IInv, Alone, Fresh
  <2> QED BY <1>2, <1>3, <1>4, <2>2, Zenon DEF Fresh, At, Rev
<1>9. row'[Rev(t)].state = "opened" => Rev(t) \in landed' BY <1>4, <1>5, <1>6, Zenon DEF IInv, RowsTrue
<1>10. row'[Rev(t)].change <= Len(changes') BY <1>1, <1>4, <1>6, UnderWay, Zenon
<1>11. ForgeStep(t) BY <1>1 DEF ForgeStep
<1> QED BY <1>1, <1>3, <1>4, <1>5, <1>7, <1>8, <1>9, <1>10, <1>11, AttemptKeeps, Zenon

\* A commit that is on the branch, or at the head of a change, was pushed there.
LEMMA SeenLanded ==
    ASSUME IInv, NEW r \in Revisions
    PROVE  (branch = r => r \in landed) /\ \A n \in DOMAIN changes : HeadOf(n) = r => r \in landed
<1>1. r # Nothing /\ r # Other
  BY ConstAssumption DEF ConstAssumption, Revisions, Nothing, Other
<1> QED BY <1>1 DEF IInv, HoldPushed, HeadOf

\* The commit is seen on the branch.
LEMMA PushedKeeps ==
    ASSUME IInv, NEW t \in Tasks, task[t].pc \in {"observe", "confirm"}, branch = Rev(t),
           Pushed(Rev(t)), Goes(t, "opening"), UNCHANGED <<review, latest, target, raced>>,
           UNCHANGED forge
    PROVE  IInv'
<1>1. task[t].pc # "idle" /\ task[t].pc \in Held /\ task[t].pc \in Speaks BY DEF Held, Speaks
<1>2. /\ task' \in [Tasks -> Requests] /\ \A u \in Tasks \ {t} : task'[u] = task[u]
      /\ task'[t].pc = "opening" /\ task'[t].rev = task[t].rev /\ task'[t].was = task[t].was
      /\ task'[t].change = task[t].change
  BY <1>1, GoesOn, Zenon DEF Held
<1> DEFINE b == [row[Rev(t)] EXCEPT !.state = "pushed", !.pushed = TRUE]
<1>3. /\ b \in Rows /\ b.state = "pushed" /\ b.change = row[Rev(t)].change
      /\ b.contacted = row[Rev(t)].contacted
  BY <1>1, UnderWay, Zenon DEF Rows, States
<1>4. row' = [row EXCEPT ![Rev(t)] = b] BY <1>1, UnderWay, Zenon DEF Pushed
<1> HIDE DEF b
<1>5. /\ row' \in [Revisions -> Rows] /\ \A q \in Revisions \ {Rev(t)} : row'[q] = row[q]
      /\ row'[Rev(t)] = b
  BY <1>1, <1>3, <1>4, UnderWay, Zenon
<1>6. Rev(t) \in Revisions /\ Rev(t) \in landed /\ row[Rev(t)].contacted
  BY <1>1, UnderWay, SeenLanded, Zenon DEF Mem
<1>7. changes' = changes /\ landed' = landed BY DEF forge
<1>8. Mem(t)' BY <1>1, <1>2, <1>3, <1>5, <1>6, <1>7, UnderWay, Zenon DEF Mem, Rev, At
<1>9. Fresh(t)' BY <1>2, Zenon DEF Fresh, At, Knows
<1>10. b.change <= Len(changes') BY <1>1, <1>3, <1>7, UnderWay, Zenon
<1>11. ForgeStep(t) BY DEF ForgeStep
<1> QED BY <1>1, <1>2, <1>3, <1>5, <1>6, <1>8, <1>9, <1>10, <1>11, AttemptKeeps, Zenon

\* Questions before the push, the push, and the look at what came of it.
LEMMA PushKeeps ==
    ASSUME IInv, NEW t \in Tasks,
           CheckChange(t) \/ Observe(t) \/ Push(t) \/ Confirm(t) \/ Refused(t) \/ Unanswered(t)
    PROVE  IInv'
<1> USE DEF Attempts, Writes
<1>0. UNCHANGED forge => ForgeStep(t) BY DEF ForgeStep
<1>1. CASE CheckChange(t)
  <2>1. task[t].pc = "change" /\ ForgeStep(t) BY <1>1, <1>0 DEF CheckChange, At
  <2>2. (Step(t, "observe") /\ row' = row) \/ Fails(t) BY <1>1 DEF CheckChange
  <2>3. CASE Step(t, "observe") /\ row' = row
    BY <2>1, <2>3, StepKeeps, Zenon DEF Speaks, Sees, Knows
  <2>4. CASE Fails(t) BY <2>1, <2>4, FailsKeeps, Zenon
  <2> QED BY <2>2, <2>3, <2>4
<1>2. CASE Observe(t)
  <2>1. task[t].pc = "observe" /\ ForgeStep(t) /\ UNCHANGED forge BY <1>2, <1>0, Zenon DEF Observe, At
  <2>2. CASE /\ branch = Rev(t) /\ Pushed(Rev(t)) /\ Goes(t, "opening")
             /\ UNCHANGED <<review, latest, target, intent, line, raced, requests, others>>
    BY <2>1, <2>2, PushedKeeps, Zenon
  <2>3. CASE MayPush(t, branch) /\ Step(t, "push") /\ UNCHANGED row
    <3>1. raced \/ ~row[Rev(t)].pushed
      BY <2>1, <2>3, Zenon DEF IInv, Alone, Fresh, Knows, MayPush
    <3> QED BY <2>1, <2>3, <3>1, StepKeeps, Zenon DEF Speaks, Sees, Knows
  <2>4. CASE Fails(t) BY <2>1, <2>4, FailsKeeps, Zenon
  <2> QED BY <1>2, <2>2, <2>3, <2>4, Zenon DEF Observe
<1>3. CASE Push(t)
  <2>1. task[t].pc = "push" /\ task[t].pc \in Speaks BY <1>3, Zenon DEF Push, At, Speaks
  <2>2. Rev(t) \in Revisions BY <2>1, UnderWay, Zenon
  <2>3. Lands(Rev(t)) => ForgeStep(t) BY <2>1, <2>2, LandsGains, Zenon DEF ForgeStep
  <2>4. CASE Step(t, "confirm") /\ row' = row /\ ForgeStep(t)
    BY <2>1, <2>4, StepKeeps, Zenon DEF Speaks, Sees, Knows
  <2>5. CASE Fails(t) /\ ForgeStep(t) BY <2>1, <2>5, FailsKeeps, Zenon
  <2> QED BY <1>0, <1>3, <2>3, <2>4, <2>5, Zenon DEF Push
<1>4. CASE Confirm(t)
  <2>1. task[t].pc = "confirm" /\ ForgeStep(t) /\ UNCHANGED forge BY <1>4, <1>0, Zenon DEF Confirm, At
  <2>2. CASE /\ branch = Rev(t) /\ Pushed(Rev(t)) /\ Goes(t, "opening")
             /\ UNCHANGED <<review, latest, target, intent, line, raced, requests, others>>
    BY <2>1, <2>2, PushedKeeps, Zenon
  <2>3. CASE Fails(t) BY <2>1, <2>3, FailsKeeps, Zenon
  <2> QED BY <1>4, <2>2, <2>3, Zenon DEF Confirm
<1>5. CASE Refused(t)
  <2>1. task[t].pc \in Attempts /\ ForgeStep(t) /\ Fails(t) BY <1>5, <1>0, Zenon DEF Refused
  <2> QED BY <2>1, FailsKeeps, Zenon
<1>6. CASE Unanswered(t)
  <2>1. task[t].pc \in Attempts /\ ForgeStep(t) /\ Unknown(t) BY <1>6, <1>0, Zenon DEF Unanswered
  <2> QED BY <2>1, UnknownKeeps, Zenon
<1> QED BY <1>1, <1>2, <1>3, <1>4, <1>5, <1>6

\* journal.opening, and where the attempt goes from there.
LEMMA OpeningKeeps ==
    ASSUME IInv, NEW t \in Tasks, Opening(t)
    PROVE  IInv'
<1>1. /\ task[t].pc = "opening" /\ task[t].pc # "idle" /\ task[t].pc \in Held /\ Set(Rev(t), "opening")
      /\ UNCHANGED <<review, latest, target, raced>> /\ UNCHANGED forge
  BY DEF Opening, At, Held
<1> DEFINE v == IF target = InitialCommit THEN "opened" ELSE IF IsUpdate THEN "edit"
                ELSE IF task[t].resume THEN "lookup" ELSE "open"
           k == IF IsUpdate THEN target ELSE 0
<1>2. v \in {"opened", "edit", "lookup", "open"} OBVIOUS
<1>3. k \in Nat /\ k <= Len(changes)
  <2>1. target \in InitialCommit .. Len(changes) /\ Len(changes) \in Nat
    BY ForgeTyped, Zenon DEF IInv, TypeOK
  <2> QED BY <2>1 DEF InitialCommit, IsUpdate, NewChange
<1>4. WithChange(task, task', t, v, k) BY DEF Opening, WithChange
<1> HIDE DEF v, k
<1>5. v \in Pcs /\ task \in [Tasks -> Requests] BY <1>1, <1>2, UnderWay, Zenon DEF Pcs, Held
<1>6. /\ task' \in [Tasks -> Requests] /\ \A u \in Tasks \ {t} : task'[u] = task[u]
      /\ task'[t].pc = v /\ task'[t].rev = task[t].rev /\ task'[t].was = task[t].was
      /\ task'[t].change = k
  BY <1>3, <1>4, <1>5, ChangeMoves
<1>7. /\ row' \in [Revisions -> Rows] /\ \A q \in Revisions \ {Rev(t)} : row'[q] = row[q]
      /\ row'[Rev(t)].state = "opening" /\ row'[Rev(t)].contacted = row[Rev(t)].contacted
      /\ row'[Rev(t)].change = row[Rev(t)].change
  BY <1>1, RecordSet, Zenon DEF States
<1>8. Rev(t) \in Revisions /\ row[Rev(t)].contacted /\ Rev(t) \in landed
  BY <1>1, UnderWay, Zenon DEF Mem, Speaks, Sees
<1>9. changes' = changes /\ landed' = landed BY <1>1 DEF forge
<1>10. Mem(t)'
  <2>1. task'[t].was.change <= Len(changes') BY <1>1, <1>6, <1>9, UnderWay, Zenon
  <2> QED BY <1>2, <1>3, <1>6, <1>7, <1>8, <1>9, <2>1, Zenon DEF Mem, Rev, At
<1>11. Fresh(t)' BY <1>2, <1>6, Zenon DEF Fresh, At, Knows
<1>12. row'[Rev(t)].change <= Len(changes') BY <1>1, <1>7, <1>9, UnderWay, Zenon
<1>13. ForgeStep(t) BY <1>1, Zenon DEF ForgeStep
<1>14. task'[t].pc # "idle" BY <1>2, <1>6
<1> QED BY <1>1, <1>6, <1>7, <1>8, <1>10, <1>11, <1>12, <1>13, <1>14, AttemptKeeps, Zenon

\* The attempt has its change: the one it found, or the one it opened.
LEMMA HasChange ==
    ASSUME IInv, NEW t \in Tasks, task[t].pc \in {"lookup", "open"}, ForgeStep(t), NEW k \in Nat,
           k <= Len(changes'), task' = [task EXCEPT ![t].pc = "comment", ![t].change = k],
           UNCHANGED <<review, latest, target, raced>>, row' = row
    PROVE  IInv'
<1>1. task[t].pc # "idle" /\ task[t].pc \in Held BY Zenon DEF Held
<1>2. "comment" \in Pcs /\ task \in [Tasks -> Requests] /\ WithChange(task, task', t, "comment", k)
  BY <1>1, UnderWay, Zenon DEF Pcs, Held, WithChange
<1>3. /\ task' \in [Tasks -> Requests] /\ \A u \in Tasks \ {t} : task'[u] = task[u]
      /\ task'[t].pc = "comment" /\ task'[t].rev = task[t].rev /\ task'[t].was = task[t].was
      /\ task'[t].change = k
  BY <1>2, ChangeMoves
<1>4. /\ Rev(t) \in Revisions /\ row \in [Revisions -> Rows] /\ row[Rev(t)].contacted /\ Rev(t) \in landed
      /\ row[Rev(t)].state # "none"
  BY <1>1, UnderWay, Zenon DEF Mem, Speaks, Sees, Writes
<1>5. landed \subseteq landed' /\ Len(changes) <= Len(changes') /\ Len(changes') \in Nat
  <2>1. RowsGrow(t) BY DEF RowsGrow
  <2>2. landed \subseteq landed' /\ Len(changes) <= Len(changes') /\ changes' \in Seq(Changes)
    BY <2>1, ForgeKeeps
  <2> QED BY <2>2
<1>6. Mem(t)'
  <2>1. task'[t].was.change <= Len(changes') BY <1>1, <1>3, <1>5, UnderWay
  <2> QED BY <1>3, <1>4, <1>5, <2>1, Zenon DEF Mem, Rev, At
<1>7. Fresh(t)' BY <1>3, Zenon DEF Fresh, At, Knows
<1>8. row[Rev(t)].change <= Len(changes') BY <1>1, <1>5, UnderWay
<1> QED BY <1>1, <1>3, <1>4, <1>5, <1>6, <1>7, <1>8, AttemptKeeps, Zenon

\* Looking for the change, opening it, describing it and commenting on it.
LEMMA ChangeKeeps ==
    ASSUME IInv, NEW t \in Tasks, Lookup(t) \/ Open(t) \/ Edit(t) \/ Comment(t)
    PROVE  IInv'
<1> USE DEF Attempts, Writes
<1>0. UNCHANGED forge => ForgeStep(t) BY DEF ForgeStep
<1>1. CASE Lookup(t)
  <2>1. task[t].pc = "lookup" /\ ForgeStep(t) /\ changes' = changes BY <1>1, <1>0, Zenon DEF Lookup, At, forge
  <2>2. Rev(t) \in landed BY <2>1, Zenon DEF IInv, Mem, Sees
  <2>3. CASE Step(t, "open") /\ row' = row
    BY <2>1, <2>2, <2>3, StepKeeps, Zenon DEF Speaks, Sees, Knows
  <2>4. ASSUME NEW k \in Ours(t), task' = [task EXCEPT ![t].pc = "comment", ![t].change = k],
               UNCHANGED <<review, latest, target, row, raced>>
        PROVE  IInv'
    <3>1. k \in DOMAIN changes BY DEF Ours, AtHead
    <3>2. k \in Nat /\ k <= Len(changes) BY <3>1, ForgeTyped
    <3> QED BY <2>1, <2>4, <3>2, HasChange, Zenon
  <2>5. CASE Unknown(t) BY <2>1, <2>5, UnknownKeeps, Zenon
  <2> QED BY <1>1, <2>3, <2>4, <2>5, Zenon DEF Lookup
<1>2. CASE Open(t)
  <2>1. task[t].pc = "open" /\ task[t].pc \in Speaks BY <1>2, Zenon DEF Open, At, Speaks
  <2>2. Rev(t) \in Revisions /\ task[t].text \in Texts \cup {NoText} BY <2>1, UnderWay, Zenon
  <2>3. CASE /\ CanOpen /\ Created(task[t].text) /\ opens' = [opens EXCEPT ![Rev(t)] = @ + 1]
             /\ \/ /\ task' = [task EXCEPT ![t].pc = "comment", ![t].change = Len(changes) + 1]
                   /\ UNCHANGED <<review, latest, target, intent, line, row, raced, requests, faults, others>>
                \/ Fault /\ (Fails(t) \/ Unknown(t))
             /\ UNCHANGED <<branch, landed>>
    <3>1. ForgeStep(t) BY <2>1, <2>2, <2>3, OpensGains, Zenon DEF ForgeStep
    <3>2. CASE /\ task' = [task EXCEPT ![t].pc = "comment", ![t].change = Len(changes) + 1]
               /\ UNCHANGED <<review, latest, target, intent, line, row, raced, requests, faults, others>>
      <4>1. Len(changes') = Len(changes) + 1 /\ Len(changes) \in Nat
        BY <2>2, <2>3, CreatedTyped, ForgeTyped, Zenon
      <4>2. Len(changes) + 1 \in Nat /\ Len(changes) + 1 <= Len(changes') BY <4>1
      <4> QED BY <2>1, <3>1, <3>2, <4>2, HasChange, Zenon
    <3>3. CASE Fails(t) BY <2>1, <3>1, <3>3, FailsKeeps, Zenon
    <3>4. CASE Unknown(t) BY <2>1, <3>1, <3>4, UnknownKeeps, Zenon
    <3> QED BY <2>3, <3>2, <3>3, <3>4, Zenon
  <2>4. CASE Fails(t) /\ UNCHANGED forge BY <1>0, <2>1, <2>4, FailsKeeps, Zenon
  <2>5. CASE Unknown(t) /\ UNCHANGED forge BY <1>0, <2>1, <2>5, UnknownKeeps, Zenon
  <2> QED BY <1>2, <2>3, <2>4, <2>5, Zenon DEF Open
<1>3. CASE Edit(t)
  <2>1. task[t].pc = "edit" /\ task[t].pc \in Speaks BY <1>3, Zenon DEF Edit, At, Speaks
  <2>2. Rev(t) \in landed /\ task[t].text \in Texts \cup {NoText}
    BY <2>1, UnderWay, Zenon DEF Mem, Sees
  <2>3. CASE /\ changes' = [changes EXCEPT ![task[t].change].text = task[t].text]
             /\ Step(t, "comment") /\ UNCHANGED <<row, branch, opens, landed, faults>>
    <3>1. ForgeStep(t) BY <2>1, <2>2, <2>3, EditGains, Zenon DEF ForgeStep
    <3> QED BY <2>1, <2>2, <2>3, <3>1, StepKeeps, Zenon DEF Speaks, Sees, Knows
  <2>4. CASE Fails(t) /\ UNCHANGED forge BY <1>0, <2>1, <2>4, FailsKeeps, Zenon
  <2>5. CASE Unknown(t) /\ UNCHANGED forge BY <1>0, <2>1, <2>5, UnknownKeeps, Zenon
  <2> QED BY <1>3, <2>3, <2>4, <2>5, Zenon DEF Edit
<1>4. CASE Comment(t)
  <2>1. task[t].pc = "comment" /\ task[t].pc \in Speaks BY <1>4, Zenon DEF Comment, At, Speaks
  <2>2. Rev(t) \in landed /\ Rev(t) \in Revisions BY <2>1, UnderWay, Zenon DEF Mem, Sees
  <2>3. CASE Step(t, "opened") /\ row' = row /\ ForgeStep(t)
    BY <2>1, <2>2, <2>3, StepKeeps, Zenon DEF Speaks, Sees, Knows
  <2>4. ASSUME changes' = [changes EXCEPT ![task[t].change].notes[Rev(t)] = @ + 1],
               UNCHANGED <<branch, opens, landed>>
        PROVE  ForgeStep(t)
    BY <2>1, <2>2, <2>4, NoteGains, Zenon DEF ForgeStep
  <2>5. CASE Fails(t) /\ ForgeStep(t) BY <2>1, <2>5, FailsKeeps, Zenon
  <2>6. CASE Unknown(t) /\ ForgeStep(t) BY <2>1, <2>6, UnknownKeeps, Zenon
  <2> QED BY <1>0, <1>4, <2>3, <2>4, <2>5, <2>6, Zenon DEF Comment
<1> QED BY <1>1, <1>2, <1>3, <1>4, Zenon

\* journal.opened: the record says where the change is.
LEMMA OpenedKeeps ==
    ASSUME IInv, NEW t \in Tasks, Opened(t)
    PROVE  IInv'
<1>1. /\ task[t].pc = "opened" /\ task[t].pc # "idle" /\ task[t].pc \in Held /\ Goes(t, "finish")
      /\ UNCHANGED <<review, latest, target, raced>> /\ UNCHANGED forge
  BY DEF Opened, At, Held
<1>2. /\ task' \in [Tasks -> Requests] /\ \A u \in Tasks \ {t} : task'[u] = task[u]
      /\ task'[t].pc = "finish" /\ task'[t].rev = task[t].rev /\ task'[t].was = task[t].was
      /\ task'[t].change = task[t].change
  BY <1>1, GoesOn, Zenon DEF Held
<1> DEFINE b == [row[Rev(t)] EXCEPT !.state = "opened", !.change = task[t].change]
<1>3. /\ b \in Rows /\ b.state = "opened" /\ b.contacted = row[Rev(t)].contacted
      /\ b.change = task[t].change
  BY <1>1, UnderWay, Zenon DEF Rows, States
<1>4. row' = [row EXCEPT ![Rev(t)] = b] BY <1>1, UnderWay, Zenon DEF Opened
<1> HIDE DEF b
<1>5. /\ row' \in [Revisions -> Rows] /\ row'[Rev(t)] = b
      /\ \A q \in Revisions \ {Rev(t)} : row'[q] = row[q]
  BY <1>1, <1>3, <1>4, UnderWay, Zenon
<1>6. Rev(t) \in Revisions /\ Rev(t) \in landed BY <1>1, UnderWay, Zenon DEF Mem, Sees
<1>7. changes' = changes /\ landed' = landed BY <1>1 DEF forge
<1>8. Mem(t)' BY <1>1, <1>2, <1>6, <1>7, UnderWay, Zenon DEF Mem, Rev, At, Writes, Speaks, Sees
<1>9. Fresh(t)' BY <1>2, <1>3, <1>5, Zenon DEF Fresh, At, Rev, Knows
<1>10. b.change <= Len(changes') BY <1>1, <1>3, <1>7, UnderWay, Zenon
<1>11. ForgeStep(t) BY <1>1, Zenon DEF ForgeStep
<1> QED BY <1>1, <1>2, <1>3, <1>5, <1>6, <1>7, <1>8, <1>9, <1>10, <1>11, AttemptKeeps, Zenon

-----------------------------------------------------------------------------
(* The ends of a request *)

\* A request that ends remembers nothing.
LEMMA Ended ==
    ASSUME IInv, NEW t \in Tasks, Ends(t)
    PROVE  /\ task' \in [Tasks -> Requests] /\ \A u \in Tasks \ {t} : task'[u] = task[u]
           /\ task'[t] = Idle /\ task'[t].pc = "idle"
           /\ Alone(t)' /\ (changes' = changes => Mem(t)')
<1>1. task \in [Tasks -> Requests] BY Zenon DEF IInv, TypeOK
<1>2. task' = [task EXCEPT ![t] = Idle] BY Zenon DEF Ends
<1>3. /\ task' \in [Tasks -> Requests] /\ \A u \in Tasks \ {t} : task'[u] = task[u]
      /\ task'[t] = Idle
  BY <1>1, <1>2, IdleTyped
<1>4. task'[t].pc = "idle" BY <1>3, IdleTyped
<1>5. Alone(t)' BY <1>4 DEF Alone, Sole, Fresh, Held, Knows, At
<1>6. ASSUME changes' = changes PROVE Mem(t)'
  BY <1>3, <1>4, <1>6, IdleTyped, ForgeTyped DEF Mem, At, Writes, Speaks, Sees
<1> QED BY <1>3, <1>4, <1>5, <1>6, Zenon

\* finish_publish and abort_publish settle the claim.
LEMMA SettledKeeps ==
    ASSUME IInv, NEW t \in Tasks, Finish(t) \/ Abort(t)
    PROVE  IInv'
<1>1. /\ task[t].pc \in {"finish", "abort"} /\ task[t].pc # "idle" /\ task[t].pc \in Held /\ Ends(t)
      /\ UNCHANGED <<latest, row, raced>> /\ UNCHANGED forge
  BY Zenon DEF Finish, Abort, At, Held
<1>2. RowsGrow(t) /\ ForgeStep(t) BY <1>1, Zenon DEF RowsGrow, ForgeStep
<1>3. changes' = changes /\ landed' = landed BY <1>1, Zenon DEF forge
<1>4. /\ review \in {"claimed", "publishing", "approved"} /\ raced \in BOOLEAN
      /\ row \in [Revisions -> Rows] /\ RowsTrue
  BY Zenon DEF IInv, TypeOK
<1>5. /\ review' \in {"claimed", "publishing", "approved"}
      /\ review' = "approved" => review = "approved" \/ (review = "publishing" /\ task[t].pc = "finish")
  BY <1>4, Zenon DEF Finish, Abort, At
<1>6. target' \in {target} \cup 0 .. Len(changes)
  BY <1>1, UnderWay DEF Finish, Abort
<1>7. RowsTrue' BY <1>1, <1>3, <1>4, Zenon DEF RowsTrue
<1>8. raced \/ (Settled' /\ \A u \in Tasks \ {t} : task[u].pc \notin Held)
  <2>1. SUFFICES ASSUME ~raced PROVE Settled' /\ \A u \in Tasks \ {t} : task[u].pc \notin Held
    BY Zenon
  <2>2. Sole(t) /\ Fresh(t) /\ Settled BY <2>1 DEF IInv, Alone
  <2>3. Rev(t) = latest /\ \A u \in Tasks \ {t} : task[u].pc \notin Held BY <1>1, <2>2, Zenon DEF Sole
  <2>4. task[t].pc = "finish" => row[latest].state = "opened" BY <2>2, <2>3, Zenon DEF Fresh, At
  <2> QED BY <1>1, <1>5, <2>2, <2>3, <2>4, Zenon DEF Settled
<1>9. /\ task' \in [Tasks -> Requests] /\ \A u \in Tasks \ {t} : task'[u] = task[u]
      /\ task'[t] = Idle /\ Alone(t)' /\ Mem(t)'
  BY <1>1, <1>3, Ended, Zenon
<1> QED BY <1>1, <1>2, <1>4, <1>5, <1>6, <1>7, <1>8, <1>9, OneMoves, Zenon

-----------------------------------------------------------------------------
(* A request before its claim *)

\* A request that holds no claim changes nothing but itself.
LEMMA WaitKeeps ==
    ASSUME IInv, NEW t \in Tasks, UNCHANGED <<review, latest, target, row, raced>>, UNCHANGED forge,
           task' \in [Tasks -> Requests], \A u \in Tasks \ {t} : task'[u] = task[u],
           task'[t].pc \in Waiting \/ task'[t] = Idle, Mem(t)'
    PROVE  IInv'
<1>1. task'[t].pc \notin Held /\ (task'[t].pc = "idle" => task'[t] = Idle)
  BY IdleTyped, Zenon DEF Waiting, Held
<1>2. RowsGrow(t) /\ ForgeStep(t) BY Zenon DEF RowsGrow, ForgeStep
<1>3. /\ review \in {"claimed", "publishing", "approved"} /\ raced \in BOOLEAN
      /\ row \in [Revisions -> Rows] /\ RowsTrue
  BY Zenon DEF IInv, TypeOK
<1>4. RowsTrue' BY <1>3, Zenon DEF RowsTrue, forge
<1>5. Alone(t)' BY <1>1, Zenon DEF Alone, Sole, Fresh, Held, Knows, At
<1>6. raced \/ Settled' BY Zenon DEF IInv, Settled
<1> QED BY <1>1, <1>2, <1>3, <1>4, <1>5, <1>6, OneMoves, Zenon

\* An approval, a retry or a settlement is asked for.
LEMMA AsksKeeps ==
    ASSUME IInv, NEW t \in Tasks, NEW how \in {"approve", "recover", "reconcile"}, NEW r \in Revisions,
           NEW x \in Texts \cup {NoText}, NEW n \in 0 .. Len(changes), how = "reconcile" => n # 0,
           Asks(t, how, r, x, n)
    PROVE  IInv'
<1> DEFINE v == IF how = "reconcile" THEN "ask" ELSE "look"
           m == [Idle EXCEPT !.pc = v, !.how = how, !.rev = r, !.text = x, !.stale = review, !.change = n]
<1>1. task' = [task EXCEPT ![t] = m] BY Zenon DEF Asks
<1>2. /\ UNCHANGED <<review, latest, target, row, raced>> /\ UNCHANGED forge BY DEF Asks
<1>3. v \in {"ask", "look"} /\ (v = "ask" => n # 0) BY Zenon
<1> HIDE DEF v
<1>4. n \in Nat /\ n <= Len(changes) /\ Len(changes) \in Nat BY ForgeTyped
<1>5. /\ m \in Requests /\ m.pc = v /\ m.rev = r /\ m.was = NoRow /\ m.change = n
  <2>1. review \in {"claimed", "publishing", "approved"} BY Zenon DEF IInv, TypeOK
  <2>2. r \in 0 .. MaxRevisions BY ConstAssumption DEF Revisions, ConstAssumption
  <2>3. v \in {"idle"} \cup Held \cup Waiting BY <1>3, Zenon DEF Waiting
  <2>4. Idle \in Requests /\ Idle.was = NoRow BY IdleTyped, Zenon DEF Idle
  <2>5. how \in {"none", "approve", "recover", "reconcile"} BY Zenon
  <2>6. review \in {"none", "claimed", "publishing", "approved"} BY <2>1, Zenon
  <2>7. m.pc = v /\ m.rev = r /\ m.was = NoRow /\ m.change = n BY <2>4 DEF Requests
  <2>8. m \in Requests BY <1>4, <2>2, <2>3, <2>4, <2>5, <2>6, ZenonT(40) DEF Requests
  <2> QED BY <2>7, <2>8
<1> HIDE DEF m
<1>6. task \in [Tasks -> Requests] BY Zenon DEF IInv, TypeOK
<1>7. task' \in [Tasks -> Requests] /\ task'[t] = m /\ \A u \in Tasks \ {t} : task'[u] = task[u]
  BY <1>1, <1>5, <1>6, Zenon
<1>8. changes' = changes BY <1>2, Zenon DEF forge
<1>9. Mem(t)' BY <1>3, <1>4, <1>5, <1>7, <1>8, IdleTyped DEF Mem, Rev, At, Writes, Speaks, Sees
<1>10. task'[t].pc \in Waiting BY <1>3, <1>5, <1>7, Zenon DEF Waiting
<1> QED BY <1>2, <1>7, <1>9, <1>10, WaitKeeps, Zenon

\* A request that ends before its claim.
LEMMA GivesUp ==
    ASSUME IInv, NEW t \in Tasks, Ends(t), UNCHANGED <<review, latest, target, row, raced>>, UNCHANGED forge
    PROVE  IInv'
<1>1. changes' = changes BY Zenon DEF forge
<1> QED BY <1>1, Ended, WaitKeeps, Zenon

\* The record is read, the forge asked, and the record read again.
LEMMA ReadsKeeps ==
    ASSUME IInv, NEW t \in Tasks, Look(t) \/ Ask(t) \/ Recheck(t)
    PROVE  IInv'
<1>1. /\ task[t].pc \in {"look", "ask", "recheck"} /\ task[t].pc # "idle"
      /\ UNCHANGED <<review, latest, target, row, raced>> /\ UNCHANGED forge
  BY Zenon DEF Look, Ask, Recheck, At
<1>2. changes' = changes /\ landed' = landed BY <1>1, Zenon DEF forge
<1>3. CASE Ends(t) BY <1>1, <1>3, GivesUp, Zenon
<1>4. CASE Ask(t) /\ ~Ends(t)
  <2>1. task[t].pc = "ask" /\ Goes(t, "recheck") /\ HeadOf(task[t].change) = Rev(t)
    BY <1>4, Zenon DEF Ask, At
  <2>2. task[t].change \in DOMAIN changes
    <3>1. task[t].change \in Nat /\ task[t].change <= Len(changes) /\ task[t].change # 0
      BY <1>1, <2>1, UnderWay, Zenon DEF Mem, At
    <3> QED BY <3>1, ForgeTyped
  <2>3. Rev(t) \in Revisions /\ Rev(t) \in landed BY <1>1, <2>1, <2>2, UnderWay, SeenLanded, Zenon
  <2>4. task \in [Tasks -> Requests] /\ "recheck" \in Pcs BY <1>1, UnderWay, Zenon DEF Pcs, Waiting
  <2>5. task' = [task EXCEPT ![t].pc = "recheck"] BY <2>1, Zenon DEF Goes
  <2>6. /\ task' \in [Tasks -> Requests] /\ \A u \in Tasks \ {t} : task'[u] = task[u]
        /\ task'[t].pc = "recheck" /\ task'[t].rev = task[t].rev /\ task'[t].was = task[t].was
        /\ task'[t].change = task[t].change
    BY <2>4, <2>5, PcMoves
  <2>7. Mem(t)' BY <1>1, <1>2, <2>3, <2>6, UnderWay, Zenon DEF Mem, Rev, At, Writes, Speaks
  <2>8. task'[t].pc \in Waiting BY <2>6, Zenon DEF Waiting
  <2> QED BY <1>1, <2>6, <2>7, <2>8, WaitKeeps, Zenon
<1>5. CASE (Look(t) \/ Recheck(t)) /\ ~Ends(t)
  <2>1. PICK v \in {"claim", "settle"} :
          /\ WithReading(task, task', t, v, row[Rev(t)])
          /\ v = "settle" => task[t].pc = "recheck" /\ Unsettled(Rev(t))
    BY <1>5, Zenon DEF Look, Recheck, At, WithReading
  <2>2. v \in Pcs /\ task \in [Tasks -> Requests] /\ row[Rev(t)] \in Rows
    BY <1>1, UnderWay, Zenon DEF Pcs, Waiting
  <2>3. /\ task' \in [Tasks -> Requests] /\ \A u \in Tasks \ {t} : task'[u] = task[u]
        /\ task'[t].pc = v /\ task'[t].rev = task[t].rev /\ task'[t].was = row[Rev(t)]
        /\ task'[t].change = task[t].change
    BY <2>1, <2>2, ReadMoves
  <2>4. v = "settle" => row[Rev(t)].state # "none" /\ Rev(t) \in landed
    <3>1. SUFFICES ASSUME v = "settle" PROVE row[Rev(t)].state # "none" /\ Rev(t) \in landed BY Zenon
    <3>2. row[Rev(t)] # NoRow BY <2>1, <3>1, Zenon DEF Unsettled
    <3>3. Rev(t) \in Revisions BY <1>1, UnderWay, Zenon
    <3>4. row[Rev(t)].state # "none" BY <3>2, <3>3, Zenon DEF IInv, TypeOK
    <3>5. Rev(t) \in landed BY <2>1, <3>1, Zenon DEF IInv, Mem, Sees
    <3> QED BY <3>4, <3>5, Zenon
  <2>5. Mem(t)'
    <3>1. /\ Rev(t) \in Revisions /\ task'[t].change <= Len(changes') /\ task'[t].was.change <= Len(changes')
          /\ landed' = landed /\ row' = row
      BY <1>1, <1>2, <2>3, UnderWay, Zenon
    <3> QED BY <2>3, <2>4, <3>1, Zenon DEF Mem, Rev, At, Writes, Speaks, Sees
  <2>6. task'[t].pc \in Waiting BY <2>3, Zenon DEF Waiting
  <2> QED BY <1>1, <2>3, <2>5, <2>6, WaitKeeps, Zenon
<1> QED BY <1>3, <1>4, <1>5

\* The claim, of an approval, a retry or a settlement.
LEMMA ClaimKeeps ==
    ASSUME IInv, NEW t \in Tasks, Claim(t) \/ Settle(t)
    PROVE  IInv'
<1>1. /\ task[t].pc \in {"claim", "settle"} /\ task[t].pc # "idle"
      /\ UNCHANGED <<latest, target, row>> /\ UNCHANGED forge
  BY Zenon DEF Claim, Settle, At
<1>2. changes' = changes /\ landed' = landed BY <1>1 DEF forge
<1>3. CASE Ends(t) /\ UNCHANGED <<review, raced>> BY <1>1, <1>3, GivesUp
<1>4. ASSUME review' = "publishing", raced' = (raced \/ Races(t)), latest = Rev(t),
             task' \in [Tasks -> Requests], \A u \in Tasks \ {t} : task'[u] = task[u],
             task'[t].pc \in {"begin", "finish", "opened"}, task'[t].rev = task[t].rev,
             task'[t].change <= Len(changes), task'[t].was.change <= Len(changes),
             task'[t].pc = "opened" => task[t].pc = "settle",
             task'[t].pc = "begin" => task'[t].was = task[t].was,
             task'[t].pc = "finish" => task[t].was.state = "opened"
      PROVE  IInv'
  <2>1. RowsGrow(t) /\ ForgeStep(t) BY <1>1, Zenon DEF RowsGrow, ForgeStep
  <2>2. row \in [Revisions -> Rows] /\ RowsTrue /\ raced \in BOOLEAN BY Zenon DEF IInv, TypeOK
  <2>3. RowsTrue' BY <1>1, <1>2, <2>2, Zenon DEF RowsTrue
  <2>4. Rev(t) \in Revisions /\ (task'[t].pc = "opened" => row[Rev(t)].state # "none" /\ Rev(t) \in landed)
    BY <1>1, <1>4, UnderWay, Zenon DEF Mem, Writes, Sees
  <2>5. Mem(t)' BY <1>1, <1>2, <1>4, <2>4, Zenon DEF Mem, Rev, At, Writes, Speaks, Sees
  <2>6. raced' \in BOOLEAN /\ (raced => raced') /\ (~raced' => ~raced /\ ~Races(t))
    BY <1>4, <2>2, Zenon DEF Races
  <2>7. ~Races(t) => (\A u \in Tasks \ {t} : task[u].pc \notin Held) /\ row[Rev(t)] = task[t].was
    BY Zenon DEF Races
  <2>8. ASSUME ~raced' PROVE Settled' /\ Alone(t)'
    <3>1. (\A u \in Tasks \ {t} : task[u].pc \notin Held) /\ row[Rev(t)] = task[t].was
      BY <2>6, <2>7, <2>8, Zenon
    <3>2. Settled' BY <1>4, Zenon DEF Settled
    <3>3. Sole(t)' BY <1>1, <1>4, <3>1, Zenon DEF Sole, Rev
    <3>4. Fresh(t)' BY <1>1, <1>4, <3>1, Zenon DEF Fresh, At, Rev, Knows
    <3> QED BY <3>2, <3>3, <3>4, Zenon DEF Alone
  <2>9. raced' \/ \A u \in Tasks \ {t} : task[u].pc \notin Held BY <2>6, <2>7, Zenon
  <2>10. task'[t].pc # "idle" /\ review' \in {"claimed", "publishing", "approved"} BY <1>4, Zenon
  <2> QED BY <1>1, <1>4, <2>1, <2>2, <2>3, <2>5, <2>6, <2>8, <2>9, <2>10, OneMoves, Zenon
<1>5. CASE Claim(t) /\ Claims(t)
  <2>1. /\ task[t].pc = "claim" /\ review' = "publishing" /\ raced' = (raced \/ Races(t)) /\ latest = Rev(t)
    BY <1>5, Zenon DEF Claim, Claims, At, BeginPublish, ReclaimPublish
  <2>2. task \in [Tasks -> Requests] /\ "finish" \in Pcs /\ "begin" \in Pcs /\ task[t].was.change \in Nat
    BY <1>1, UnderWay, Zenon DEF Pcs, Held
  <2>3. CASE AlreadyOpened(task[t].was)
    <3>1. WithChange(task, task', t, "finish", task[t].was.change) BY <1>5, <2>3, Zenon DEF Claim, WithChange
    <3>2. /\ task' \in [Tasks -> Requests] /\ \A u \in Tasks \ {t} : task'[u] = task[u]
          /\ task'[t].pc = "finish" /\ task'[t].rev = task[t].rev /\ task'[t].was = task[t].was
          /\ task'[t].change = task[t].was.change
      BY <2>2, <3>1, ChangeMoves
    <3>3. task[t].was.state = "opened" BY <2>3 DEF AlreadyOpened
    <3> QED BY <1>1, <1>4, <2>1, <3>2, <3>3, UnderWay, Zenon
  <2>4. CASE ~AlreadyOpened(task[t].was)
    <3>1. task' = [task EXCEPT ![t].pc = "begin"] BY <1>5, <2>4, Zenon DEF Claim, Goes
    <3>2. /\ task' \in [Tasks -> Requests] /\ \A u \in Tasks \ {t} : task'[u] = task[u]
          /\ task'[t].pc = "begin" /\ task'[t].rev = task[t].rev /\ task'[t].was = task[t].was
          /\ task'[t].change = task[t].change
      BY <2>2, <3>1, PcMoves
    <3> QED BY <1>1, <1>4, <2>1, <3>2, UnderWay, Zenon
  <2> QED BY <2>3, <2>4, Zenon
<1>6. CASE Settle(t) /\ ~(Ends(t) /\ UNCHANGED <<review, raced>>)
  <2>1. /\ task[t].pc = "settle" /\ review' = "publishing" /\ raced' = (raced \/ Races(t)) /\ latest = Rev(t)
        /\ WithReading(task, task', t, "opened", NoRow)
    BY <1>6, Zenon DEF Settle, At, BeginPublish, ReclaimPublish, WithReading
  <2>2. task \in [Tasks -> Requests] /\ "opened" \in Pcs /\ NoRow \in Rows
    BY <1>1, UnderWay, IdleTyped, Zenon DEF Pcs, Held
  <2>3. /\ task' \in [Tasks -> Requests] /\ \A u \in Tasks \ {t} : task'[u] = task[u]
        /\ task'[t].pc = "opened" /\ task'[t].rev = task[t].rev /\ task'[t].was = NoRow
        /\ task'[t].change = task[t].change
    BY <2>1, <2>2, ReadMoves, SMTT(40)
  <2>4. task'[t].change <= Len(changes) /\ task'[t].was.change <= Len(changes)
    BY <1>1, <2>3, UnderWay, IdleTyped
  <2> QED BY <1>1, <1>4, <2>1, <2>3, <2>4, Zenon
<1> QED BY <1>3, <1>5, <1>6, Zenon DEF Claim

-----------------------------------------------------------------------------
(* Revisions, restarts and others *)

\* A revision is submitted while nobody holds the claim.
LEMMA SubmitKeeps ==
    ASSUME IInv, NEW to \in {target} \cup DOMAIN changes, NEW onto, NEW rewrite, Submit(to, onto, rewrite)
    PROVE  IInv'
<1>1. /\ latest < MaxRevisions /\ latest' = latest + 1 /\ review \in {"claimed", "approved"}
      /\ review' = "claimed" /\ target' = to /\ UNCHANGED <<row, task, raced>> /\ UNCHANGED forge
  BY Zenon DEF Submit
<1>2. branch' = branch /\ changes' = changes /\ opens' = opens /\ landed' = landed BY <1>1 DEF forge
<1>3. latest' \in Revisions
  BY <1>1, ConstAssumption DEF IInv, TypeOK, Revisions, ConstAssumption
<1>4. target' \in InitialCommit .. Len(changes)
  <2>1. target \in InitialCommit .. Len(changes) BY Zenon DEF IInv, TypeOK
  <2> QED BY <1>1, <2>1, ForgeTyped DEF InitialCommit
<1>5. TypeOK' BY <1>1, <1>2, <1>3, <1>4, Zenon DEF IInv, TypeOK
<1>6. (\A t \in Tasks : Mem(t))' BY <1>1, <1>2, Zenon DEF IInv, Mem, Rev, At
<1>7. Contacted' /\ HoldPushed' /\ RowsTrue'
  BY <1>1, <1>2, Zenon DEF IInv, Contacted, HoldPushed, RowsTrue
<1>8. raced \/ (Settled' /\ (\A t \in Tasks : Alone(t))')
  <2>1. Settled' BY <1>1, Zenon DEF Settled
  <2>2. ASSUME ~raced, NEW t \in Tasks PROVE Alone(t)'
    <3>1. Alone(t) BY <2>2 DEF IInv
    <3>2. task[t].pc \notin Held BY <1>1, <3>1 DEF Alone, Sole
    <3> QED BY <1>1, <3>2, Zenon DEF Alone, Sole, Fresh, Held, Knows, At
  <2> QED BY <2>1, <2>2
<1> QED BY <1>1, <1>5, <1>6, <1>7, <1>8, Zenon DEF IInv

\* A start forgets the requests and keeps what the records say.
LEMMA RestartKeeps ==
    ASSUME IInv, Restart
    PROVE  IInv'
<1>1. /\ task' = [t \in Tasks |-> Idle] /\ row' = [r \in Revisions |-> Relabelled(row[r])]
      /\ review' \in {review, "claimed"} /\ UNCHANGED <<latest, target, raced>> /\ UNCHANGED forge
  BY DEF Restart
<1>2. branch' = branch /\ changes' = changes /\ opens' = opens /\ landed' = landed BY <1>1 DEF forge
<1>3. ASSUME NEW r \in Revisions
      PROVE  /\ row'[r] \in Rows /\ (row'[r].state = "none" => row'[r] = NoRow)
             /\ row'[r].contacted = row[r].contacted /\ row'[r].change = row[r].change
             /\ row'[r].state = "opened" <=> row[r].state = "opened"
  <2>1. row[r] \in Rows /\ (row[r].state = "none" => row[r] = NoRow) BY Zenon DEF IInv, TypeOK
  <2>2. row'[r] = Relabelled(row[r]) BY <1>1
  <2>3. CASE row[r] = NoRow BY <2>1, <2>2, <2>3 DEF Relabelled
  <2>4. CASE row[r] # NoRow
    <3>1. row'[r] = [row[r] EXCEPT !.mine = FALSE,
                        !.state = IF @ \in {"pending", "opening"} THEN "uncertain" ELSE @]
      BY <2>2, <2>4 DEF Relabelled
    <3> QED BY <2>1, <2>4, <3>1, Zenon DEF Rows, States
  <2> QED BY <2>3, <2>4, Zenon
<1>4. row' \in [Revisions -> Rows] BY <1>1, <1>3, Zenon
<1>5. task' \in [Tasks -> Requests] /\ \A t \in Tasks : task'[t] = Idle /\ task'[t].pc = "idle"
  BY <1>1, IdleTyped, Zenon
<1>6. review' \in {"claimed", "publishing", "approved"} BY <1>1, Zenon DEF IInv, TypeOK
<1>7. TypeOK' BY <1>1, <1>2, <1>3, <1>4, <1>5, <1>6, Zenon DEF IInv, TypeOK
<1>8. (\A t \in Tasks : Mem(t))'
  <2>1. Idle.change <= Len(changes') /\ Idle.was.change <= Len(changes') BY <1>2, IdleTyped, ForgeTyped
  <2> QED BY <1>5, <2>1, IdleTyped, Zenon DEF Mem, At, Writes, Speaks, Sees
<1>9. Contacted'
  <2>1. landed \subseteq Revisions BY ForgeTyped, Zenon
  <2> QED BY <1>2, <1>3, <2>1, Zenon DEF IInv, Contacted
<1>10. HoldPushed' /\ RowsTrue' BY <1>2, <1>3, Zenon DEF IInv, HoldPushed, RowsTrue
<1>11. raced \/ (Settled' /\ (\A t \in Tasks : Alone(t))')
  <2>1. (\A t \in Tasks : Alone(t))' BY <1>5 DEF Alone, Sole, Fresh, Held, Knows, At
  <2>2. latest \in Revisions BY Zenon DEF IInv, TypeOK
  <2>3. raced \/ Settled' BY <1>1, <1>3, <2>2, Zenon DEF IInv, Settled
  <2> QED BY <2>1, <2>3
<1> QED BY <1>1, <1>7, <1>8, <1>9, <1>10, <1>11, Zenon DEF IInv

\* Others add nothing the node would take for its own.
LEMMA OthersKeep ==
    ASSUME IInv, Others
    PROVE  IInv'
<1>1. UNCHANGED <<review, latest, target, row, task, opens, landed, raced>> BY Zenon DEF Others
<1> DEFINE Adds == /\ branch' \in Commits \cup {Nothing} /\ branch' \in landed \cup {Nothing, Other}
                   /\ changes' \in Seq(Changes) /\ Len(changes) <= Len(changes')
                   /\ \A n \in DOMAIN changes' : changes'[n].head \in landed \cup {Other}
                   /\ \A r \in Revisions, n \in DOMAIN changes' :
                        changes'[n].notes[r] > 0 => n \in DOMAIN changes /\ changes[n].notes[r] > 0
<1>2. Other \in Commits BY ConstAssumption DEF ConstAssumption, Commits, Other
<1>3. HoldPushed BY DEF IInv
<1>4. ASSUME branch' \in {Other, Nothing}, changes' = changes PROVE Adds
  BY <1>2, <1>3, <1>4, ForgeTyped DEF HoldPushed
<1>5. ASSUME NEW n \in DOMAIN changes, NEW s \in {"merged", "closed"}, branch # Nothing, branch' = branch,
             changes' = [changes EXCEPT ![n].status = s, ![n].head = branch]
      PROVE  Adds
  <2> DEFINE c == [changes[n] EXCEPT !.status = s, !.head = branch]
  <2>1. changes[n] \in Changes /\ branch \in Commits BY <1>5, ForgeTyped
  <2>2. c \in Changes /\ c.head = branch /\ c.notes = changes[n].notes BY <2>1, Zenon DEF Changes
  <2>3. changes' = [changes EXCEPT ![n] = c] BY <1>5, <2>1, ForgeTyped, Zenon DEF Changes
  <2> HIDE DEF c
  <2>4. /\ changes' \in Seq(Changes) /\ Len(changes') = Len(changes) /\ DOMAIN changes' = DOMAIN changes
        /\ changes'[n] = c /\ \A k \in DOMAIN changes \ {n} : changes'[k] = changes[k]
    BY <2>2, <2>3, ForgeTyped
  <2>5. \A k \in DOMAIN changes' : changes'[k].head \in landed \cup {Other}
    BY <1>3, <1>5, <2>2, <2>4 DEF HoldPushed
  <2>6. \A r \in Revisions, k \in DOMAIN changes' : changes'[k].notes[r] = changes[k].notes[r]
    BY <2>2, <2>4, Zenon
  <2> QED BY <1>3, <1>5, <2>1, <2>4, <2>5, <2>6, ForgeTyped DEF HoldPushed
<1>6. ASSUME CanOpen, NEW x \in Texts \cup {NoText}, Created(x), branch' = branch
      PROVE  Adds
  <2>1. \A r \in Revisions, k \in DOMAIN changes' :
            changes'[k].notes[r] > 0 => k \in DOMAIN changes /\ changes[k].notes[r] > 0
    BY <1>6, CreatedTyped
  <2>2. \A k \in DOMAIN changes' : changes'[k].head \in landed \cup {Other}
    BY <1>3, <1>6, CreatedTyped DEF HoldPushed
  <2> QED BY <1>3, <1>6, <2>1, <2>2, CreatedTyped, ForgeTyped DEF HoldPushed
<1> HIDE DEF Adds
<1>7. Adds BY <1>4, <1>5, <1>6, Zenon DEF Others
<1>8. Len(changes') \in Nat /\ Len(changes) \in Nat BY <1>7, ForgeTyped DEF Adds
<1>9. TypeOK'
  <2>1. target' \in InitialCommit .. Len(changes') BY <1>1, <1>7, <1>8 DEF Adds, IInv, TypeOK, InitialCommit
  <2> QED BY <1>1, <1>7, <2>1, Zenon DEF Adds, IInv, TypeOK
<1>10. (\A t \in Tasks : Mem(t))'
  <2>1. SUFFICES ASSUME NEW t \in Tasks PROVE Mem(t)' OBVIOUS
  <2>2. Mem(t) /\ task[t] \in Requests BY Zenon DEF IInv, TypeOK
  <2>3. task[t].change \in Nat /\ task[t].was.change \in Nat BY <2>2, Zenon DEF Requests, Rows
  <2>4. task[t].change <= Len(changes') /\ task[t].was.change <= Len(changes')
    BY <1>7, <1>8, <2>2, <2>3 DEF Adds, Mem
  <2> QED BY <1>1, <2>2, <2>4, Zenon DEF Mem, Rev, At
<1>11. Contacted' BY <1>1, <1>7, Zenon DEF Adds, IInv, Contacted
<1>12. HoldPushed' BY <1>1, <1>7, Zenon DEF Adds, HoldPushed
<1>13. RowsTrue'
  <2>1. SUFFICES ASSUME NEW r \in Revisions
                 PROVE  (row'[r].state = "opened" => r \in landed') /\ row'[r].change <= Len(changes')
    BY Zenon DEF RowsTrue
  <2>2. row[r] \in Rows /\ row[r].change \in Nat BY Zenon DEF IInv, TypeOK, Rows
  <2> QED BY <1>1, <1>7, <1>8, <2>2 DEF Adds, IInv, RowsTrue
<1>14. raced \/ (Settled' /\ (\A t \in Tasks : Alone(t))')
  BY <1>1, Zenon DEF IInv, Settled, Alone, Sole, Fresh, At, Rev
<1> QED BY <1>1, <1>9, <1>10, <1>11, <1>12, <1>13, <1>14, Zenon DEF IInv

-----------------------------------------------------------------------------
(* The theorems *)

\* Nothing was published yet.
LEMMA InitIInv ==
    ASSUME Init
    PROVE  IInv
<1>1. /\ review = "claimed" /\ latest = 1 /\ branch = Nothing /\ changes = <<>> /\ landed = {} /\ raced = FALSE
      /\ \A t \in Tasks : task[t] = Idle
      /\ \A r \in Revisions : row[r] = NoRow /\ opens[r] = 0
  BY Zenon DEF Init
<1>2. TypeOK
  <2>1. latest \in Revisions /\ target \in InitialCommit .. Len(changes)
    BY <1>1, ConstAssumption DEF ConstAssumption, Revisions, Init, InitialCommit, NewChange
  <2>2. task \in [Tasks -> Requests] /\ row \in [Revisions -> Rows] BY IdleTyped, Zenon DEF Init
  <2>3. branch \in Commits \cup {Nothing} /\ changes \in Seq(Changes) /\ opens \in [Revisions -> Nat]
    BY DEF Init
  <2> QED BY <1>1, <2>1, <2>2, <2>3, Zenon DEF TypeOK
<1>3. \A t \in Tasks : Mem(t)
  <2>1. Idle.change <= Len(changes) /\ Idle.was.change <= Len(changes) BY <1>1, IdleTyped
  <2> QED BY <1>1, <2>1, IdleTyped, Zenon DEF Mem, At, Writes, Speaks, Sees
<1>4. Contacted /\ HoldPushed BY <1>1 DEF Contacted, HoldPushed
<1>5. RowsTrue BY <1>1 DEF RowsTrue, NoRow
<1>6. Settled /\ \A t \in Tasks : Alone(t) BY <1>1, IdleTyped, Zenon DEF Settled, Alone, Sole, Fresh, Held, Knows, At
<1> QED BY <1>2, <1>3, <1>4, <1>5, <1>6, Zenon DEF IInv

\* Every step keeps the invariant.
LEMMA NextIInv ==
    ASSUME IInv, [Next]_vars
    PROVE  IInv'
<1>1. ASSUME NEW t \in Tasks, NEW x \in Texts, Approve(t, x) PROVE IInv'
  <2>1. latest \in Revisions /\ 0 \in 0 .. Len(changes) BY ForgeTyped DEF IInv, TypeOK
  <2>2. Asks(t, "approve", latest, x, 0) BY <1>1 DEF Approve
  <2> QED BY <2>1, <2>2, AsksKeeps, Zenon
<1>2. ASSUME NEW t \in Tasks, NEW r \in Revisions, Recover(t, r) PROVE IInv'
  <2>1. row[r] \in Rows /\ row[r].text \in Texts \cup {NoText} BY Zenon DEF IInv, TypeOK, Rows
  <2>2. Asks(t, "recover", r, row[r].text, 0) BY <1>2, Zenon DEF Recover
  <2>3. 0 \in 0 .. Len(changes) BY ForgeTyped
  <2> QED BY <2>1, <2>2, <2>3, AsksKeeps, Zenon
<1>3. ASSUME NEW t \in Tasks, NEW r \in Revisions, NEW n \in DOMAIN changes, Reconcile(t, r, n) PROVE IInv'
  <2>1. row[r] \in Rows /\ row[r].text \in Texts \cup {NoText} BY Zenon DEF IInv, TypeOK, Rows
  <2>2. Asks(t, "reconcile", r, row[r].text, n) BY <1>3, Zenon DEF Reconcile
  <2>3. n \in 0 .. Len(changes) /\ n # 0 BY ForgeTyped
  <2> QED BY <2>1, <2>2, <2>3, AsksKeeps, Zenon
<1>4. ASSUME NEW t \in Tasks, Attempt(t) PROVE IInv'
  BY <1>4, BeginKeeps, LocalKeeps, PushKeeps, OpeningKeeps, ChangeKeeps, OpenedKeeps, SettledKeeps, Zenon DEF Attempt
<1>5. ASSUME NEW t \in Tasks, Look(t) \/ Claim(t) \/ Ask(t) \/ Recheck(t) \/ Settle(t) PROVE IInv'
  BY <1>5, ReadsKeeps, ClaimKeeps, Zenon
<1>6. CASE UNCHANGED vars
  <2>1. UNCHANGED <<review, latest, target, row, task, branch, changes, opens, landed, raced>>
    BY <1>6, Zenon DEF vars, forge
  <2> QED BY <2>1, Zenon DEF IInv, TypeOK, Mem, Contacted, HoldPushed, RowsTrue, Settled, Alone, Sole, Fresh, At, Rev
<1> QED BY <1>1, <1>2, <1>3, <1>4, <1>5, <1>6, SubmitKeeps, RestartKeeps, OthersKeep, Zenon DEF Next

\* The invariant holds throughout.
LEMMA Invariant == Spec => []IInv
<1>1. Init => IInv BY InitIInv
<1>2. IInv /\ [Next]_vars => IInv' BY NextIInv
<1> QED BY <1>1, <1>2, PTL DEF Spec

\* A step of one request leaves the others' requests alone.
LEMMA OwnStep ==
    ASSUME IInv, NEW t \in Tasks, NEW u \in Tasks \ {t},
           \/ \E x \in Texts : Approve(u, x)
           \/ \E r \in Revisions : Recover(u, r) \/ \E n \in DOMAIN changes : Reconcile(u, r, n)
           \/ Look(u) \/ Claim(u) \/ Ask(u) \/ Recheck(u) \/ Settle(u) \/ Attempt(u)
    PROVE  task'[t] = task[t]
<1>1. task \in [Tasks -> Requests] BY Zenon DEF IInv, TypeOK
<1>2. ASSUME NEW how, NEW r, NEW x, NEW n, Asks(u, how, r, x, n) PROVE task'[t] = task[t]
  BY <1>1, <1>2 DEF Asks
<1>3. ASSUME Look(u) \/ Claim(u) \/ Ask(u) \/ Recheck(u) \/ Settle(u) PROVE task'[t] = task[t]
  BY <1>1, <1>3, Zenon DEF Look, Claim, Ask, Recheck, Settle, Goes, Ends
<1>4. ASSUME NEW v, Goes(u, v) \/ Ends(u) \/ Step(u, v) \/ Fails(u) \/ Unknown(u) PROVE task'[t] = task[t]
  BY <1>1, <1>4, Zenon DEF Goes, Ends, Step, Fails, Unknown
<1>5. ASSUME Begin(u) \/ Authorize(u) \/ Contact(u) \/ CheckChange(u) \/ Observe(u) \/ Push(u) \/ Confirm(u)
      PROVE task'[t] = task[t]
  <2>1. CASE Begin(u) BY <1>1, <1>4, <2>1, Zenon DEF Begin
  <2>2. CASE Authorize(u) \/ Contact(u) BY <1>4, <2>2, Zenon DEF Authorize, Contact
  <2>3. CASE CheckChange(u) \/ Observe(u) BY <1>4, <2>3, Zenon DEF CheckChange, Observe
  <2>4. CASE Push(u) \/ Confirm(u) BY <1>4, <2>4, Zenon DEF Push, Confirm
  <2> QED BY <1>5, <2>1, <2>2, <2>3, <2>4, Zenon
<1>6. ASSUME Opening(u) \/ Lookup(u) \/ Open(u) \/ Edit(u) \/ Comment(u) \/ Opened(u) PROVE task'[t] = task[t]
  <2>1. CASE Opening(u) \/ Edit(u) \/ Comment(u) \/ Opened(u)
    BY <1>1, <1>4, <2>1, Zenon DEF Opening, Edit, Comment, Opened
  <2>2. CASE Lookup(u) \/ Open(u) BY <1>1, <1>4, <2>2, Zenon DEF Lookup, Open
  <2> QED BY <1>6, <2>1, <2>2, Zenon
<1>7. ASSUME Finish(u) \/ Abort(u) \/ Refused(u) \/ Unanswered(u) PROVE task'[t] = task[t]
  BY <1>4, <1>7, Zenon DEF Finish, Abort, Refused, Unanswered
<1> QED BY <1>2, <1>3, <1>5, <1>6, <1>7, Zenon DEF Approve, Recover, Reconcile, Attempt

\* The branch moves under a request about to push only by its own push.
LEMMA PushIsLeased ==
    ASSUME IInv, [Next]_vars, NEW t \in Tasks, At(t, "push"), branch' # branch, task'[t] # task[t]
    PROVE  /\ branch \in {Nothing, intent[Rev(t)].lease} \cup line[Rev(t)]
           /\ ~row[Rev(t)].pushed \/ raced
<1>1. ~UNCHANGED vars BY Zenon DEF vars, forge
<1>2. ~Restart /\ ~Others BY Zenon DEF Restart, Others, forge
<1>3. \A to \in {target} \cup DOMAIN changes, onto \in {Nothing, branch, latest}, rewrite \in BOOLEAN :
        ~Submit(to, onto, rewrite)
  BY ZenonT(40) DEF Submit
<1>4. PICK u \in Tasks :
        \/ \E x \in Texts : Approve(u, x)
        \/ \E r \in Revisions : Recover(u, r) \/ \E n \in DOMAIN changes : Reconcile(u, r, n)
        \/ Look(u) \/ Claim(u) \/ Ask(u) \/ Recheck(u) \/ Settle(u) \/ Attempt(u)
  BY <1>1, <1>2, <1>3, Zenon DEF Next
<1>5. u = t BY <1>4, OwnStep, Zenon
<1>6. task[t].pc = "push" BY Zenon DEF At
<1>7. Attempt(t)
  BY <1>4, <1>5, <1>6, Zenon DEF Approve, Recover, Reconcile, Asks, Look, Claim, Ask, Recheck, Settle, At
<1>8. Push(t) \/ Refused(t)
  BY <1>6, <1>7, Zenon DEF Attempt, Begin, Authorize, Contact, CheckChange, Observe, Confirm, Opening, Lookup, Open,
     Edit, Comment, Opened, Finish, Abort, Unanswered, At
<1>9. Accepts(Rev(t)) BY <1>8, Zenon DEF Push, Refused, forge
<1>10. branch \in {Nothing, intent[Rev(t)].lease} \cup line[Rev(t)] BY <1>9, Zenon DEF Accepts, Replaces
<1>11. ~row[Rev(t)].pushed \/ raced BY Zenon DEF IInv, Alone, Fresh
<1> QED BY <1>10, <1>11, Zenon

\* A revision whose publication the node reports as never attempted left nothing at the
\* forge: no push landed, no change was opened, no comment posted (PublicationRow::outcome).
THEOREM NotAttemptedIsNothing == Spec => []NotAttemptedMeansNothing
<1>1. ASSUME IInv PROVE NotAttemptedMeansNothing
  <2>1. SUFFICES ASSUME NEW r \in Revisions, Outcome(r) = "not_attempted"
                 PROVE  r \notin landed /\ opens[r] = 0 /\ \A n \in DOMAIN changes : changes[n].notes[r] = 0
    BY Zenon DEF NotAttemptedMeansNothing
  <2>2. ~row[r].contacted BY <2>1, Zenon DEF Outcome
  <2>3. opens[r] \in Nat /\ \A n \in DOMAIN changes : changes[n].notes[r] \in Nat
    BY <1>1, ForgeTyped, Zenon DEF Changes
  <2> QED BY <1>1, <2>2, <2>3 DEF IInv, Contacted
<1> QED BY <1>1, Invariant, PTL

\* An approved review's latest revision has its record opened and its commit was pushed,
\* unless two requests raced for the claim (finish_publish).
THEOREM ApprovedIsPublished == Spec => []ApprovedWasPublished
<1>1. ASSUME IInv PROVE ApprovedWasPublished
  <2>1. TypeOK /\ latest \in Revisions BY <1>1, Zenon DEF IInv, TypeOK
  <2>2. review = "approved" /\ ~raced => row[latest].state = "opened" /\ latest \in landed
    BY <1>1, <2>1, Zenon DEF IInv, Settled, RowsTrue
  <2> QED BY <2>1, <2>2, Zenon DEF ApprovedWasPublished
<1> QED BY <1>1, Invariant, PTL

\* A push moves the branch only from nothing, from the head the revision was agreed to
\* replace (Intent::lease) or from its own ancestry, and not once its push was confirmed
\* (attempt), unless two requests raced for the claim.
THEOREM PushesReplaceNothing == Spec => NothingPushedOver
<1>1. IInv /\ [Next]_vars
        => [\A t \in Tasks : At(t, "push") /\ branch' # branch /\ task'[t] # task[t]
                => /\ branch \in {Nothing, intent[Rev(t)].lease} \cup line[Rev(t)]
                   /\ ~row[Rev(t)].pushed \/ raced]_vars
  BY PushIsLeased, Zenon
<1> QED BY <1>1, Invariant, PTL DEF Spec, NothingPushedOver

-----------------------------------------------------------------------------
(* What a step of an attempt does *)

\* Where the attempt's commit is known to be on the branch.
Works == {"opening", "lookup", "open", "edit", "comment"}

\* The evidence in its own record stays, and all else of the node's is left alone.
Own(t) ==
    /\ task[t].pc \in Held /\ Rev(t) \in Revisions /\ latest' = latest /\ raced' = raced
    /\ \A u \in Tasks \ {t} : task'[u] = task[u]
    /\ \A q \in Revisions \ {Rev(t)} : row'[q] = row[q]
    /\ row[Rev(t)].pushed => row'[Rev(t)].pushed
    /\ row'[Rev(t)].text = row[Rev(t)].text \/ (At(t, "authorize") /\ row'[Rev(t)].text = task[t].text)

\* It ends and gives up the claim, or does not know what became of it.
Leaves(t) ==
    /\ task'[t] = Idle
    /\ review' # "publishing" \/ (task[t].pc \in Speaks /\ row'[Rev(t)].state = "uncertain")

\* It goes on.
OnTo(t, v) ==
    /\ task'[t].pc = v /\ task'[t].rev = task[t].rev /\ task'[t].text = task[t].text
    /\ At(t, "begin") \/ task'[t].resume = task[t].resume

\* The order of its steps.
Edge(t) ==
    \/ \E v \in {"abort", "finish", "opened"} : OnTo(t, v)
    \/ At(t, "begin") /\ OnTo(t, "authorize") /\ task'[t].resume = MayHaveReached(task[t].was)
    \/ At(t, "authorize") /\ OnTo(t, "local") /\ row'[Rev(t)].text = task[t].text
    \/ At(t, "local") /\ \E v \in {"change", "observe", "push"} : OnTo(t, v)
    \/ At(t, "change") /\ OnTo(t, "observe")
    \/ At(t, "observe") /\ OnTo(t, "push")
    \/ (At(t, "observe") \/ At(t, "confirm")) /\ OnTo(t, "opening") /\ row'[Rev(t)].pushed
    \/ At(t, "push") /\ OnTo(t, "confirm")
    \/ At(t, "opening") /\ OnTo(t, "lookup") /\ task[t].resume
    \/ At(t, "opening") /\ OnTo(t, "open") /\ ~task[t].resume
    \/ At(t, "opening") /\ OnTo(t, "edit")
    \/ At(t, "lookup") /\ OnTo(t, "open") /\ AtHead(Rev(t)) = {}
    \/ (At(t, "lookup") \/ At(t, "open") \/ At(t, "edit")) /\ OnTo(t, "comment")

\* What it does at the forge.
Effect(t) ==
    \/ UNCHANGED forge
    \/ At(t, "push") /\ Lands(Rev(t))
    \/ /\ At(t, "open") /\ CanOpen /\ Created(task[t].text) /\ opens' = [opens EXCEPT ![Rev(t)] = @ + 1]
       /\ UNCHANGED <<branch, landed>>
    \/ /\ At(t, "edit") /\ changes' = [changes EXCEPT ![task[t].change].text = task[t].text]
       /\ UNCHANGED <<branch, opens, landed>>
    \/ /\ At(t, "comment") /\ ~AlreadyPosted(t)
       /\ changes' = [changes EXCEPT ![task[t].change].notes[Rev(t)] = @ + 1]
       /\ UNCHANGED <<branch, opens, landed>> /\ task'[t].pc \in {"idle", "opened", "abort"}

Shape(t) == Own(t) /\ (Leaves(t) \/ Edge(t)) /\ Effect(t)

\* It fails.
LEMMA FailsShape ==
    ASSUME IInv, NEW t \in Tasks, task[t].pc \in Attempts, Fails(t)
    PROVE  Own(t) /\ Edge(t) /\ task'[t].pc = "abort"
<1>1. task[t].pc # "idle" /\ task[t].pc \in Held BY Zenon DEF Attempts, Writes, Held
<1>2. Set(Rev(t), "failed") /\ Goes(t, "abort") /\ latest' = latest /\ raced' = raced BY Zenon DEF Fails
<1>3. row \in [Revisions -> Rows] /\ Rev(t) \in Revisions BY <1>1, UnderWay, Zenon
<1>4. row' = [row EXCEPT ![Rev(t)].state = "failed"] /\ "failed" \in States BY <1>2, Zenon DEF Set, States
<1>5. /\ \A q \in Revisions \ {Rev(t)} : row'[q] = row[q]
      /\ row'[Rev(t)].pushed = row[Rev(t)].pushed /\ row'[Rev(t)].text = row[Rev(t)].text
  BY <1>3, <1>4, StateSet
<1>6. /\ \A u \in Tasks \ {t} : task'[u] = task[u]
      /\ OnTo(t, "abort")
  BY <1>1, <1>2, GoesOn, Zenon DEF OnTo, Held
<1>7. Own(t) BY <1>1, <1>2, <1>3, <1>5, <1>6, Zenon DEF Own
<1> QED BY <1>6, <1>7, Zenon DEF Edge, OnTo

\* It does not know.
LEMMA UnknownShape ==
    ASSUME IInv, NEW t \in Tasks, task[t].pc \in Speaks, Unknown(t)
    PROVE  Own(t) /\ Leaves(t) /\ task'[t].pc = "idle"
<1>1. task[t].pc # "idle" /\ task[t].pc \in Held BY Zenon DEF Speaks, Held
<1>2. Set(Rev(t), "uncertain") /\ Ends(t) /\ latest' = latest /\ raced' = raced BY Zenon DEF Unknown
<1>3. row \in [Revisions -> Rows] /\ Rev(t) \in Revisions BY <1>1, UnderWay, Zenon
<1>4. row' = [row EXCEPT ![Rev(t)].state = "uncertain"] /\ "uncertain" \in States
  BY <1>2, Zenon DEF Set, States
<1>5. /\ \A q \in Revisions \ {Rev(t)} : row'[q] = row[q]
      /\ row'[Rev(t)].state = "uncertain"
      /\ row'[Rev(t)].pushed = row[Rev(t)].pushed /\ row'[Rev(t)].text = row[Rev(t)].text
  BY <1>3, <1>4, StateSet
<1>6. (\A u \in Tasks \ {t} : task'[u] = task[u]) /\ task'[t] = Idle /\ task'[t].pc = "idle"
  BY <1>2, Ended, Zenon
<1>7. Own(t) BY <1>1, <1>2, <1>3, <1>5, <1>6, Zenon DEF Own
<1> QED BY <1>5, <1>6, <1>7, Zenon DEF Leaves

\* It goes on and writes nothing.
LEMMA StepShape ==
    ASSUME IInv, NEW t \in Tasks, task[t].pc \in Held, NEW v \in Held, Step(t, v), row' = row
    PROVE  Own(t) /\ OnTo(t, v)
<1>1. task[t].pc # "idle" BY Zenon DEF Held
<1>2. Goes(t, v) /\ latest' = latest /\ raced' = raced BY Zenon DEF Step
<1>3. Rev(t) \in Revisions BY <1>1, UnderWay, Zenon
<1>4. (\A u \in Tasks \ {t} : task'[u] = task[u]) /\ OnTo(t, v)
  BY <1>1, <1>2, GoesOn, Zenon DEF OnTo
<1> QED BY <1>2, <1>3, <1>4, Zenon DEF Own

\* The steps that write the record before the forge is asked.
LEMMA BeginShape ==
    ASSUME IInv, NEW t \in Tasks, Begin(t) \/ Authorize(t) \/ Contact(t)
    PROVE  Shape(t)
<1>1. /\ task[t].pc # "idle" /\ task[t].pc \in Held /\ UNCHANGED <<latest, raced>> /\ UNCHANGED forge
  BY Zenon DEF Begin, Authorize, Contact, At, Held
<1>2. /\ Rev(t) \in Revisions /\ row \in [Revisions -> Rows] /\ task \in [Tasks -> Requests]
      /\ row[Rev(t)] \in Rows /\ task[t] \in Requests
  BY <1>1, UnderWay, Zenon
<1>3. Effect(t) BY <1>1, Zenon DEF Effect
<1>4. CASE Begin(t)
  <2> DEFINE m == [task[t] EXCEPT !.resume = MayHaveReached(task[t].was), !.had = row[Rev(t)].pushed,
                                  !.was = NoRow, !.stale = "none", !.pc = "authorize"]
  <2>1. task' = [task EXCEPT ![t] = m] /\ row' = [row EXCEPT ![Rev(t)] = Begun(Rev(t))] /\ At(t, "begin")
    BY <1>2, <1>4, Zenon DEF Begin
  <2>2. m.pc = "authorize" /\ m.rev = task[t].rev /\ m.text = task[t].text /\ m.resume = MayHaveReached(task[t].was)
    BY <1>2 DEF Requests
  <2> HIDE DEF m
  <2>3. task'[t] = m /\ \A u \in Tasks \ {t} : task'[u] = task[u] BY <1>2, <2>1, Zenon
  <2>4. /\ Begun(Rev(t)).pushed = row[Rev(t)].pushed /\ Begun(Rev(t)).text = row[Rev(t)].text
    BY <1>2 DEF Begun, Rows
  <2>5. row'[Rev(t)] = Begun(Rev(t)) /\ \A q \in Revisions \ {Rev(t)} : row'[q] = row[q]
    BY <1>2, <2>1, Zenon
  <2>6. Own(t) BY <1>1, <1>2, <2>3, <2>4, <2>5, Zenon DEF Own
  <2>7. OnTo(t, "authorize") BY <2>1, <2>2, <2>3, Zenon DEF OnTo
  <2> QED BY <1>3, <2>1, <2>2, <2>3, <2>6, <2>7, Zenon DEF Shape, Edge
<1>5. CASE Authorize(t)
  <2>1. At(t, "authorize") /\ Goes(t, "local") /\ row' = [row EXCEPT ![Rev(t)].text = task[t].text]
    BY <1>5, Zenon DEF Authorize
  <2>2. "local" \in Held BY Zenon DEF Held
  <2>3. (\A u \in Tasks \ {t} : task'[u] = task[u]) /\ OnTo(t, "local")
    BY <1>1, <2>1, <2>2, GoesOn, Zenon DEF OnTo
  <2>4. /\ row'[Rev(t)].pushed = row[Rev(t)].pushed /\ row'[Rev(t)].text = task[t].text
        /\ \A q \in Revisions \ {Rev(t)} : row'[q] = row[q]
    BY <1>2, <2>1 DEF Rows
  <2>5. Own(t) BY <1>1, <1>2, <2>1, <2>3, <2>4, Zenon DEF Own
  <2> QED BY <1>3, <2>1, <2>3, <2>4, <2>5, Zenon DEF Shape, Edge
<1>6. CASE Contact(t)
  <2>1. PICK v \in {"change", "observe", "push"} : Goes(t, v)
    BY <1>6 DEF Contact
  <2>2. v \in Held /\ At(t, "local") BY <1>6, Zenon DEF Contact, Held
  <2>3. (\A u \in Tasks \ {t} : task'[u] = task[u]) /\ OnTo(t, v)
    BY <1>1, <2>1, <2>2, GoesOn, Zenon DEF OnTo
  <2>4. /\ row'[Rev(t)].pushed = row[Rev(t)].pushed /\ row'[Rev(t)].text = row[Rev(t)].text
        /\ \A q \in Revisions \ {Rev(t)} : row'[q] = row[q]
    BY <1>2, <1>6 DEF Contact, Rows
  <2>5. Own(t) BY <1>1, <1>2, <2>3, <2>4, Zenon DEF Own
  <2> QED BY <1>3, <2>2, <2>3, <2>5, Zenon DEF Shape, Edge
<1> QED BY <1>4, <1>5, <1>6, Zenon

\* The questions before the push, the push, and the question after it.
LEMMA PushShape ==
    ASSUME IInv, NEW t \in Tasks,
           CheckChange(t) \/ Observe(t) \/ Push(t) \/ Confirm(t) \/ Refused(t) \/ Unanswered(t)
    PROVE  Shape(t)
<1>1. /\ task[t].pc \in {"local", "change", "observe", "push", "confirm", "opening", "lookup"}
      /\ task[t].pc # "idle" /\ task[t].pc \in Held /\ task[t].pc \in Attempts
  BY Zenon DEF CheckChange, Observe, Push, Confirm, Refused, Unanswered, At, Held, Attempts, Writes
<1>2. Effect(t)
  BY Zenon DEF CheckChange, Observe, Push, Confirm, Refused, Unanswered, Effect
<1>3. CASE Fails(t) BY <1>1, <1>2, <1>3, FailsShape, Zenon DEF Shape
<1>4. CASE Unanswered(t)
  <2>1. Unknown(t) /\ task[t].pc \in Speaks BY <1>4, Zenon DEF Unanswered, Speaks
  <2> QED BY <1>2, <2>1, UnknownShape, Zenon DEF Shape
<1>5. ASSUME NEW v \in {"observe", "push", "confirm"}, Step(t, v), row' = row, Edge(t) \/ ~OnTo(t, v) PROVE Shape(t)
  <2>1. v \in Held BY Zenon DEF Held
  <2> QED BY <1>1, <1>2, <1>5, <2>1, StepShape, Zenon DEF Shape
<1>6. CASE Pushed(Rev(t)) /\ Goes(t, "opening") /\ (At(t, "observe") \/ At(t, "confirm"))
           /\ UNCHANGED <<latest, raced>>
  <2>1. "opening" \in Held BY Zenon DEF Held
  <2>2. (\A u \in Tasks \ {t} : task'[u] = task[u]) /\ OnTo(t, "opening")
    BY <1>1, <1>6, <2>1, GoesOn, Zenon DEF OnTo
  <2>3. Rev(t) \in Revisions /\ row \in [Revisions -> Rows] /\ row[Rev(t)] \in Rows BY <1>1, UnderWay, Zenon
  <2>4. row'[Rev(t)].pushed /\ row'[Rev(t)].text = row[Rev(t)].text
        /\ \A q \in Revisions \ {Rev(t)} : row'[q] = row[q]
    BY <1>6, <2>3 DEF Pushed, Rows
  <2>5. Own(t) BY <1>1, <1>6, <2>2, <2>3, <2>4, Zenon DEF Own
  <2> QED BY <1>2, <1>6, <2>2, <2>4, <2>5, Zenon DEF Shape, Edge
<1>7. CASE CheckChange(t) /\ ~Fails(t)
  <2>1. Step(t, "observe") /\ row' = row /\ At(t, "change") BY <1>7, Zenon DEF CheckChange
  <2> QED BY <1>5, <2>1, Zenon DEF Edge
<1>8. CASE Observe(t) /\ ~Fails(t)
  <2>1. At(t, "observe") BY <1>8, Zenon DEF Observe
  <2>2. (Step(t, "push") /\ row' = row) \/ (Pushed(Rev(t)) /\ Goes(t, "opening") /\ UNCHANGED <<latest, raced>>)
    BY <1>8, Zenon DEF Observe
  <2> QED BY <1>5, <1>6, <2>1, <2>2, Zenon DEF Edge
<1>9. CASE Push(t) /\ ~Fails(t)
  <2>1. Step(t, "confirm") /\ row' = row /\ At(t, "push") BY <1>9, Zenon DEF Push
  <2> QED BY <1>5, <2>1, Zenon DEF Edge
<1>10. CASE Confirm(t) /\ ~Fails(t)
  <2>1. At(t, "confirm") /\ Pushed(Rev(t)) /\ Goes(t, "opening") /\ UNCHANGED <<latest, raced>>
    BY <1>10, Zenon DEF Confirm
  <2> QED BY <1>6, <2>1, Zenon
<1> QED BY <1>3, <1>4, <1>7, <1>8, <1>9, <1>10, Zenon DEF Refused

\* What it has opened, and what it makes of the change.
LEMMA OpenShape ==
    ASSUME IInv, NEW t \in Tasks,
           Opening(t) \/ Lookup(t) \/ Open(t) \/ Edit(t) \/ Comment(t) \/ Opened(t)
    PROVE  Shape(t)
<1>1. /\ task[t].pc \in {"opening", "lookup", "open", "edit", "comment", "opened"}
      /\ task[t].pc # "idle" /\ task[t].pc \in Held /\ task[t].pc \in Attempts
      /\ ~Opened(t) => task[t].pc \in Speaks
  BY Zenon DEF Opening, Lookup, Open, Edit, Comment, Opened, At, Held, Attempts, Writes, Speaks
<1>2. /\ Rev(t) \in Revisions /\ row \in [Revisions -> Rows] /\ row[Rev(t)] \in Rows
      /\ task \in [Tasks -> Requests] /\ task[t] \in Requests
  BY <1>1, UnderWay, Zenon
<1>3. ASSUME Fails(t), Effect(t) PROVE Shape(t) BY <1>1, <1>3, FailsShape, Zenon DEF Shape
<1>4. ASSUME Unknown(t), task[t].pc \in Speaks, Effect(t) PROVE Shape(t)
  BY <1>1, <1>4, UnknownShape, Zenon DEF Shape
<1>5. ASSUME NEW v \in Pcs, NEW k \in Nat, WithChange(task, task', t, v, k), UNCHANGED <<latest, raced>>,
             \A q \in Revisions \ {Rev(t)} : row'[q] = row[q], row'[Rev(t)].pushed = row[Rev(t)].pushed,
             row'[Rev(t)].text = row[Rev(t)].text
      PROVE  Own(t) /\ OnTo(t, v)
  <2> DEFINE m == [task[t] EXCEPT !.pc = v, !.change = k]
  <2>1. m.pc = v /\ m.rev = task[t].rev /\ m.text = task[t].text /\ m.resume = task[t].resume
    BY <1>2, Zenon DEF Requests
  <2>2. task' = [task EXCEPT ![t] = m] BY <1>2, <1>5, Zenon DEF WithChange
  <2> HIDE DEF m
  <2>3. task'[t] = m /\ \A u \in Tasks \ {t} : task'[u] = task[u] BY <1>2, <2>2, Zenon
  <2> QED BY <1>1, <1>2, <1>5, <2>1, <2>3, Zenon DEF Own, OnTo
<1>6. CASE Opening(t)
  <2> DEFINE v == IF target = InitialCommit THEN "opened" ELSE IF IsUpdate THEN "edit"
                  ELSE IF task[t].resume THEN "lookup" ELSE "open"
             k == IF IsUpdate THEN target ELSE 0
  <2>1. /\ At(t, "opening") /\ WithChange(task, task', t, v, k) /\ UNCHANGED <<latest, raced>> /\ UNCHANGED forge
        /\ row' = [row EXCEPT ![Rev(t)].state = "opening"]
    BY <1>6, Zenon DEF Opening, WithChange, Set
  <2>2. /\ \A q \in Revisions \ {Rev(t)} : row'[q] = row[q]
        /\ row'[Rev(t)].pushed = row[Rev(t)].pushed /\ row'[Rev(t)].text = row[Rev(t)].text
    <3>1. "opening" \in States BY DEF States
    <3> QED BY <1>2, <2>1, <3>1, StateSet
  <2>3. v \in Pcs BY Zenon DEF Pcs, Held
  <2>4. k \in Nat
    BY DEF IsUpdate, NewChange, IInv, TypeOK, InitialCommit
  <2>5. \/ v = "opened" \/ v = "edit" \/ (v = "lookup" /\ task[t].resume) \/ (v = "open" /\ ~task[t].resume)
    BY Zenon
  <2>6. Own(t) /\ OnTo(t, v)
    <3> HIDE DEF v, k
    <3> QED BY <1>5, <2>1, <2>2, <2>3, <2>4, Zenon
  <2> HIDE DEF v
  <2> QED BY <2>1, <2>5, <2>6, Zenon DEF Shape, Edge, Effect
<1>7. CASE Lookup(t)
  <2>1. At(t, "lookup") /\ UNCHANGED forge /\ task[t].pc \in Speaks BY <1>7, Zenon DEF Lookup, At, Speaks
  <2>2. Effect(t) BY <2>1, Zenon DEF Effect
  <2>3. CASE AtHead(Rev(t)) = {} /\ Step(t, "open") /\ row' = row
    <3>1. "open" \in Held BY Zenon DEF Held
    <3> QED BY <1>1, <2>1, <2>2, <2>3, <3>1, StepShape, Zenon DEF Shape, Edge
  <2>4. CASE Unknown(t) BY <1>4, <2>1, <2>2, <2>4
  <2>5. ASSUME NEW n \in Ours(t), WithChange(task, task', t, "comment", n), UNCHANGED <<latest, raced>>, row' = row
        PROVE  Shape(t)
    <3>1. n \in Nat BY ForgeTyped DEF Ours, AtHead
    <3>2. "comment" \in Pcs BY Zenon DEF Pcs, Held
    <3>3. Own(t) /\ OnTo(t, "comment") BY <1>5, <2>5, <3>1, <3>2, Zenon
    <3> QED BY <2>1, <2>2, <3>3, Zenon DEF Shape, Edge
  <2> QED BY <1>7, <2>3, <2>4, <2>5, Zenon DEF Lookup, WithChange
<1>8. CASE Open(t)
  <2>1. At(t, "open") /\ Effect(t) /\ task[t].pc \in Speaks BY <1>8, Zenon DEF Open, Effect, At, Speaks
  <2>2. CASE Fails(t) BY <1>3, <2>1, <2>2
  <2>3. CASE Unknown(t) BY <1>4, <2>1, <2>3
  <2>4. CASE WithChange(task, task', t, "comment", Len(changes) + 1) /\ UNCHANGED <<latest, row, raced>>
    <3>1. Len(changes) + 1 \in Nat BY ForgeTyped
    <3>2. "comment" \in Pcs BY Zenon DEF Pcs, Held
    <3>3. Own(t) /\ OnTo(t, "comment") BY <1>5, <2>4, <3>1, <3>2, Zenon
    <3> QED BY <2>1, <3>3, Zenon DEF Shape, Edge
  <2> QED BY <1>8, <2>2, <2>3, <2>4, Zenon DEF Open, WithChange
<1>9. CASE Edit(t)
  <2>1. At(t, "edit") /\ Effect(t) /\ task[t].pc \in Speaks BY <1>9, Zenon DEF Edit, Effect, At, Speaks
  <2>2. CASE Fails(t) BY <1>3, <2>1, <2>2
  <2>3. CASE Unknown(t) BY <1>4, <2>1, <2>3
  <2>4. CASE Step(t, "comment") /\ row' = row
    <3>1. "comment" \in Held BY Zenon DEF Held
    <3> QED BY <1>1, <2>1, <2>4, <3>1, StepShape, Zenon DEF Shape, Edge
  <2> QED BY <1>9, <2>2, <2>3, <2>4, Zenon DEF Edit
<1>10. CASE Comment(t)
  <2>1. At(t, "comment") /\ task[t].pc \in Speaks /\ "opened" \in Held BY <1>10, Zenon DEF Comment, At, Speaks, Held
  <2>2. Fails(t) => task'[t].pc = "abort" BY <1>1, FailsShape, Zenon
  <2>3. Unknown(t) => task'[t].pc = "idle" BY <2>1, UnknownShape, Zenon
  <2>4. Step(t, "opened") /\ row' = row => Own(t) /\ OnTo(t, "opened")
    BY <1>1, <2>1, StepShape, Zenon
  <2>5. Fails(t) \/ Unknown(t) \/ (Step(t, "opened") /\ row' = row) BY <1>10, Zenon DEF Comment
  <2>6. task'[t].pc \in {"idle", "opened", "abort"} BY <2>2, <2>3, <2>4, <2>5, Zenon DEF OnTo
  <2>7. Effect(t) BY <1>10, <2>1, <2>6, Zenon DEF Comment, Effect
  <2> QED BY <1>3, <1>4, <2>1, <2>4, <2>5, <2>7, Zenon DEF Shape, Edge
<1>11. CASE Opened(t)
  <2>1. /\ Goes(t, "finish") /\ UNCHANGED <<latest, raced>> /\ UNCHANGED forge /\ "finish" \in Held
        /\ row' = [row EXCEPT ![Rev(t)].state = "opened", ![Rev(t)].change = task[t].change]
    BY <1>11, Zenon DEF Opened, Held
  <2>2. (\A u \in Tasks \ {t} : task'[u] = task[u]) /\ OnTo(t, "finish")
    BY <1>1, <2>1, GoesOn, Zenon DEF OnTo
  <2>3. /\ \A q \in Revisions \ {Rev(t)} : row'[q] = row[q]
        /\ row'[Rev(t)].pushed = row[Rev(t)].pushed /\ row'[Rev(t)].text = row[Rev(t)].text
    BY <1>2, <2>1 DEF Rows
  <2>4. Own(t) BY <1>1, <1>2, <2>1, <2>2, <2>3, Zenon DEF Own
  <2> QED BY <2>1, <2>2, <2>4, Zenon DEF Shape, Edge, Effect
<1> QED BY <1>6, <1>7, <1>8, <1>9, <1>10, <1>11, Zenon

\* Every step of an attempt is one of these.
LEMMA AttemptShape ==
    ASSUME IInv, NEW t \in Tasks, Attempt(t)
    PROVE  Shape(t)
<1>1. CASE Finish(t) \/ Abort(t)
  <2>1. /\ task[t].pc # "idle" /\ task[t].pc \in Held /\ Ends(t) /\ UNCHANGED <<latest, row, raced>>
        /\ UNCHANGED forge /\ review' # "publishing"
    BY <1>1, Zenon DEF Finish, Abort, At, Held
  <2>2. Rev(t) \in Revisions BY <2>1, UnderWay, Zenon
  <2>3. (\A u \in Tasks \ {t} : task'[u] = task[u]) /\ task'[t] = Idle BY <2>1, Ended, Zenon
  <2>4. Own(t) BY <2>1, <2>2, <2>3, Zenon DEF Own
  <2> QED BY <2>1, <2>3, <2>4, Zenon DEF Shape, Leaves, Effect
<1> QED BY <1>1, BeginShape, PushShape, OpenShape, Zenon DEF Attempt

\* A change somebody opened stays as it is, but for its text and the comment.
Noted(t, n, r) ==
    /\ At(t, "comment") /\ r = Rev(t) /\ n = task[t].change /\ ~AlreadyPosted(t)
    /\ changes'[n].notes[r] = changes[n].notes[r] + 1 /\ task'[t].pc \in {"idle", "opened", "abort"}

ForgeAfter(t) ==
    /\ DOMAIN changes \subseteq DOMAIN changes'
    /\ \A n \in DOMAIN changes : changes'[n].status = changes[n].status /\ changes'[n].head = changes[n].head
    /\ \A n \in DOMAIN changes, r \in Revisions :
            changes'[n].notes[r] = changes[n].notes[r] \/ Noted(t, n, r)
    /\ \A n \in DOMAIN changes' \ DOMAIN changes, r \in Revisions : changes'[n].notes[r] = 0
    /\ \A r \in Revisions : opens'[r] = opens[r]
            \/ /\ At(t, "open") /\ r = Rev(t) /\ CanOpen /\ opens'[r] = opens[r] + 1
               /\ \E n \in DOMAIN changes' : changes'[n].status = "open"
    /\ (branch' = branch /\ landed' = landed)
            \/ (At(t, "push") /\ branch' = Rev(t) /\ landed' = landed \cup {Rev(t)})

\* What the effects come to.
LEMMA EffectIs ==
    ASSUME IInv, NEW t \in Tasks, Rev(t) \in Revisions, Effect(t), task[t].text \in Texts \cup {NoText}
    PROVE  ForgeAfter(t)
<1>1. CASE UNCHANGED <<changes, opens>>
  BY <1>1, Zenon DEF Effect, ForgeAfter, forge, Lands, At
<1>2. CASE /\ At(t, "open") /\ CanOpen /\ Created(task[t].text) /\ opens' = [opens EXCEPT ![Rev(t)] = @ + 1]
           /\ UNCHANGED <<branch, landed>>
  <2>1. /\ DOMAIN changes' = DOMAIN changes \cup {Len(changes) + 1}
        /\ \A n \in DOMAIN changes : changes'[n] = changes[n]
        /\ changes'[Len(changes) + 1].status = "open"
        /\ \A r \in Revisions : changes'[Len(changes) + 1].notes[r] = 0
    BY <1>2, CreatedTyped, Zenon
  <2>2. \A r \in Revisions : opens'[r] = IF r = Rev(t) THEN opens[r] + 1 ELSE opens[r]
    BY <1>2, ForgeTyped, Zenon
  <2> QED BY <1>2, <2>1, <2>2, Zenon DEF ForgeAfter
<1>3. CASE /\ At(t, "edit") /\ changes' = [changes EXCEPT ![task[t].change].text = task[t].text]
           /\ UNCHANGED <<branch, opens, landed>>
  <2>1. DOMAIN changes' = DOMAIN changes BY <1>3, Zenon
  <2>2. ASSUME NEW n \in DOMAIN changes
        PROVE  /\ changes'[n].notes = changes[n].notes /\ changes'[n].head = changes[n].head
               /\ changes'[n].status = changes[n].status
    <3>1. changes[n] \in Changes BY ForgeTyped, Zenon
    <3>2. changes'[n] = changes[n] \/ changes'[n] = [changes[n] EXCEPT !.text = task[t].text]
      BY <1>3, <3>1, Zenon
    <3> QED BY <3>1, <3>2, Zenon DEF Changes
  <2> QED BY <1>3, <2>1, <2>2, Zenon DEF ForgeAfter
<1>4. CASE /\ At(t, "comment") /\ ~AlreadyPosted(t)
           /\ changes' = [changes EXCEPT ![task[t].change].notes[Rev(t)] = @ + 1]
           /\ UNCHANGED <<branch, opens, landed>> /\ task'[t].pc \in {"idle", "opened", "abort"}
  <2>1. DOMAIN changes' = DOMAIN changes BY <1>4, Zenon
  <2>2. ASSUME NEW n \in DOMAIN changes
        PROVE  /\ changes'[n].head = changes[n].head /\ changes'[n].status = changes[n].status
               /\ \A r \in Revisions : \/ changes'[n].notes[r] = changes[n].notes[r]
                                       \/ /\ n = task[t].change /\ r = Rev(t)
                                          /\ changes'[n].notes[r] = changes[n].notes[r] + 1
    <3> DEFINE ns == [changes[n].notes EXCEPT ![Rev(t)] = @ + 1]
    <3>1. changes[n] \in Changes BY ForgeTyped, Zenon
    <3>2. changes'[n] = IF n = task[t].change THEN [changes[n] EXCEPT !.notes = ns] ELSE changes[n]
      BY <1>4, Zenon
    <3>3. changes[n].notes \in [Revisions -> Nat] BY <3>1, Zenon DEF Changes
    <3>4. \A r \in Revisions : ns[r] = IF r = Rev(t) THEN changes[n].notes[r] + 1 ELSE changes[n].notes[r]
      BY <3>3, Zenon
    <3> HIDE DEF ns
    <3> QED BY <3>1, <3>2, <3>4, Zenon DEF Changes
  <2> QED BY <1>4, <2>1, <2>2, Zenon DEF ForgeAfter, Noted
<1> QED BY <1>1, <1>2, <1>3, <1>4, Zenon DEF Effect, forge, Lands

-----------------------------------------------------------------------------
(* A publication happens once, and a claim has a way out *)

\* Revisions to come have no record, and what the node opened or said for one was
\* pushed, as its record says.
Traces ==
    /\ \A r \in Revisions : row[r].state # "none" => r <= latest
    /\ \A r \in Revisions : opens[r] > 0 => row[r].pushed /\ r \in landed
    /\ \A r \in Revisions, n \in DOMAIN changes : changes[n].notes[r] > 0 => row[r].pushed

\* What a request under way knows, and what it publishes with.
Tracks(t) ==
    /\ task[t].pc # "idle" => Rev(t) <= latest
    /\ task[t].pc \in Works => row[Rev(t)].pushed
    /\ At(t, "lookup") => task[t].resume
    /\ task[t].pc \in {"look", "claim", "begin", "authorize"} => task[t].text # NoText
    /\ task[t].pc \in {"local"} \cup Speaks => row[Rev(t)].text # NoText

\* A claim nobody works under can be taken up again, unless another revision has a record.
TakenUp ==
    review = "publishing" =>
        \/ \E t \in Tasks : task[t].pc \in Held
        \/ \E r \in Revisions : r # latest /\ row[r] # NoRow
        \/ MayRecover(latest)
        \/ row[latest] # NoRow /\ ~row[latest].mine

\* As long as nobody raced another: once pushed, the latest revision is on the branch
\* unless others moved or deleted it, and
Stays == latest \in landed => branch \in {latest, Other, Nothing}

\* an attempt that does not look first has nothing of its revision to find.
First(t) ==
    ~task[t].resume =>
        /\ task[t].pc \in {"confirm", "opening", "open"} => opens[Rev(t)] = 0
        /\ task[t].pc \in {"confirm", "opening", "open", "edit", "comment"}
                => \A n \in DOMAIN changes : changes[n].notes[Rev(t)] = 0

\* As long as no change was carried on and closed, besides: the change opened for the
\* latest revision is open or has its commit for a head,
Findable == opens[latest] > 0 => \E n \in DOMAIN changes : changes[n].status = "open" \/ changes[n].head = latest

\* and one that looked and did not find it has it open at what others pushed.
Missed(t) ==
    At(t, "open") /\ task[t].resume /\ opens[Rev(t)] > 0
        => branch # Rev(t) /\ \E n \in DOMAIN changes : changes[n].status = "open"

OnceEach == \A r \in Revisions : opens[r] <= 1 /\ \A n \in DOMAIN changes : changes[n].notes[r] <= 1

JInv ==
    /\ Traces /\ TakenUp /\ \A t \in Tasks : Tracks(t)
    /\ raced \/ (Stays /\ \A t \in Tasks : First(t))
    /\ raced \/ Carried \/ (Findable /\ OnceEach /\ \A t \in Tasks : Missed(t))

\* Where an attempt goes next is after the claim and not before the record is begun.
LEMMA EdgeIsHeld ==
    ASSUME NEW t \in Tasks, Edge(t)
    PROVE  /\ task'[t].pc \in Held \ {"begin"} /\ task'[t].pc \in {"idle"} \cup Held
           /\ task'[t].rev = task[t].rev /\ task'[t].text = task[t].text
BY Zenon DEF Edge, OnTo, Held

\* Records keep their evidence, whoever writes them.
LEMMA RecordsHold ==
    ASSUME IInv, JInv, NEW t \in Tasks, Shape(t), NEW r \in Revisions
    PROVE  /\ row[r].pushed => row'[r].pushed
           /\ row[r].text # NoText => row'[r].text # NoText
<1>1. At(t, "authorize") => task[t].text # NoText BY Zenon DEF JInv, Tracks, At
<1> QED BY <1>1, Zenon DEF Shape, Own

\* An attempt leaves the traces it has to.
LEMMA AttemptTraces ==
    ASSUME IInv, JInv, NEW t \in Tasks, Shape(t), ForgeAfter(t)
    PROVE  Traces' /\ \A u \in Tasks : Tracks(u)'
<1>1. /\ task[t].pc \in Held /\ Rev(t) \in Revisions /\ latest' = latest
      /\ \A u \in Tasks \ {t} : task'[u] = task[u]
      /\ \A q \in Revisions \ {Rev(t)} : row'[q] = row[q]
      /\ task[t].pc # "idle" /\ Tracks(t) /\ Traces /\ Mem(t)
  BY Zenon DEF Shape, Own, Held, JInv, IInv
<1>2. Rev(t) <= latest BY <1>1, Zenon DEF Tracks
<1>3. \A r \in Revisions : (row[r].pushed => row'[r].pushed) /\ (row[r].text # NoText => row'[r].text # NoText)
  BY RecordsHold
<1>4. landed \subseteq landed' BY Zenon DEF ForgeAfter
<1>5. ASSUME NEW r \in Revisions, opens'[r] > 0 PROVE row'[r].pushed /\ r \in landed'
  <2>1. CASE opens'[r] = opens[r] BY <1>1, <1>3, <1>4, <1>5, <2>1, Zenon DEF Traces
  <2>2. CASE At(t, "open") /\ r = Rev(t)
    BY <1>1, <1>3, <1>4, <2>2, Zenon DEF Tracks, Mem, Sees, At, Works
  <2> QED BY <2>1, <2>2, Zenon DEF ForgeAfter
<1>6. ASSUME NEW r \in Revisions, NEW n \in DOMAIN changes', changes'[n].notes[r] > 0 PROVE row'[r].pushed
  <2>1. CASE n \in DOMAIN changes /\ changes'[n].notes[r] = changes[n].notes[r]
    BY <1>1, <1>3, <1>6, <2>1, Zenon DEF Traces
  <2>2. CASE Noted(t, n, r)
    BY <1>1, <1>3, <2>2, Zenon DEF Noted, Tracks, At, Works
  <2>3. CASE changes'[n].notes[r] = 0
    <3>1. ~(0 > 0) OBVIOUS
    <3> QED BY <1>6, <2>3, <3>1, Zenon
  <2> QED BY <2>1, <2>2, <2>3, Zenon DEF ForgeAfter
<1>7. Traces' BY <1>1, <1>2, <1>5, <1>6, Zenon DEF Traces
<1>8. ASSUME NEW u \in Tasks, u # t PROVE Tracks(u)'
  <2>1. Tracks(u) /\ task'[u] = task[u] /\ Mem(u) BY <1>1, <1>8, Zenon DEF JInv, IInv
  <2>2. task[u].pc \in {"local"} \cup Speaks \cup Works => Rev(u) \in Revisions
    BY <2>1, Zenon DEF Mem, Speaks, Works
  <2> QED BY <1>1, <1>3, <2>1, <2>2, Zenon DEF Tracks, At, Rev
<1>9. Tracks(t)'
  <2>1. CASE Leaves(t) BY <2>1, IdleTyped, Zenon DEF Leaves, Tracks, At, Works, Speaks
  <2>2. CASE Edge(t)
    <3>1. /\ task'[t].rev = task[t].rev /\ task'[t].text = task[t].text
          /\ task'[t].pc \in Held \ {"begin"}
      BY <2>2, EdgeIsHeld, Zenon
    <3>2. task'[t].pc \in Works => row'[Rev(t)].pushed
      BY <1>1, <1>3, <2>2, Zenon DEF Edge, OnTo, At, Works, Tracks
    <3>3. task'[t].pc = "lookup" => task'[t].resume
      BY <2>2, Zenon DEF Edge, OnTo, At
    <3>4. task'[t].pc \notin {"look", "claim"} BY <3>1, Zenon DEF Held
    <3>5. task'[t].pc = "authorize" => task[t].text # NoText
      BY <1>1, <2>2, Zenon DEF Edge, OnTo, At, Tracks
    <3>6. task'[t].pc \in {"local"} \cup Speaks => row'[Rev(t)].text # NoText
      BY <1>1, <1>3, <2>2, Zenon DEF Edge, OnTo, At, Tracks, Speaks
    <3> QED BY <1>1, <1>2, <3>1, <3>2, <3>3, <3>4, <3>5, <3>6, Zenon DEF Tracks, At, Rev
  <2> QED BY <2>1, <2>2, Zenon DEF Shape
<1> QED BY <1>7, <1>8, <1>9, Zenon

\* An attempt that ends settles the claim, or leaves what a retry may take up.
LEMMA AttemptTakenUp ==
    ASSUME IInv, JInv, NEW t \in Tasks, Shape(t), IInv'
    PROVE  TakenUp'
<1>1. CASE Edge(t) BY <1>1, EdgeIsHeld, Zenon DEF TakenUp
<1>2. CASE Leaves(t)
  <2> SUFFICES ASSUME review' = "publishing" PROVE TakenUp' BY Zenon DEF TakenUp
  <2>1. /\ task[t].pc \in Speaks /\ row'[Rev(t)].state = "uncertain" /\ Rev(t) \in Revisions /\ latest' = latest
    BY <1>2, Zenon DEF Leaves, Shape, Own
  <2>2. row'[Rev(t)].text # NoText
    BY <2>1, RecordsHold, Zenon DEF JInv, Tracks
  <2>3. row'[Rev(t)] # NoRow BY <2>1, IdleTyped
  <2>4. CASE Rev(t) = latest
    <3>1. Outcome(latest)' = "uncertain" BY <2>1, <2>4, Zenon DEF Outcome
    <3>2. Unsettled(latest)' BY <2>1, <2>3, <2>4, <3>1, Zenon DEF Unsettled
    <3>3. MayRecover(latest)' BY <2>1, <2>2, <2>4, <3>2, Zenon DEF MayRecover
    <3> QED BY <3>3, Zenon DEF TakenUp
  <2>5. CASE Rev(t) # latest BY <2>1, <2>3, <2>5, Zenon DEF TakenUp
  <2> QED BY <2>4, <2>5, Zenon
<1> QED BY <1>1, <1>2, Zenon DEF Shape

\* While nobody raced another, an attempt works alone on the latest revision.
LEMMA WorksAlone ==
    ASSUME IInv, ~raced, NEW t \in Tasks, task[t].pc \in Held
    PROVE  /\ Rev(t) = latest /\ Fresh(t) /\ \A u \in Tasks \ {t} : task[u].pc \notin Held
BY Zenon DEF IInv, Alone, Sole

\* Where nothing was pushed, nothing was opened or said.
LEMMA NothingYet ==
    ASSUME IInv, JInv, NEW r \in Revisions, ~row[r].pushed
    PROVE  opens[r] = 0 /\ \A n \in DOMAIN changes : changes[n].notes[r] = 0
<1>1. ~(opens[r] > 0) /\ \A n \in DOMAIN changes : ~(changes[n].notes[r] > 0)
  BY Zenon DEF JInv, Traces
<1>2. opens[r] \in Nat /\ \A n \in DOMAIN changes : changes[n].notes[r] \in Nat
  BY ForgeTyped, Zenon DEF Changes
<1> QED BY <1>1, <1>2

\* An attempt that does not look first still has nothing to find.
LEMMA AttemptFirst ==
    ASSUME IInv, JInv, NEW t \in Tasks, Shape(t), ForgeAfter(t), ~raced
    PROVE  Stays' /\ \A u \in Tasks : First(u)'
<1>1. /\ task[t].pc \in Held /\ Rev(t) \in Revisions /\ latest' = latest
      /\ \A u \in Tasks \ {t} : task'[u] = task[u]
      /\ Tracks(t) /\ First(t) /\ Stays
  BY Zenon DEF Shape, Own, JInv
<1>2. /\ Rev(t) = latest /\ Fresh(t) /\ \A u \in Tasks \ {t} : task[u].pc \notin Held
  BY <1>1, WorksAlone, Zenon
<1>3. Stays' BY <1>1, <1>2, Zenon DEF Stays, ForgeAfter
<1>4. ASSUME NEW u \in Tasks, u # t PROVE First(u)'
  BY <1>1, <1>2, <1>4, Zenon DEF First, Held
<1>5. First(t)'
  <2>1. CASE Leaves(t) BY <2>1, IdleTyped, Zenon DEF Leaves, First
  <2>2. CASE Edge(t)
    <3> DEFINE Zero == opens[Rev(t)] = 0
               Silent == \A n \in DOMAIN changes : changes[n].notes[Rev(t)] = 0
    <3>1. SUFFICES ASSUME ~task'[t].resume,
                          task'[t].pc \in {"confirm", "opening", "open", "edit", "comment"}
                   PROVE  /\ task'[t].pc \in {"confirm", "opening", "open"} => opens'[Rev(t)] = 0
                          /\ \A n \in DOMAIN changes' : changes'[n].notes[Rev(t)] = 0
      BY <2>2, EdgeIsHeld, Zenon DEF First, Rev
    <3>2. /\ ~task[t].resume /\ task[t].pc \in {"observe", "push", "confirm", "opening", "open", "edit"}
          /\ task'[t].pc \in {"confirm", "opening", "open"} => task[t].pc \in {"observe", "push", "confirm", "opening"}
      BY <1>1, <2>2, <3>1, Zenon DEF Edge, OnTo, At, Tracks
    <3>3. task[t].pc \in {"observe", "push"} => ~row[Rev(t)].pushed
      BY <1>2, <3>2, Zenon DEF Fresh, At, Knows
    <3>4. task[t].pc \in {"observe", "push"} => Zero /\ Silent
      BY <1>1, <3>3, NothingYet, Zenon
    <3>5. Silent /\ (task[t].pc # "edit" => Zero)
      BY <1>1, <3>2, <3>4, Zenon DEF First
    <3>6. ~At(t, "comment") BY <3>2, Zenon DEF At
    <3>7. \A n \in DOMAIN changes' : changes'[n].notes[Rev(t)] = 0
      <4>1. \A n \in DOMAIN changes : changes'[n].notes[Rev(t)] = changes[n].notes[Rev(t)]
        BY <1>1, <3>6, Zenon DEF ForgeAfter, Noted
      <4>2. \A n \in DOMAIN changes' \ DOMAIN changes : changes'[n].notes[Rev(t)] = 0
        BY <1>1, Zenon DEF ForgeAfter
      <4> QED BY <3>5, <4>1, <4>2, Zenon
    <3>8. task[t].pc \in {"observe", "push", "confirm", "opening"} => opens'[Rev(t)] = 0
      <4>1. opens'[Rev(t)] = opens[Rev(t)] \/ task[t].pc = "open" BY <1>1, Zenon DEF ForgeAfter, At
      <4> QED BY <3>5, <4>1, Zenon
    <3> QED BY <3>2, <3>7, <3>8, Zenon
  <2> QED BY <2>1, <2>2, Zenon DEF Shape
<1> QED BY <1>3, <1>4, <1>5, Zenon

\* An attempt opens its change and posts its comment once.
LEMMA AttemptOnce ==
    ASSUME IInv, JInv, NEW t \in Tasks, Shape(t), ForgeAfter(t), ~raced
    PROVE  Carried' \/ (Findable' /\ OnceEach' /\ \A u \in Tasks : Missed(u)')
<1>1. /\ task[t].pc \in Held /\ Rev(t) \in Revisions /\ latest' = latest
      /\ \A u \in Tasks \ {t} : task'[u] = task[u]
      /\ Tracks(t) /\ First(t)
  BY Zenon DEF Shape, Own, JInv
<1>2. /\ Rev(t) = latest /\ \A u \in Tasks \ {t} : task[u].pc \notin Held
  BY <1>1, WorksAlone, Zenon
<1>3. CASE Carried BY <1>3, Zenon DEF Carried, ForgeAfter
<1>4. CASE ~Carried
  <2>1. Findable /\ OnceEach /\ Missed(t) BY <1>4, Zenon DEF JInv
  <2>2. Findable' BY <1>1, <1>2, <2>1, Zenon DEF Findable, ForgeAfter
  <2>3. ASSUME NEW r \in Revisions PROVE opens'[r] <= 1
    <3>1. CASE opens'[r] = opens[r] BY <2>1, <3>1, Zenon DEF OnceEach
    <3>2. CASE At(t, "open") /\ r = Rev(t) /\ CanOpen /\ opens'[r] = opens[r] + 1
      <4>1. ~(opens[r] > 0) \/ opens[r] = 0
        BY <1>1, <2>1, <3>2, Zenon DEF First, Missed, CanOpen, At
      <4>2. opens[r] \in Nat BY ForgeTyped, Zenon
      <4> QED BY <3>2, <4>1, <4>2
    <3> QED BY <3>1, <3>2, Zenon DEF ForgeAfter
  <2>4. ASSUME NEW r \in Revisions, NEW n \in DOMAIN changes' PROVE changes'[n].notes[r] <= 1
    <3>1. CASE n \in DOMAIN changes /\ changes'[n].notes[r] = changes[n].notes[r]
      BY <2>1, <3>1, Zenon DEF OnceEach
    <3>2. CASE n \in DOMAIN changes /\ Noted(t, n, r)
      <4>1. ~(changes[n].notes[r] > 0) \/ changes[n].notes[r] = 0
        BY <1>1, <3>2, Zenon DEF First, Noted, AlreadyPosted, At
      <4>2. changes[n].notes[r] \in Nat BY <3>2, ForgeTyped, ZenonT(40) DEF Changes
      <4>3. changes'[n].notes[r] = changes[n].notes[r] + 1 BY <3>2, Zenon DEF Noted
      <4> QED BY <4>1, <4>2, <4>3
    <3>3. CASE changes'[n].notes[r] = 0 BY <3>3
    <3> QED BY <3>1, <3>2, <3>3, Zenon DEF ForgeAfter
  <2>5. ASSUME NEW u \in Tasks PROVE Missed(u)'
    <3>1. CASE u # t BY <1>1, <1>2, <3>1, Zenon DEF Missed, At, Held
    <3>2. CASE u = t
      <4>1. SUFFICES ASSUME task'[t].pc = "open", task'[t].resume, task'[t].rev = task[t].rev, opens'[Rev(t)] > 0
                     PROVE  branch' # Rev(t) /\ \E n \in DOMAIN changes' : changes'[n].status = "open"
        <5>1. Leaves(t) => task'[t].pc # "open" BY IdleTyped, Zenon DEF Leaves
        <5> QED BY <3>2, <5>1, EdgeIsHeld, Zenon DEF Shape, Missed, At, Rev
      <4>2. At(t, "lookup") /\ AtHead(Rev(t)) = {}
        <5>1. Edge(t) BY <4>1, IdleTyped, Zenon DEF Shape, Leaves
        <5> QED BY <4>1, <5>1, Zenon DEF Edge, OnTo, At
      <4>3. opens'[Rev(t)] = opens[Rev(t)] /\ branch' = branch
        BY <1>1, <4>2, Zenon DEF ForgeAfter, At
      <4>4. PICK n \in DOMAIN changes : changes[n].status = "open" \/ changes[n].head = latest
        BY <1>2, <2>1, <4>1, <4>3, Zenon DEF Findable
      <4>5. HeadOf(n) # Rev(t) BY <4>2, <4>4, Zenon DEF AtHead
      <4>6. changes[n].status = "open" /\ branch # Rev(t) BY <1>2, <4>4, <4>5, Zenon DEF HeadOf
      <4> QED BY <4>3, <4>6, Zenon DEF ForgeAfter
    <3> QED BY <3>1, <3>2, Zenon
  <2> QED BY <2>2, <2>3, <2>4, <2>5, Zenon DEF OnceEach
<1> QED BY <1>3, <1>4, Zenon

\* So the steps of attempts keep all of it.
LEMMA AttemptKeepsOn ==
    ASSUME IInv, JInv, IInv', NEW t \in Tasks, Attempt(t)
    PROVE  JInv'
<1>1. Shape(t) BY AttemptShape, Zenon
<1>2. task[t].pc # "idle" BY <1>1, Zenon DEF Shape, Own, Held
<1>3. Rev(t) \in Revisions /\ task[t].text \in Texts \cup {NoText} BY <1>2, UnderWay, Zenon
<1>4. ForgeAfter(t) BY <1>1, <1>3, EffectIs, Zenon DEF Shape
<1>5. raced' = raced BY <1>1, Zenon DEF Shape, Own
<1>6. Traces' /\ (\A u \in Tasks : Tracks(u)') /\ TakenUp' BY <1>1, <1>4, AttemptTraces, AttemptTakenUp, Zenon
<1>7. raced' \/ (Stays' /\ \A u \in Tasks : First(u)') BY <1>1, <1>4, <1>5, AttemptFirst, Zenon
<1>8. raced' \/ Carried' \/ (Findable' /\ OnceEach' /\ \A u \in Tasks : Missed(u)')
  BY <1>1, <1>4, <1>5, AttemptOnce, Zenon
<1> QED BY <1>6, <1>7, <1>8, Zenon DEF JInv

\* A request that waits, takes the claim or gives up leaves the records and the forge
\* as they are.
LEMMA WaitKeepsOn ==
    ASSUME IInv, JInv, NEW t \in Tasks, latest' = latest, row' = row, UNCHANGED forge, raced => raced',
           \A u \in Tasks \ {t} : task'[u] = task[u],
           task'[t].pc \in {"idle", "begin", "finish", "opened"} \cup Waiting, Tracks(t)',
           task'[t].pc \in Held \/ (task[t].pc \notin Held /\ review' = review)
    PROVE  JInv'
<1>1. branch' = branch /\ changes' = changes /\ opens' = opens /\ landed' = landed BY Zenon DEF forge
<1>2. Traces' BY <1>1, Zenon DEF JInv, Traces
<1>3. \A u \in Tasks : Tracks(u)' BY Zenon DEF JInv, Tracks, At, Rev
<1>4. TakenUp'
  <2>1. CASE task'[t].pc \in Held BY <2>1, Zenon DEF TakenUp
  <2>2. CASE task[t].pc \notin Held /\ review' = review
    <3>1. MayRecover(latest) => MayRecover(latest)'
      BY <2>2, Zenon DEF MayRecover, Unsettled, Outcome
    <3> QED BY <2>2, <3>1, Zenon DEF JInv, TakenUp
  <2> QED BY <2>1, <2>2, Zenon
<1>5. ~raced' => Stays' /\ \A u \in Tasks : First(u)'
  <2>1. First(t)' BY Zenon DEF First, Waiting
  <2>2. \A u \in Tasks \ {t} : First(u) => First(u)' BY <1>1, Zenon DEF First, Rev
  <2>3. Stays => Stays' BY <1>1, Zenon DEF Stays
  <2> QED BY <2>1, <2>2, <2>3, Zenon DEF JInv
<1>6. ~raced' /\ ~Carried' => Findable' /\ OnceEach' /\ \A u \in Tasks : Missed(u)'
  <2>1. Missed(t)' BY Zenon DEF Missed, At, Waiting
  <2>2. Carried' = Carried BY <1>1, Zenon DEF Carried
  <2>3. \A u \in Tasks \ {t} : Missed(u) => Missed(u)' BY <1>1, Zenon DEF Missed, At, Rev
  <2>4. (Findable => Findable') /\ (OnceEach => OnceEach') BY <1>1, Zenon DEF Findable, OnceEach
  <2> QED BY <2>1, <2>2, <2>3, <2>4, Zenon DEF JInv
<1> QED BY <1>2, <1>3, <1>4, <1>5, <1>6, Zenon DEF JInv

\* A revision with a record is not to come.
LEMMA RecordedRevision ==
    ASSUME IInv, JInv, NEW r \in Revisions, row[r] # NoRow
    PROVE  r <= latest
BY Zenon DEF IInv, TypeOK, JInv, Traces

\* A request arrives.
LEMMA AsksKeepsOn ==
    ASSUME IInv, JInv, NEW t \in Tasks, NEW how \in {"approve", "recover", "reconcile"}, NEW r \in Revisions,
           NEW x, NEW n, Asks(t, how, r, x, n), r <= latest, how # "reconcile" => x # NoText
    PROVE  JInv'
<1> DEFINE v == IF how = "reconcile" THEN "ask" ELSE "look"
           m == [Idle EXCEPT !.pc = v, !.how = how, !.rev = r, !.text = x, !.stale = review, !.change = n]
<1>1. task' = [task EXCEPT ![t] = m] /\ At(t, "idle") BY Zenon DEF Asks
<1>2. review' = review /\ latest' = latest /\ row' = row /\ raced' = raced /\ UNCHANGED forge BY Zenon DEF Asks
<1>3. m.pc = v /\ m.rev = r /\ m.text = x BY DEF Idle
<1>4. v \in Waiting /\ v \notin Works /\ v \notin Speaks /\ (how = "reconcile" => v = "ask")
  BY Zenon DEF Waiting, Works, Speaks
<1> HIDE DEF m
<1>5. task'[t] = m /\ \A u \in Tasks \ {t} : task'[u] = task[u] BY <1>1, Zenon DEF IInv, TypeOK
<1>6. Tracks(t)' BY <1>2, <1>3, <1>4, <1>5, Zenon DEF Tracks, At, Rev, Waiting
<1>7. task[t].pc \notin Held BY <1>1, Zenon DEF At, Held
<1> QED BY <1>2, <1>3, <1>4, <1>5, <1>6, <1>7, WaitKeepsOn, Zenon

\* A request ends having changed nothing.
LEMMA GivesUpOn ==
    ASSUME IInv, JInv, NEW t \in Tasks, task[t].pc \notin Held, Ends(t),
           review' = review, latest' = latest, row' = row, raced' = raced, UNCHANGED forge
    PROVE  JInv'
<1>1. (\A u \in Tasks \ {t} : task'[u] = task[u]) /\ task'[t].pc = "idle" BY Ended, Zenon
<1>2. Tracks(t)' BY <1>1, Zenon DEF Tracks, At, Works, Speaks
<1> QED BY <1>1, <1>2, WaitKeepsOn, Zenon

\* A request reads the record, asks the forge or takes the claim.
LEMMA ReadsKeepsOn ==
    ASSUME IInv, JInv, NEW t \in Tasks, Look(t) \/ Ask(t) \/ Recheck(t) \/ Claim(t) \/ Settle(t)
    PROVE  JInv'
<1>1. /\ task[t].pc \in Waiting /\ task[t].pc # "idle" /\ task[t].pc \notin Held
      /\ latest' = latest /\ row' = row /\ UNCHANGED forge /\ (raced => raced')
  BY Zenon DEF Look, Ask, Recheck, Claim, Settle, At, Waiting, Held
<1>2. /\ Rev(t) \in Revisions /\ task \in [Tasks -> Requests] /\ row[Rev(t)] \in Rows /\ NoRow \in Rows
      /\ task[t].was.change \in Nat
  BY <1>1, UnderWay, IdleTyped, Zenon
<1>3. CASE Ends(t) /\ review' = review /\ raced' = raced BY <1>1, <1>3, GivesUpOn, Zenon
<1>4. ASSUME NEW v \in {"recheck", "claim", "settle", "begin", "finish", "opened"},
             \A u \in Tasks \ {t} : task'[u] = task[u], task'[t].pc = v,
             task'[t].rev = task[t].rev, task'[t].text = task[t].text,
             v \in {"claim", "begin"} => task[t].pc \in {"look", "claim"},
             v \in Held \/ review' = review
      PROVE  JInv'
  <2>1. Tracks(t) /\ Rev(t) <= latest BY <1>1, Zenon DEF JInv, Tracks
  <2>2. /\ v # "lookup" /\ v # "idle" /\ v # "look" /\ v # "authorize" /\ v \notin Works /\ v # "local" /\ v \notin Speaks
        /\ v \in {"idle", "begin", "finish", "opened"} \cup Waiting
    BY Zenon DEF Works, Speaks, Waiting
  <2>3. Tracks(t)'
    <3>1. v \in {"look", "claim", "begin", "authorize"} => task[t].text # NoText BY <1>4, <2>1, <2>2, Zenon DEF Tracks
    <3> QED BY <1>1, <1>4, <2>1, <2>2, <3>1, Zenon DEF Tracks, At, Rev
  <2> QED BY <1>1, <1>4, <2>2, <2>3, WaitKeepsOn, Zenon
<1>5. ASSUME NEW v \in {"recheck", "claim", "settle", "begin", "finish", "opened"}, NEW w \in Rows,
             WithReading(task, task', t, v, w)
      PROVE  /\ \A u \in Tasks \ {t} : task'[u] = task[u]
             /\ task'[t].pc = v /\ task'[t].rev = task[t].rev /\ task'[t].text = task[t].text
  <2>1. v \in Pcs BY Zenon DEF Pcs, Held, Waiting
  <2> QED BY <1>2, <1>5, <2>1, ReadMoves
<1>6. CASE Look(t)
  <2>1. task[t].pc = "look" /\ WithReading(task, task', t, "claim", row[Rev(t)]) /\ review' = review
    BY <1>6, Zenon DEF Look, At, WithReading
  <2> QED BY <1>2, <1>4, <1>5, <2>1, Zenon
<1>7. CASE Recheck(t) /\ ~Ends(t)
  <2>1. task[t].pc = "recheck" /\ WithReading(task, task', t, "settle", row[Rev(t)]) /\ review' = review
    BY <1>7, Zenon DEF Recheck, At, WithReading
  <2> QED BY <1>2, <1>4, <1>5, <2>1, Zenon
<1>8. CASE Settle(t) /\ ~(Ends(t) /\ review' = review /\ raced' = raced)
  <2>1. WithReading(task, task', t, "opened", NoRow) /\ "opened" \in Held
    BY <1>8, Zenon DEF Settle, WithReading, Held
  <2> QED BY <1>2, <1>4, <1>5, <2>1, Zenon
<1>9. CASE Ask(t) /\ ~Ends(t)
  <2>1. task' = [task EXCEPT ![t].pc = "recheck"] /\ review' = review /\ "recheck" \in Pcs
    BY <1>9, Zenon DEF Ask, Goes, Pcs, Waiting
  <2>2. /\ \A u \in Tasks \ {t} : task'[u] = task[u]
        /\ task'[t].pc = "recheck" /\ task'[t].rev = task[t].rev /\ task'[t].text = task[t].text
    BY <1>2, <2>1, PcMoves
  <2> QED BY <1>4, <2>1, <2>2, Zenon
<1>10. CASE Claim(t) /\ ~(Ends(t) /\ review' = review /\ raced' = raced)
  <2>1. task[t].pc = "claim" /\ "begin" \in Held /\ "finish" \in Held /\ "begin" \in Pcs /\ "finish" \in Pcs
    BY <1>10, Zenon DEF Claim, At, Held, Pcs
  <2>2. CASE task' = [task EXCEPT ![t].pc = "begin"]
    <3>1. /\ \A u \in Tasks \ {t} : task'[u] = task[u]
          /\ task'[t].pc = "begin" /\ task'[t].rev = task[t].rev /\ task'[t].text = task[t].text
      BY <1>2, <2>1, <2>2, PcMoves
    <3> QED BY <1>4, <2>1, <3>1, Zenon
  <2>3. CASE WithChange(task, task', t, "finish", task[t].was.change)
    <3>1. /\ \A u \in Tasks \ {t} : task'[u] = task[u]
          /\ task'[t].pc = "finish" /\ task'[t].rev = task[t].rev /\ task'[t].text = task[t].text
      BY <1>2, <2>1, <2>3, ChangeMoves
    <3> QED BY <1>4, <2>1, <3>1, Zenon
  <2> QED BY <1>10, <2>2, <2>3, Zenon DEF Claim, Goes, WithChange
<1> QED BY <1>3, <1>6, <1>7, <1>8, <1>9, <1>10, Zenon DEF Ask, Recheck

\* A revision is submitted: nothing of it was published.
LEMMA SubmitKeepsOn ==
    ASSUME IInv, JInv, NEW to, NEW onto, NEW rewrite, Submit(to, onto, rewrite), latest' \in Revisions
    PROVE  JInv'
<1>1. /\ latest' = latest + 1 /\ review' = "claimed" /\ row' = row /\ task' = task /\ raced' = raced
      /\ UNCHANGED forge
  BY Zenon DEF Submit
<1>2. branch' = branch /\ changes' = changes /\ opens' = opens /\ landed' = landed BY <1>1, Zenon DEF forge
<1>3. latest \in Int BY DEF IInv, TypeOK, Revisions
<1>4. ASSUME NEW r \in Revisions, r <= latest PROVE r <= latest' /\ r # latest'
  BY <1>1, <1>3, <1>4 DEF Revisions
<1>5. Traces'
  <2>1. \A r \in Revisions : row'[r].state # "none" => r <= latest' BY <1>1, <1>4, Zenon DEF JInv, Traces
  <2> QED BY <1>1, <1>2, <2>1, Zenon DEF JInv, Traces
<1>6. \A t \in Tasks : Tracks(t)'
  <2>1. SUFFICES ASSUME NEW t \in Tasks PROVE Tracks(t)' BY Zenon
  <2>2. task[t].pc # "idle" => Rev(t) \in Revisions BY Zenon DEF IInv, Mem, At, Rev
  <2>3. Tracks(t) BY Zenon DEF JInv
  <2>4. task[t].pc # "idle" => Rev(t) <= latest' BY <1>4, <2>2, <2>3, Zenon DEF Tracks
  <2> QED BY <1>1, <2>3, <2>4, Zenon DEF Tracks, At, Rev
<1>7. TakenUp' BY <1>1, Zenon DEF TakenUp
<1>8. latest' \notin landed
  <2>1. SUFFICES ASSUME latest' \in landed PROVE FALSE BY Zenon
  <2>2. row[latest'].contacted BY <2>1, Zenon DEF IInv, Contacted
  <2>3. NoRow.contacted = FALSE BY DEF NoRow
  <2>4. row[latest'].state # "none" BY <2>2, <2>3, Zenon DEF IInv, TypeOK
  <2> QED BY <1>4, <2>4, Zenon DEF JInv, Traces
<1>9. ~(opens[latest'] > 0) BY <1>8, Zenon DEF JInv, Traces
<1>10. Stays' /\ Findable' BY <1>2, <1>8, <1>9, Zenon DEF Stays, Findable
<1>11. \A t \in Tasks : (First(t) => First(t)') /\ (Missed(t) => Missed(t)')
  BY <1>1, <1>2, Zenon DEF First, Missed, At, Rev
<1>12. Carried' = Carried /\ (OnceEach => OnceEach') BY <1>2, Zenon DEF Carried, OnceEach
<1> QED BY <1>1, <1>5, <1>6, <1>7, <1>10, <1>11, <1>12, Zenon DEF JInv

\* A start keeps what the records say, and lets every claim be taken up.
LEMMA RestartKeepsOn ==
    ASSUME IInv, JInv, Restart
    PROVE  JInv'
<1>1. /\ \A t \in Tasks : task'[t] = Idle
      /\ \A r \in Revisions : row'[r] = Relabelled(row[r])
      /\ review' = (IF ReturnsToQueue THEN "claimed" ELSE review)
      /\ latest' = latest /\ raced' = raced /\ UNCHANGED forge
  BY Zenon DEF Restart
<1>2. branch' = branch /\ changes' = changes /\ opens' = opens /\ landed' = landed BY <1>1, Zenon DEF forge
<1>3. ASSUME NEW r \in Revisions
      PROVE  /\ row'[r].pushed = row[r].pushed /\ (row'[r].state # "none" => row[r].state # "none")
             /\ row[r] # NoRow => row'[r] # NoRow /\ ~row'[r].mine
  <2>1. row[r] \in Rows /\ (row[r].state = "none" => row[r] = NoRow) BY Zenon DEF IInv, TypeOK
  <2>2. row'[r] = Relabelled(row[r]) BY <1>1, Zenon
  <2>3. CASE row[r] = NoRow BY <2>2, <2>3, Zenon DEF Relabelled
  <2>4. CASE row[r] # NoRow
    <3>1. row'[r] = [row[r] EXCEPT !.mine = FALSE,
                        !.state = IF @ \in {"pending", "opening"} THEN "uncertain" ELSE @]
      BY <2>2, <2>4, Zenon DEF Relabelled
    <3>2. row'[r].pushed = row[r].pushed /\ ~row'[r].mine /\ row'[r].state # "none"
      BY <2>1, <2>4, <3>1, Zenon DEF Rows, States
    <3>3. NoRow.state = "none" BY DEF NoRow
    <3> QED BY <2>1, <2>4, <3>2, <3>3, SMTT(40)
  <2> QED BY <2>3, <2>4, Zenon
<1>4. Traces' BY <1>1, <1>2, <1>3, Zenon DEF JInv, Traces
<1>5. \A t \in Tasks : task'[t].pc = "idle" BY <1>1, IdleTyped, Zenon
<1>6. \A t \in Tasks : Tracks(t)' /\ First(t)' /\ Missed(t)'
  BY <1>5, Zenon DEF Tracks, First, Missed, At, Works, Speaks
<1>7. TakenUp'
  <2>1. SUFFICES ASSUME review' = "publishing"
                 PROVE  \/ \E r \in Revisions : r # latest /\ row'[r] # NoRow
                        \/ row'[latest] # NoRow /\ ~row'[latest].mine
    BY <1>1, Zenon DEF TakenUp
  <2>2. review = "publishing" /\ ~ReturnsToQueue BY <1>1, <2>1, Zenon
  <2>3. PICK r \in Revisions : row[r] # NoRow BY <2>2, Zenon DEF ReturnsToQueue
  <2> QED BY <1>3, <2>3, Zenon
<1>8. (Stays => Stays') /\ (Findable => Findable') /\ (OnceEach => OnceEach') /\ Carried' = Carried
  BY <1>1, <1>2, Zenon DEF Stays, Findable, OnceEach, Carried
<1> QED BY <1>1, <1>4, <1>6, <1>7, <1>8, Zenon DEF JInv

\* What others do leaves the changes as they are, closes one at the branch, or opens one.
OthersAct ==
    \/ branch' \in {Other, Nothing} /\ changes' = changes
    \/ /\ branch' = branch
       /\ \E k \in DOMAIN changes :
            /\ branch # Nothing /\ DOMAIN changes' = DOMAIN changes
            /\ changes'[k].status # "open" /\ changes'[k].head = branch /\ changes'[k].notes = changes[k].notes
            /\ changes[k].status = "open"
            /\ \A n \in DOMAIN changes \ {k} : changes'[n] = changes[n]
    \/ /\ branch' = branch /\ DOMAIN changes \subseteq DOMAIN changes'
       /\ \A n \in DOMAIN changes : changes'[n] = changes[n]
       /\ \A n \in DOMAIN changes' \ DOMAIN changes :
            changes'[n].status = "open" /\ \A r \in Revisions : changes'[n].notes[r] = 0

\* Others move the branch, or merge, close or open a change (OthersAct).
LEMMA OthersDo ==
    ASSUME IInv, Others
    PROVE  OthersAct
<1>1. ASSUME branch' \in {Other, Nothing}, changes' = changes PROVE OthersAct BY <1>1, Zenon DEF OthersAct
<1>2. ASSUME NEW n \in DOMAIN changes, NEW s \in {"merged", "closed"}, changes[n].status = "open",
             branch # Nothing, branch' = branch,
             changes' = [changes EXCEPT ![n].status = s, ![n].head = branch]
      PROVE  OthersAct
  <2> DEFINE c == [changes[n] EXCEPT !.status = s, !.head = branch]
  <2>1. changes[n] \in Changes BY ForgeTyped
  <2>2. c.head = branch /\ c.notes = changes[n].notes /\ c.status = s BY <2>1, Zenon DEF Changes
  <2>3. changes' = [changes EXCEPT ![n] = c] BY <1>2, <2>1, ForgeTyped, Zenon DEF Changes
  <2> HIDE DEF c
  <2>4. /\ DOMAIN changes' = DOMAIN changes
        /\ changes'[n] = c /\ \A k \in DOMAIN changes \ {n} : changes'[k] = changes[k]
    BY <2>3, ForgeTyped
  <2>5. s # "open" OBVIOUS
  <2> QED BY <1>2, <2>2, <2>4, <2>5, Zenon DEF OthersAct
<1>3. ASSUME CanOpen, NEW x \in Texts \cup {NoText}, Created(x), branch' = branch PROVE OthersAct
  <2>1. /\ DOMAIN changes \subseteq DOMAIN changes'
        /\ \A n \in DOMAIN changes : changes'[n] = changes[n]
        /\ \A n \in DOMAIN changes' \ DOMAIN changes :
              changes'[n].status = "open" /\ \A r \in Revisions : changes'[n].notes[r] = 0
    BY <1>3, CreatedTyped
  <2> QED BY <1>3, <2>1, Zenon DEF OthersAct
<1> QED BY <1>1, <1>2, <1>3, Zenon DEF Others

\* Others neither publish for a request nor take a change from it, unless they carry
\* it on and close it.
LEMMA OthersKeepOn ==
    ASSUME IInv, JInv, Others
    PROVE  JInv'
<1>1. /\ review' = review /\ latest' = latest /\ row' = row /\ task' = task /\ opens' = opens
      /\ landed' = landed /\ raced' = raced
  BY Zenon DEF Others
<1>2. OthersAct BY OthersDo
<1>3. branch' \in {branch, Other, Nothing} BY <1>2, Zenon DEF OthersAct
<1>4. \A n \in DOMAIN changes', r \in Revisions :
        (n \in DOMAIN changes /\ changes'[n].notes[r] = changes[n].notes[r]) \/ changes'[n].notes[r] = 0
  BY <1>2, Zenon DEF OthersAct
<1>5. \A n \in DOMAIN changes', r \in Revisions : changes'[n].notes[r] > 0 => n \in DOMAIN changes /\ changes[n].notes[r] > 0
  BY <1>4
<1>6. Traces' BY <1>1, <1>5, Zenon DEF JInv, Traces
<1>7. \A t \in Tasks : Tracks(t)' BY <1>1, Zenon DEF JInv, Tracks, At, Rev
<1>8. TakenUp' BY <1>1, Zenon DEF JInv, TakenUp, MayRecover, Unsettled, Outcome
<1>9. Stays => Stays' BY <1>1, <1>3, Zenon DEF Stays
<1>10. \A t \in Tasks : First(t) => First(t)'
  <2>1. SUFFICES ASSUME NEW t \in Tasks, First(t) PROVE First(t)' BY Zenon
  <2>2. task[t].pc # "idle" => Rev(t) \in Revisions BY Zenon DEF IInv, Mem, At, Rev
  <2> QED BY <1>1, <1>4, <2>1, <2>2, Zenon DEF First, Rev
<1>11. OnceEach => OnceEach'
  <2>1. 0 <= 1 OBVIOUS
  <2> QED BY <1>1, <1>4, <2>1, Zenon DEF OnceEach
<1>12. Carried => Carried'
  BY <1>2, Zenon DEF Carried, OthersAct
<1>13. ASSUME ~Carried', ~raced, Stays, Findable PROVE Findable'
  <2>1. SUFFICES ASSUME opens[latest] > 0
                 PROVE  \E n \in DOMAIN changes' : changes'[n].status = "open" \/ changes'[n].head = latest
    BY <1>1, Zenon DEF Findable
  <2>2. PICK n \in DOMAIN changes : changes[n].status = "open" \/ changes[n].head = latest
    BY <1>13, <2>1, Zenon DEF Findable
  <2>3. latest \in Revisions BY Zenon DEF IInv, TypeOK
  <2>4. branch \in {latest, Other, Nothing} BY <1>13, <2>1, <2>3, Zenon DEF JInv, Traces, Stays
  <2> QED BY <1>2, <1>13, <2>2, <2>4, Zenon DEF OthersAct, Carried
<1>14. ASSUME ~Carried', ~raced, Stays, NEW t \in Tasks, Missed(t) PROVE Missed(t)'
  <2>1. SUFFICES ASSUME At(t, "open"), task[t].resume, opens[Rev(t)] > 0
                 PROVE  branch' # Rev(t) /\ \E n \in DOMAIN changes' : changes'[n].status = "open"
    BY <1>1, Zenon DEF Missed, At, Rev
  <2>2. Rev(t) \in Revisions /\ Rev(t) # Other /\ Rev(t) # Nothing
    <3>1. Rev(t) \in Revisions BY <2>1, Zenon DEF IInv, Mem, At, Rev
    <3> QED BY <3>1, ConstAssumption DEF Revisions, Other, Nothing, ConstAssumption
  <2>3. Rev(t) = latest BY <1>14, <2>1, Zenon DEF IInv, Alone, Sole, At, Held
  <2>4. branch \in {latest, Other, Nothing} BY <1>14, <2>1, <2>2, <2>3, Zenon DEF JInv, Traces, Stays
  <2>5. branch # Rev(t) BY <1>14, <2>1, Zenon DEF Missed
  <2>6. PICK n \in DOMAIN changes : changes[n].status = "open" BY <1>14, <2>1, Zenon DEF Missed
  <2>7. branch' # Rev(t) BY <1>3, <2>2, <2>5, Zenon
  <2> QED BY <1>2, <1>14, <2>3, <2>4, <2>5, <2>6, <2>7, Zenon DEF OthersAct, Carried
<1> QED BY <1>1, <1>6, <1>7, <1>8, <1>9, <1>10, <1>11, <1>12, <1>13, <1>14, Zenon DEF JInv

\* Nothing was published yet.
LEMMA InitJInv ==
    ASSUME Init
    PROVE  JInv
<1>1. /\ review = "claimed" /\ changes = <<>> /\ landed = {}
      /\ \A t \in Tasks : task[t] = Idle
      /\ \A r \in Revisions : row[r] = NoRow /\ opens[r] = 0
  BY Zenon DEF Init
<1>2. NoRow.state = "none" /\ Idle.pc = "idle" BY DEF NoRow, Idle
<1>3. ~(0 > 0) /\ 0 <= 1 OBVIOUS
<1>4. DOMAIN changes = {} BY <1>1
<1>5. latest \in Revisions BY InitIInv, Zenon DEF IInv, TypeOK
<1>6. Traces /\ TakenUp /\ Stays /\ Findable /\ OnceEach
  BY <1>1, <1>2, <1>3, <1>4, <1>5, Zenon DEF Traces, TakenUp, Stays, Findable, OnceEach
<1>7. \A t \in Tasks : Tracks(t) /\ First(t) /\ Missed(t)
  BY <1>1, <1>2, Zenon DEF Tracks, First, Missed, At, Works, Speaks
<1> QED BY <1>6, <1>7, Zenon DEF JInv

\* Every step keeps the invariant.
LEMMA NextJInv ==
    ASSUME IInv, JInv, [Next]_vars
    PROVE  JInv'
<1>1. IInv' BY NextIInv
<1>2. ASSUME NEW t \in Tasks, NEW x \in Texts, Approve(t, x) PROVE JInv'
  <2>1. latest \in Revisions /\ latest <= latest BY DEF IInv, TypeOK, Revisions
  <2>2. Asks(t, "approve", latest, x, 0) BY <1>2, Zenon DEF Approve
  <2>3. x # NoText BY ConstAssumption DEF ConstAssumption, NoText
  <2> QED BY <2>1, <2>2, <2>3, AsksKeepsOn, Zenon
<1>3. ASSUME NEW t \in Tasks, NEW r \in Revisions, Recover(t, r) PROVE JInv'
  <2>1. Asks(t, "recover", r, row[r].text, 0) /\ row[r].text # NoText /\ r = latest
    BY <1>3, Zenon DEF Recover, MayRecover
  <2>2. r <= latest BY <2>1 DEF Revisions
  <2> QED BY <2>1, <2>2, AsksKeepsOn, Zenon
<1>4. ASSUME NEW t \in Tasks, NEW r \in Revisions, NEW n \in DOMAIN changes, Reconcile(t, r, n) PROVE JInv'
  <2>1. Asks(t, "reconcile", r, row[r].text, n) /\ row[r] # NoRow BY <1>4, Zenon DEF Reconcile, Unsettled
  <2> QED BY <2>1, RecordedRevision, AsksKeepsOn, Zenon
<1>5. ASSUME NEW t \in Tasks, Attempt(t) PROVE JInv' BY <1>1, <1>5, AttemptKeepsOn, Zenon
<1>6. ASSUME NEW t \in Tasks, Look(t) \/ Claim(t) \/ Ask(t) \/ Recheck(t) \/ Settle(t) PROVE JInv'
  BY <1>6, ReadsKeepsOn, Zenon
<1>7. ASSUME NEW to, NEW onto, NEW rewrite, Submit(to, onto, rewrite) PROVE JInv'
  <2>1. latest' \in Revisions BY <1>1, Zenon DEF IInv, TypeOK
  <2> QED BY <1>7, <2>1, SubmitKeepsOn, Zenon
<1>8. CASE UNCHANGED vars
  <2>1. /\ review' = review /\ latest' = latest /\ row' = row /\ task' = task /\ opens' = opens
        /\ landed' = landed /\ raced' = raced /\ branch' = branch /\ changes' = changes
    BY <1>8, Zenon DEF vars, forge
  <2>2. Traces' /\ TakenUp' /\ \A t \in Tasks : Tracks(t)'
    BY <2>1, Zenon DEF JInv, Traces, TakenUp, Tracks, MayRecover, Unsettled, Outcome, At, Rev
  <2>3. (Stays => Stays') /\ \A t \in Tasks : First(t) => First(t)' BY <2>1, Zenon DEF Stays, First, Rev
  <2>4. (Findable => Findable') /\ (OnceEach => OnceEach') /\ Carried' = Carried
    BY <2>1, Zenon DEF Findable, OnceEach, Carried
  <2>5. \A t \in Tasks : Missed(t) => Missed(t)' BY <2>1, Zenon DEF Missed, At, Rev
  <2> QED BY <2>1, <2>2, <2>3, <2>4, <2>5, Zenon DEF JInv
<1> QED BY <1>2, <1>3, <1>4, <1>5, <1>6, <1>7, <1>8, RestartKeepsOn, OthersKeepOn, Zenon DEF Next

\* What the two theorems below rest on.
LEMMA Once == Spec => [](IInv /\ JInv)
<1>1. Init => IInv /\ JInv BY InitIInv, InitJInv
<1>2. IInv /\ JInv /\ [Next]_vars => (IInv /\ JInv)' BY NextIInv, NextJInv
<1> QED BY <1>1, <1>2, PTL DEF Spec

\* A publication opens its change once and posts its comment once, however often it
\* is retried, while one request at a time holds the claim and nobody carries the
\* change on and closes it.
THEOREM PublishedOnce == Spec => []HappensOnce
<1>1. JInv => HappensOnce BY Zenon DEF JInv, HappensOnce, OnceEach
<1> QED BY <1>1, Once, PTL

\* A review is not left in `publishing` with no way out, as long as no earlier
\* revision of it has a record.
THEOREM ClaimsHaveAWayOut == Spec => []WayOutOfFirst
<1>1. ASSUME IInv, JInv PROVE WayOutOfFirst
  <2>1. SUFFICES ASSUME \A r \in Revisions : r # latest => row[r] = NoRow, review = "publishing", Quiet
                 PROVE  MayRecover(latest) \/ (row[latest] # NoRow /\ ~row[latest].mine)
    BY Zenon DEF WayOutOfFirst, WayOut
  <2>2. \A t \in Tasks : task[t].pc \notin Held BY <2>1, Zenon DEF Quiet, At, Held
  <2> QED BY <1>1, <2>1, <2>2, Zenon DEF JInv, TakenUp
<1> QED BY <1>1, Once, PTL

=============================================================================
