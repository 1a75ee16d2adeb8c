---------------------------- MODULE RolloutsProofs ----------------------------
(***************************************************************************)
(* Proofs about Rollouts for every set of targets, every bundle and every  *)
(* assignment of versions, and any number of rollouts and faults.          *)
(***************************************************************************)
EXTENDS Rollouts, WellFoundedInduction, TLAPS

\* What a target says of itself is true for good: a receipt of an applied rollout
\* and a hello name bundles it has had installed, and ran only grows.
AnswersAreTrue ==
    \A t \in Targets :
        /\ runs[t] \in ran[t] /\ NoBundle \in ran[t]
        /\ \A i \in DOMAIN receipts[t] :
                receipts[t][i].applied => bundle[receipts[t][i].r] \in ran[t]
        /\ \A i \in DOMAIN hellos[t] : hellos[t][i] \in ran[t]

\* The rollouts that exist have a bundle, the others no rows; a row is settled as
\* applied by an answer alone.
RowsAreTrue ==
    /\ \A r \in 1 .. count : bundle[r] \in Bundles
    /\ \A r \in Rollouts, t \in Targets : row[r][t] = "applied" => bundle[r] \in ran[t]
    /\ \A r \in Rollouts, t \in Targets : row[r][t] # "none" => r <= count

\* A target that only the mesh has installed bundles on runs the newest it ever had.
RunsItsNewest ==
    \A t \in Targets \ strayed :
        /\ ~torn[t]
        /\ runs[t] = NoBundle => ran[t] \subseteq {NoBundle}
        /\ \A b \in ran[t] \ {NoBundle} : version[b] <= version[runs[t]]

IInv == TypeOK /\ AnswersAreTrue /\ RowsAreTrue /\ RunsItsNewest

-----------------------------------------------------------------------------
(* Queues of frames *)

\* What is left after the first frame of a queue was in it before.
LEMMA TailMembers ==
    ASSUME NEW S, NEW q \in Seq(S), q # <<>>
    PROVE  /\ Tail(q) \in Seq(S) /\ Head(q) \in S /\ 1 \in DOMAIN q /\ q[1] = Head(q)
           /\ \A i \in DOMAIN Tail(q) : i + 1 \in DOMAIN q /\ Tail(q)[i] = q[i + 1]
<1>1. Len(q) \in Nat \ {0} /\ DOMAIN q = 1 .. Len(q)
  OBVIOUS
<1> QED BY <1>1

\* A frame of the longer queue was in it before or is the one appended.
LEMMA AppendMembers ==
    ASSUME NEW S, NEW q \in Seq(S), NEW e \in S
    PROVE  /\ Append(q, e) \in Seq(S)
           /\ \A i \in DOMAIN Append(q, e) :
                    \/ i \in DOMAIN q /\ Append(q, e)[i] = q[i]
                    \/ Append(q, e)[i] = e
OBVIOUS

\* A queue of a narrower type is one of a wider.
LEMMA SeqWidens ==
    ASSUME NEW S, NEW T, S \subseteq T, NEW q \in Seq(S)
    PROVE  q \in Seq(T)
OBVIOUS

-----------------------------------------------------------------------------
(* The inductive invariant *)

\* Before the first rollout no target has a bundle and nothing is under way.
LEMMA InitIInv == Init => IInv
<1> SUFFICES ASSUME Init PROVE IInv BY Zenon
<1> USE ConstAssumption DEF ConstAssumption, Init, NoBundle, Rollouts
<1>1. TypeOK BY DEF TypeOK, Status
<1>2. AnswersAreTrue BY DEF AnswersAreTrue
<1>3. RowsAreTrue BY DEF RowsAreTrue
<1>4. RunsItsNewest BY Zenon DEF RunsItsNewest
<1> QED BY <1>1, <1>2, <1>3, <1>4, Zenon DEF IInv

\* A step of the signing node touches no target, one of a target no row.
LEMMA Untouched ==
    ASSUME IInv
    PROVE  /\ UNCHANGED <<runs, ran, receipts, bundle, hellos>> => AnswersAreTrue'
           /\ UNCHANGED <<count, bundle, row, ran>> => RowsAreTrue'
           /\ UNCHANGED <<strayed, torn, runs, ran, version>> => RunsItsNewest'
<1>1. UNCHANGED <<runs, ran, receipts, bundle, hellos>> => AnswersAreTrue'
  BY Zenon DEF IInv, AnswersAreTrue
<1>2. UNCHANGED <<count, bundle, row, ran>> => RowsAreTrue'
  BY Zenon DEF IInv, RowsAreTrue
<1>3. UNCHANGED <<strayed, torn, runs, ran, version>> => RunsItsNewest'
  BY Zenon DEF IInv, RunsItsNewest
<1> QED BY <1>1, <1>2, <1>3, Zenon

\* A receipt on its way is for a rollout that exists.
LEMMA ReceiptsAreTyped ==
    ASSUME IInv, NEW t \in Targets, NEW i \in DOMAIN receipts[t]
    PROVE  receipts[t][i].r \in 1 .. count /\ receipts[t][i].applied \in BOOLEAN
<1> DEFINE Receipt == [r : 1 .. count, applied : BOOLEAN]
<1>1. receipts[t] \in Seq(Receipt)
  BY Zenon DEF IInv, TypeOK
<1>2. receipts[t][i] \in Receipt
  <2> HIDE DEF Receipt
  <2> QED BY <1>1
<1> QED BY <1>2, Zenon

\* Constants and state, as the steps below use them.
LEMMA Facts ==
    ASSUME IInv
    PROVE  /\ MaxRollouts \in Nat /\ MaxFaults \in Nat /\ 0 \notin Bundles
           /\ count \in 0 .. MaxRollouts /\ faults \in 0 .. MaxFaults
           /\ version \in [Bundles -> Nat]
BY ConstAssumption, Zenon DEF ConstAssumption, IInv, TypeOK

\* Faults stay within their bound.
LEMMA FaultCounted ==
    ASSUME IInv, Fault
    PROVE  faults' \in 0 .. MaxFaults
BY Facts DEF Fault

\* apply_policy makes a rollout with pending rows.
LEMMA ApplyKeeps ==
    ASSUME IInv, NEW b \in Bundles, NEW ts \in SUBSET Targets, Apply(b, ts)
    PROVE  IInv'
<1> DEFINE r == count + 1
<1>0. r \in Rollouts /\ count' = r /\ bundle' = [bundle EXCEPT ![r] = b]
      /\ \A x \in 1 .. count : x \in Rollouts /\ x # r
  BY Facts DEF Apply, Rollouts
<1>1. row' \in [Rollouts -> [Targets -> Status]]
  BY <1>0 DEF Apply, SupersedeOlder, IInv, TypeOK, Status
<1>2. \A x \in Rollouts, t \in Targets : row'[x][t] = "applied" => row[x][t] = "applied" /\ x # r
  BY <1>0, Zenon DEF Apply, SupersedeOlder, IInv, TypeOK
<1>3. \A x \in Rollouts, t \in Targets : row'[x][t] # "none" => row[x][t] # "none" \/ x = r
  BY <1>0, Zenon DEF Apply, SupersedeOlder, IInv, TypeOK
<1>4. TypeOK'
  <2>1. 1 .. count \subseteq 1 .. r /\ count' \in 0 .. MaxRollouts
    BY Facts, <1>0 DEF Rollouts
  <2>2. todo' \cup queued' \subseteq (1 .. count') \X Targets /\ applying' \subseteq todo' \cup queued'
    BY <1>0, <2>1, Facts, SMTT(40) DEF Apply, IInv, TypeOK
  <2>3. toPeer' \in [Targets -> Seq(1 .. count')]
    BY <1>0, <2>1, SeqWidens, Zenon DEF Apply, IInv, TypeOK
  <2>4. receipts' \in [Targets -> Seq([r : 1 .. count', applied : BOOLEAN])]
    <3> DEFINE Old == [r : 1 .. count, applied : BOOLEAN]
               New == [r : 1 .. count', applied : BOOLEAN]
    <3>1. Old \subseteq New
      BY <1>0, <2>1, Zenon
    <3>2. receipts \in [Targets -> Seq(Old)] /\ receipts' = receipts
      BY Zenon DEF Apply, IInv, TypeOK
    <3> HIDE DEF Old, New
    <3>3. receipts' \in [Targets -> Seq(New)]
      BY <3>1, <3>2, SeqWidens, Zenon
    <3> QED BY <3>3, Zenon DEF New
  <2>5. bundle' \in [Rollouts -> Bundles \cup {NoBundle}]
    BY <1>0, Zenon DEF IInv, TypeOK
  <2> QED BY <1>0, <1>1, <2>1, <2>2, <2>3, <2>4, <2>5, Zenon DEF Apply, IInv, TypeOK
<1>5. AnswersAreTrue'
  <2>1. ASSUME NEW t \in Targets, NEW i \in DOMAIN receipts[t], receipts[t][i].applied
        PROVE  bundle'[receipts[t][i].r] \in ran[t]
    <3>1. receipts[t][i].r \in 1 .. count
      BY ReceiptsAreTyped, Zenon
    <3> QED BY <1>0, <2>1, <3>1, Zenon DEF IInv, TypeOK, AnswersAreTrue
  <2> QED BY <2>1, Zenon DEF Apply, IInv, AnswersAreTrue
<1>6. RowsAreTrue'
  <2>1. \A x \in 1 .. count' : bundle'[x] \in Bundles
    BY <1>0, Facts DEF IInv, TypeOK, RowsAreTrue
  <2>2. \A x \in Rollouts, t \in Targets : row'[x][t] = "applied" => bundle'[x] \in ran'[t]
    BY <1>0, <1>2, Zenon DEF Apply, IInv, TypeOK, RowsAreTrue
  <2>3. \A x \in Rollouts, t \in Targets : row'[x][t] # "none" => x <= count'
    BY <1>0, <1>3, Facts DEF IInv, RowsAreTrue, Rollouts
  <2> QED BY <2>1, <2>2, <2>3, Zenon DEF RowsAreTrue
<1>7. RunsItsNewest'
  BY Untouched, Zenon DEF Apply
<1> QED BY <1>4, <1>5, <1>6, <1>7, Zenon DEF IInv

\* Some rollouts that exist have a newest: what is left below count has a least.
LEMMA NewestExists ==
    ASSUME NEW n \in Nat, NEW S \in SUBSET (1 .. n), S # {}
    PROVE  \E m \in S : \A x \in S : x <= m
<1> DEFINE Below == {d \in Nat : n - d \in S}
           less == OpToRel(<, Nat)
<1>1. Below # {} /\ Below \subseteq Nat
  <2>1. PICK x \in S : TRUE BY Zenon
  <2>2. n - x \in Nat /\ n - (n - x) = x OBVIOUS
  <2> QED BY <2>1, <2>2, Zenon
<1>2. \A x, y \in Nat : x < y => <<x, y>> \in less
  BY Zenon DEF OpToRel
<1>3. PICK d \in Below : \A e \in Below : <<e, d>> \notin less
  <2> HIDE DEF Below, less
  <2> QED BY <1>1, WFMin, NatLessThanWellFounded, Zenon DEF less
<1>4. \A e \in Below : d <= e
  <2> SUFFICES ASSUME NEW e \in Below, ~(d <= e) PROVE FALSE BY Zenon
  <2>1. e \in Nat /\ d \in Nat /\ e < d OBVIOUS
  <2> HIDE DEF Below, less
  <2>2. <<e, d>> \in less BY <1>2, <2>1, Zenon
  <2> QED BY <1>3, <2>2, Zenon
<1>5. \A x \in S : x <= n - d
  <2> SUFFICES ASSUME NEW x \in S PROVE x <= n - d BY Zenon
  <2>1. n - x \in Nat /\ n - (n - x) = x OBVIOUS
  <2>2. n - x \in Below BY <2>1, Zenon
  <2>3. d <= n - x /\ d \in Nat BY <1>4, <2>2, Zenon
  <2> QED BY <2>3
<1> QED BY <1>5, Zenon

\* The rollout a reconciliation finds due is one of those that exist.
LEMMA ReconciledIsDue ==
    ASSUME IInv, NEW rows, NEW t \in Targets, NEW up \in BOOLEAN
    PROVE  Reconciled(rows, t, up) \subseteq todo \cup ((1 .. count) \X Targets)
           /\ todo \subseteq Reconciled(rows, t, up)
<1> DEFINE live == {x \in 1 .. count : rows[x][t] \notin {"none", "superseded"}}
<1>1. Newest(rows, t) = 0 \/ Newest(rows, t) \in live
  <2>1. CASE live = {} BY <2>1, Zenon DEF Newest
  <2>2. CASE live # {}
    <3> DEFINE P(m) == \A x \in live : x <= m
    <3>1. \E m \in live : P(m)
      <4>1. live \subseteq 1 .. count /\ count \in Nat BY Facts
      <4> QED BY <2>2, <4>1, NewestExists, Zenon
    <3>2. (CHOOSE m \in live : P(m)) \in live
      BY <3>1, Zenon
    <3> QED BY <2>2, <3>2, Zenon DEF Newest
  <2> QED BY <2>1, <2>2, Zenon
<1> QED BY <1>1 DEF Reconciled

\* The tasks of the signing node that send, mark and forget: they settle no row as
\* applied and touch no target.
LEMMA SenderKeeps ==
    ASSUME IInv, NEW r, NEW t,
           \/ r \in Rollouts /\ Retry(r)
           \/ r \in Rollouts /\ t \in Targets /\ (Enqueue(r, t) \/ MarkSent(r, t) \/ EnqueueFails(r, t))
           \/ t \in Targets /\ (Reconcile(t) \/ GoesQuiet(t) \/ ComesBack(t))
           \/ Restart
    PROVE  IInv'
<1>1. AnswersAreTrue' /\ RunsItsNewest'
  BY Untouched, Zenon DEF Retry, Enqueue, MarkSent, EnqueueFails, Restart, Reconcile, GoesQuiet, ComesBack
<1>2. CASE r \in Rollouts /\ Retry(r)
  <2>1. r \in 1 .. count
    BY <1>2, Facts DEF Retry, IInv, RowsAreTrue, Rollouts
  <2>2. TypeOK'
    BY <1>2, <2>1, Zenon DEF Retry, IInv, TypeOK
  <2> QED BY <1>1, <1>2, <2>2, Untouched, Zenon DEF Retry, IInv
<1>3. CASE r \in Rollouts /\ t \in Targets /\ Enqueue(r, t)
  <2>1. r \in 1 .. count BY <1>3, Zenon DEF Enqueue, IInv, TypeOK
  <2>2. toPeer' \in [Targets -> Seq(1 .. count)]
    BY <1>3, <2>1, AppendMembers, Zenon DEF Enqueue, IInv, TypeOK
  <2>3. TypeOK'
    BY <1>3, <2>2, Zenon DEF Enqueue, IInv, TypeOK
  <2> QED BY <1>1, <1>3, <2>3, Untouched, Zenon DEF Enqueue, IInv
<1>4. CASE r \in Rollouts /\ t \in Targets /\ MarkSent(r, t)
  <2>1. r \in 1 .. count BY <1>4, Zenon DEF MarkSent, IInv, TypeOK
  <2>2. row' \in [Rollouts -> [Targets -> Status]]
    BY <1>4, Zenon DEF MarkSent, Mark, IInv, TypeOK, Status
  <2>3. TypeOK'
    BY <1>4, <2>2, ZenonT(30) DEF MarkSent, IInv, TypeOK
  <2>4. RowsAreTrue'
    BY <1>4, <2>1, Facts, SMTT(40) DEF MarkSent, Mark, IInv, TypeOK, RowsAreTrue
  <2> QED BY <1>1, <2>3, <2>4, Zenon DEF IInv
<1>5. CASE r \in Rollouts /\ t \in Targets /\ EnqueueFails(r, t)
  <2>1. r \in 1 .. count BY <1>5, Zenon DEF EnqueueFails, IInv, TypeOK
  <2>2. row' \in [Rollouts -> [Targets -> Status]]
    BY <1>5, Zenon DEF EnqueueFails, IInv, TypeOK, Status
  <2>3. TypeOK'
    <3>1. faults' \in 0 .. MaxFaults BY <1>5, FaultCounted, Zenon DEF EnqueueFails
    <3>2. applying' \subseteq todo' \cup queued' /\ todo' \cup queued' \subseteq (1 .. count) \X Targets
      BY <1>5, SMTT(30), SMTT(40) DEF EnqueueFails, IInv, TypeOK
    <3> QED BY <1>5, <2>2, <3>1, <3>2, Zenon DEF EnqueueFails, IInv, TypeOK
  <2>4. RowsAreTrue'
    BY <1>5, <2>1, Facts, SMTT(40) DEF EnqueueFails, IInv, TypeOK, RowsAreTrue
  <2> QED BY <1>1, <2>3, <2>4, Zenon DEF IInv
<1>6. CASE Restart
  <2>1. TypeOK'
    <3>1. faults' \in 0 .. MaxFaults BY <1>6, FaultCounted, Zenon DEF Restart
    <3> QED BY <1>6, <3>1, Zenon DEF Restart, IInv, TypeOK
  <2> QED BY <1>1, <1>6, <2>1, Untouched, Zenon DEF Restart, IInv
<1>7. CASE t \in Targets /\ Reconcile(t)
  <2>0. todo \subseteq todo' /\ todo' \subseteq todo \cup ((1 .. count) \X Targets)
    <3>1. reach[t] \in BOOLEAN BY <1>7, Zenon DEF IInv, TypeOK
    <3> QED BY <1>7, <3>1, ReconciledIsDue, Zenon DEF Reconcile
  <2>1. TypeOK'
    <3>1. applying' \subseteq todo' \cup queued' /\ todo' \cup queued' \subseteq (1 .. count) \X Targets
      BY <1>7, <2>0, Zenon DEF Reconcile, IInv, TypeOK
    <3> QED BY <1>7, <3>1, Zenon DEF Reconcile, IInv, TypeOK
  <2> QED BY <1>1, <1>7, <2>1, Untouched, Zenon DEF Reconcile, IInv
<1>8. CASE t \in Targets /\ GoesQuiet(t)
  <2>1. TypeOK'
    <3>1. faults' \in 0 .. MaxFaults BY <1>8, FaultCounted, Zenon DEF GoesQuiet
    <3> QED BY <1>8, <3>1, Zenon DEF GoesQuiet, IInv, TypeOK
  <2> QED BY <1>1, <1>8, <2>1, Untouched, Zenon DEF GoesQuiet, IInv
<1>9. CASE t \in Targets /\ ComesBack(t)
  <2>0. todo \subseteq todo' /\ todo' \subseteq todo \cup ((1 .. count) \X Targets)
    <3>1. TRUE \in BOOLEAN BY Zenon DEF IInv, TypeOK
    <3> QED BY <1>9, <3>1, ReconciledIsDue, Zenon DEF ComesBack
  <2>1. TypeOK'
    <3>1. applying' \subseteq todo' \cup queued' /\ todo' \cup queued' \subseteq (1 .. count) \X Targets
      BY <1>9, <2>0, Zenon DEF ComesBack, IInv, TypeOK
    <3> QED BY <1>9, <3>1, Zenon DEF ComesBack, IInv, TypeOK
  <2> QED BY <1>1, <1>9, <2>1, Untouched, Zenon DEF ComesBack, IInv
<1> QED BY <1>2, <1>3, <1>4, <1>5, <1>6, <1>7, <1>8, <1>9, Zenon

\* A receipt or a hello that is read settles rows by what the target had installed.
LEMMA AnswersKeep ==
    ASSUME IInv, NEW t \in Targets, ReceiveReceipt(t) \/ ReceiveHello(t)
    PROVE  IInv'
<1>1. CASE ReceiveReceipt(t)
  <2> DEFINE m == Head(receipts[t])
             Receipt == [r : 1 .. count, applied : BOOLEAN]
  <2>1. /\ m \in Receipt /\ Tail(receipts[t]) \in Seq(Receipt) /\ 1 \in DOMAIN receipts[t]
        /\ receipts[t][1] = m
        /\ \A i \in DOMAIN Tail(receipts[t]) :
                i + 1 \in DOMAIN receipts[t] /\ Tail(receipts[t])[i] = receipts[t][i + 1]
    <3>1. receipts[t] \in Seq(Receipt) /\ receipts[t] # <<>>
      BY <1>1, Zenon DEF ReceiveReceipt, IInv, TypeOK
    <3> HIDE DEF Receipt
    <3> QED BY <3>1, TailMembers, Zenon
  <2>2. m.r \in 1 .. count /\ m.r \in Rollouts /\ m.applied \in BOOLEAN
    BY <2>1, Facts DEF Rollouts
  <2>3. m.applied => bundle[m.r] \in ran[t]
    BY <2>1, Zenon DEF IInv, AnswersAreTrue
  <2>4. receipts' \in [Targets -> Seq(Receipt)]
    <3> HIDE DEF Receipt
    <3>1. receipts \in [Targets -> Seq(Receipt)] BY Zenon DEF IInv, TypeOK, Receipt
    <3> QED BY <1>1, <2>1, <3>1, Zenon DEF ReceiveReceipt
  <2>5. row' = [row EXCEPT ![m.r][t] = RecordReceipt(@, m.applied)]
    BY <1>1, Zenon DEF ReceiveReceipt
  <2> HIDE DEF m
  <2>6. TypeOK'
    <3>1. row' \in [Rollouts -> [Targets -> Status]]
      BY <2>2, <2>5, SMTT(30), SMTT(40) DEF RecordReceipt, IInv, TypeOK, Status
    <3> QED BY <1>1, <2>4, <3>1, Zenon DEF ReceiveReceipt, IInv, TypeOK
  <2>7. AnswersAreTrue'
    <3>1. \A u \in Targets : receipts'[u] = IF u = t THEN Tail(receipts[t]) ELSE receipts[u]
      BY <1>1, Zenon DEF ReceiveReceipt, IInv, TypeOK
    <3> QED BY <1>1, <2>1, <3>1, SMTT(30) DEF ReceiveReceipt, IInv, AnswersAreTrue
  <2>8. RowsAreTrue'
    <3>1. \A r \in Rollouts, u \in Targets : row'[r][u] = "applied" => bundle[r] \in ran[u]
      BY <2>2, <2>3, <2>5, Zenon DEF RecordReceipt, IInv, TypeOK, RowsAreTrue
    <3>2. \A r \in Rollouts, u \in Targets : row'[r][u] # "none" => r <= count
      BY <2>2, <2>5, Facts, SMTT(30) DEF IInv, TypeOK, RowsAreTrue
    <3> QED BY <1>1, <3>1, <3>2, Zenon DEF ReceiveReceipt, IInv, RowsAreTrue
  <2>9. RunsItsNewest'
    BY <1>1, Untouched, Zenon DEF ReceiveReceipt
  <2> QED BY <2>6, <2>7, <2>8, <2>9, Zenon DEF IInv
<1>2. CASE ReceiveHello(t)
  <2> DEFINE b == Head(hellos[t])
             B == Bundles \cup {NoBundle}
             rows == ConfirmedByHello(row, t, b)
  <2>1. /\ Tail(hellos[t]) \in Seq(B) /\ 1 \in DOMAIN hellos[t] /\ hellos[t][1] = b
        /\ \A i \in DOMAIN Tail(hellos[t]) :
                i + 1 \in DOMAIN hellos[t] /\ Tail(hellos[t])[i] = hellos[t][i + 1]
    <3>1. hellos[t] \in Seq(B) /\ hellos[t] # <<>>
      BY <1>2, Zenon DEF ReceiveHello, IInv, TypeOK
    <3> HIDE DEF B
    <3> QED BY <3>1, TailMembers, Zenon
  <2>2. b \in ran[t]
    BY <2>1, Zenon DEF IInv, AnswersAreTrue
  <2>3. row' = rows /\ todo' = IF reach[t] THEN todo ELSE Reconciled(rows, t, TRUE)
    BY <1>2, Zenon DEF ReceiveHello
  <2>4. \A r \in Rollouts : rows[r] \in [Targets -> Status] /\ \A u \in Targets :
            rows[r][u] = row[r][u] \/ (rows[r][u] = "applied" /\ row[r][u] # "none" /\ u = t /\ bundle[r] = b)
    BY Zenon DEF ConfirmedByHello, IInv, TypeOK, Status
  <2>5. rows \in [Rollouts -> [Targets -> Status]]
    BY <2>4, Zenon DEF ConfirmedByHello
  <2> HIDE DEF rows, b
  <2>6. TypeOK'
    <3>1. todo \subseteq todo' /\ todo' \subseteq todo \cup ((1 .. count) \X Targets)
      BY <2>3, ReconciledIsDue, Zenon
    <3>2. applying' \subseteq todo' \cup queued' /\ todo' \cup queued' \subseteq (1 .. count) \X Targets
      BY <1>2, <3>1, Zenon DEF ReceiveHello, IInv, TypeOK
    <3>3. hellos' \in [Targets -> Seq(B)]
      BY <1>2, <2>1, Zenon DEF ReceiveHello, IInv, TypeOK
    <3>4. reach' \in [Targets -> BOOLEAN]
      BY <1>2, SMTT(30), SMTT(40) DEF ReceiveHello, IInv, TypeOK
    <3> QED BY <1>2, <2>3, <2>5, <3>2, <3>3, <3>4, Zenon DEF ReceiveHello, IInv, TypeOK
  <2>7. AnswersAreTrue'
    <3>1. \A u \in Targets : hellos'[u] = IF u = t THEN Tail(hellos[t]) ELSE hellos[u]
      BY <1>2, SMTT(30), SMTT(40) DEF ReceiveHello, IInv, TypeOK
    <3> QED BY <1>2, <2>1, <3>1 DEF ReceiveHello, IInv, AnswersAreTrue
  <2>8. RowsAreTrue'
    BY <1>2, <2>2, <2>3, <2>4 DEF ReceiveHello, IInv, RowsAreTrue
  <2>9. RunsItsNewest'
    BY <1>2, Untouched, Zenon DEF ReceiveHello
  <2> QED BY <2>6, <2>7, <2>8, <2>9, Zenon DEF IInv
<1> QED BY <1>1, <1>2, Zenon

\* A bundle a target takes from the mesh is newer than every one it ran, unless its
\* operator or a stop in an install came in between.
LEMMA TakesNewer ==
    ASSUME IInv, NEW t \in Targets \ strayed, NEW b \in Bundles,
           JudgeOffer(Verified(t), b) = "install"
    PROVE  \A c \in ran[t] \ {NoBundle} : version[c] < version[b]
<1>1. /\ Verified(t) = runs[t] /\ t \in Targets
      /\ runs[t] \in Bundles \cup {NoBundle} /\ ran[t] \subseteq Bundles \cup {NoBundle}
  BY Zenon DEF Verified, IInv, TypeOK, RunsItsNewest
<1>2. CASE runs[t] = NoBundle
  BY <1>2, Zenon DEF IInv, RunsItsNewest
<1>3. CASE runs[t] # NoBundle
  <2>1. version[b] \in Nat /\ version[runs[t]] \in Nat /\ ~(version[b] <= version[runs[t]])
    BY <1>1, <1>3, Facts, Zenon DEF JudgeOffer
  <2>2. \A c \in ran[t] \ {NoBundle} : version[c] \in Nat /\ version[c] <= version[runs[t]]
    BY <1>1, Facts, Zenon DEF IInv, RunsItsNewest
  <2> QED BY <2>1, <2>2
<1> QED BY <1>2, <1>3, SMTT(30)

\* The frame at the head of a queue to a target is of a rollout that exists.
LEMMA FirstFrame ==
    ASSUME IInv, NEW t \in Targets, toPeer[t] # <<>>
    PROVE  /\ Head(toPeer[t]) \in 1 .. count /\ bundle[Head(toPeer[t])] \in Bundles
           /\ [toPeer EXCEPT ![t] = Tail(@)] \in [Targets -> Seq(1 .. count)]
<1>1. Head(toPeer[t]) \in 1 .. count /\ Tail(toPeer[t]) \in Seq(1 .. count)
  BY TailMembers, SMTT(30) DEF IInv, TypeOK
<1> QED BY <1>1, Zenon DEF IInv, TypeOK, RowsAreTrue

\* An install adds to what the target has had and leaves the others alone.
LEMMA Installed ==
    ASSUME IInv, NEW t \in Targets, NEW b \in Bundles, Installs(t, b)
    PROVE  /\ runs' \in [Targets -> Bundles \cup {NoBundle}] /\ torn' \in [Targets -> BOOLEAN]
           /\ ran' \in [Targets -> SUBSET (Bundles \cup {NoBundle})]
           /\ \A u \in Targets : ran[u] \subseteq ran'[u] /\ runs'[u] \in ran'[u]
           /\ ran'[t] = ran[t] \cup {b} /\ runs'[t] = b /\ ~torn'[t]
           /\ \A u \in Targets \ {t} : ran'[u] = ran[u] /\ runs'[u] = runs[u] /\ torn'[u] = torn[u]
<1>1. /\ runs \in [Targets -> Bundles \cup {NoBundle}] /\ torn \in [Targets -> BOOLEAN]
      /\ ran \in [Targets -> SUBSET (Bundles \cup {NoBundle})]
      /\ \A u \in Targets : runs[u] \in ran[u]
  BY Zenon DEF IInv, TypeOK, AnswersAreTrue
<1>2. /\ ran'[t] = ran[t] \cup {b} /\ runs'[t] = b /\ ~torn'[t]
      /\ \A u \in Targets \ {t} : ran'[u] = ran[u] /\ runs'[u] = runs[u] /\ torn'[u] = torn[u]
  BY <1>1, Zenon DEF Installs
<1>3. \A u \in Targets : ran[u] \subseteq ran'[u] /\ runs'[u] \in ran'[u]
  BY <1>1, <1>2, Zenon
<1>4. /\ runs' \in [Targets -> Bundles \cup {NoBundle}] /\ torn' \in [Targets -> BOOLEAN]
      /\ ran' \in [Targets -> SUBSET (Bundles \cup {NoBundle})]
  BY <1>1, Zenon DEF Installs
<1> QED BY <1>2, <1>3, <1>4, SMTT(30)

\* The target reads a bundle, judges it and answers.
LEMMA ReceiveBundleKeeps ==
    ASSUME IInv, NEW t \in Targets, ReceiveBundle(t)
    PROVE  IInv'
<1> DEFINE r == Head(toPeer[t])
           offer == JudgeOffer(Verified(t), bundle[r])
           m == [r |-> r, applied |-> offer # "refuse"]
           Receipt == [r : 1 .. count, applied : BOOLEAN]
<1>1. r \in 1 .. count /\ bundle[r] \in Bundles /\ toPeer' \in [Targets -> Seq(1 .. count)]
  BY FirstFrame, Zenon DEF ReceiveBundle
<1>2. /\ IF offer = "install" THEN Installs(t, bundle[r]) ELSE UNCHANGED <<runs, torn, ran>>
      /\ receipts' = [receipts EXCEPT ![t] = Append(@, m)]
      /\ UNCHANGED <<version, count, bundle, applying, row, todo, queued, hellos, reach, said, faults, strayed>>
  BY SMTT(30) DEF ReceiveBundle
<1>3. m \in Receipt /\ m.r = r
  BY <1>1, Zenon
<1>4. /\ runs' \in [Targets -> Bundles \cup {NoBundle}] /\ torn' \in [Targets -> BOOLEAN]
      /\ ran' \in [Targets -> SUBSET (Bundles \cup {NoBundle})]
  BY <1>1, <1>2, Installed, ZenonT(30) DEF IInv, TypeOK
<1>5. \A u \in Targets : ran[u] \subseteq ran'[u] /\ runs'[u] \in ran'[u]
  BY <1>1, <1>2, Installed, SMTT(30) DEF IInv, AnswersAreTrue
<1>6. m.applied => bundle[r] \in ran'[t]
  <2>1. CASE offer = "install"
    BY <1>1, <1>2, <2>1, Installed, Zenon
  <2>2. CASE offer = "already"
    <3>1. bundle[r] = Verified(t) /\ bundle[r] # NoBundle
      BY <2>2, Zenon DEF JudgeOffer
    <3>2. bundle[r] = runs[t]
      BY <3>1, Zenon DEF Verified
    <3> QED BY <1>5, <3>2, Zenon DEF IInv, AnswersAreTrue
  <2>3. CASE offer = "refuse"
    BY <2>3, Zenon
  <2> QED BY <2>1, <2>2, <2>3, Zenon DEF JudgeOffer
<1>7. /\ receipts' \in [Targets -> Seq(Receipt)]
      /\ \A u \in Targets : \A i \in DOMAIN receipts'[u] :
            \/ i \in DOMAIN receipts[u] /\ receipts'[u][i] = receipts[u][i]
            \/ u = t /\ receipts'[u][i] = m
  <2> HIDE DEF Receipt, m
  <2>1. receipts \in [Targets -> Seq(Receipt)] BY Zenon DEF IInv, TypeOK, Receipt
  <2>2. receipts[t] \in Seq(Receipt) /\ receipts' = [receipts EXCEPT ![t] = Append(receipts[t], m)]
    BY <1>2, <2>1, SMTT(30)
  <2>3. Append(receipts[t], m) \in Seq(Receipt)
    BY <1>3, <2>2, AppendMembers, Zenon
  <2>4. receipts' \in [Targets -> Seq(Receipt)]
    BY <2>1, <2>2, <2>3, Zenon
  <2>5. ASSUME NEW u \in Targets, NEW i \in DOMAIN receipts'[u]
        PROVE  \/ i \in DOMAIN receipts[u] /\ receipts'[u][i] = receipts[u][i]
               \/ u = t /\ receipts'[u][i] = m
    <3>1. CASE u = t
      <4>1. receipts'[u] = Append(receipts[t], m)
        BY <2>1, <2>2, <3>1, Zenon
      <4> QED BY <1>3, <2>2, <3>1, <4>1, AppendMembers
    <3>2. CASE u # t
      <4>1. receipts'[u] = receipts[u]
        BY <2>1, <2>2, <3>2, Zenon
      <4> QED BY <4>1, Zenon
    <3> QED BY <3>1, <3>2, Zenon
  <2> QED BY <2>4, <2>5, Zenon
<1>8. TypeOK'
  BY <1>1, <1>2, <1>4, <1>7, Zenon DEF IInv, TypeOK
<1>9. AnswersAreTrue'
  <2> HIDE DEF m
  <2> SUFFICES ASSUME NEW u \in Targets
               PROVE  /\ NoBundle \in ran'[u]
                      /\ \A i \in DOMAIN receipts'[u] :
                            receipts'[u][i].applied => bundle[receipts'[u][i].r] \in ran'[u]
                      /\ \A i \in DOMAIN hellos[u] : hellos[u][i] \in ran'[u]
    BY <1>2, <1>5, Zenon DEF AnswersAreTrue
  <2>1. \A i \in DOMAIN receipts[u] : receipts[u][i].applied => bundle[receipts[u][i].r] \in ran'[u]
    BY <1>5, Zenon DEF IInv, AnswersAreTrue
  <2>2. \A i \in DOMAIN hellos[u] : hellos[u][i] \in ran'[u]
    BY <1>5, Zenon DEF IInv, AnswersAreTrue
  <2>3. NoBundle \in ran'[u]
    BY <1>5, SMTT(30) DEF IInv, AnswersAreTrue
  <2> QED BY <1>3, <1>6, <1>7, <2>1, <2>2, <2>3, ZenonT(30)
<1>10. RowsAreTrue'
  BY <1>2, <1>5, Zenon DEF IInv, RowsAreTrue
<1>11. RunsItsNewest'
  <2>1. CASE offer = "install" /\ t \notin strayed
    <3>1. \A c \in ran[t] \ {NoBundle} : version[c] < version[bundle[r]]
      BY <1>1, <2>1, TakesNewer, Zenon
    <3>2. /\ ran'[t] = ran[t] \cup {bundle[r]} /\ runs'[t] = bundle[r] /\ ~torn'[t]
          /\ \A u \in Targets \ {t} : ran'[u] = ran[u] /\ runs'[u] = runs[u] /\ torn'[u] = torn[u]
      BY <1>1, <1>2, <2>1, Installed, Zenon
    <3>3. bundle[r] # NoBundle
      BY <1>1, Facts, SMTT(30) DEF NoBundle
    <3>4. \A c \in ran'[t] \ {NoBundle} : version[c] <= version[bundle[r]]
      <4>1. \A c \in ran[t] \ {NoBundle} : version[c] \in Nat
        BY Facts, Zenon DEF IInv, TypeOK
      <4> QED BY <1>1, <3>1, <3>2, <4>1, Facts, SMTT(30)
    <3> QED BY <1>2, <3>2, <3>3, <3>4, ZenonT(30) DEF IInv, RunsItsNewest
  <2>2. CASE offer = "install" /\ t \in strayed
    <3>1. \A u \in Targets \ {t} : ran'[u] = ran[u] /\ runs'[u] = runs[u] /\ torn'[u] = torn[u]
      BY <1>1, <1>2, <2>2, Installed, Zenon
    <3> QED BY <1>2, <2>2, <3>1, Zenon DEF IInv, RunsItsNewest
  <2>3. CASE offer # "install"
    BY <1>2, <2>3, Untouched, Zenon
  <2> QED BY <2>1, <2>2, <2>3, Zenon
<1> QED BY <1>8, <1>9, <1>10, <1>11, Zenon DEF IInv

\* A target that stops in an install keeps the invariant.
LEMMA CrashKeeps ==
    ASSUME IInv, NEW t \in Targets, CrashInstalling(t)
    PROVE  IInv'
<1>1. TypeOK'
  <2>1. faults' \in 0 .. MaxFaults /\ toPeer' \in [Targets -> Seq(1 .. count)]
    BY FaultCounted, FirstFrame, Zenon DEF CrashInstalling
  <2>2. torn' \in [Targets -> BOOLEAN] /\ strayed' \subseteq Targets
    BY SMTT(30) DEF CrashInstalling, IInv, TypeOK
  <2> QED BY <2>1, <2>2, Zenon DEF CrashInstalling, IInv, TypeOK
<1>2. RunsItsNewest'
  BY Zenon DEF CrashInstalling, IInv, TypeOK, RunsItsNewest
<1> QED BY <1>1, <1>2, Untouched, Zenon DEF CrashInstalling, IInv

\* So does an operator who installs a bundle at the target itself.
LEMMA ApplyThereKeeps ==
    ASSUME IInv, NEW t \in Targets, NEW b \in Bundles, ApplyThere(t, b)
    PROVE  IInv'
<1>0. b \in Bundles /\ Installs(t, b) /\ strayed' = strayed \cup {t}
      /\ UNCHANGED <<version, count, bundle, applying, row, todo, queued, toPeer, receipts, hellos, reach>>
  BY Zenon DEF ApplyThere
<1>1. TypeOK'
  <2>1. faults' \in 0 .. MaxFaults BY FaultCounted, SMTT(30), SMTT(40) DEF ApplyThere
  <2> QED BY <1>0, <2>1, Installed, Zenon DEF IInv, TypeOK
<1>2. AnswersAreTrue'
  <2>1. \A u \in Targets : ran[u] \subseteq ran'[u] /\ runs'[u] \in ran'[u]
    BY <1>0, Installed, Zenon
  <2> QED BY <1>0, <2>1, SMTT(30) DEF IInv, AnswersAreTrue
<1>3. RowsAreTrue'
  <2>1. \A u \in Targets : ran[u] \subseteq ran'[u]
    BY <1>0, Installed, ZenonT(30)
  <2> QED BY <1>0, <2>1, Zenon DEF IInv, RowsAreTrue
<1>4. RunsItsNewest'
  <2>1. \A u \in Targets \ {t} : ran'[u] = ran[u] /\ runs'[u] = runs[u] /\ torn'[u] = torn[u]
    BY <1>0, Installed, Zenon
  <2>2. version' = version /\ Targets \ strayed' \subseteq (Targets \ strayed) \ {t}
    BY <1>0, Zenon
  <2>3. ASSUME NEW u \in Targets \ strayed'
        PROVE  /\ ~torn'[u]
               /\ runs'[u] = NoBundle => ran'[u] \subseteq {NoBundle}
               /\ \A c \in ran'[u] \ {NoBundle} : version'[c] <= version'[runs'[u]]
    <3>1. u \in Targets \ strayed /\ ran'[u] = ran[u] /\ runs'[u] = runs[u] /\ torn'[u] = torn[u]
      BY <2>1, <2>2, Zenon
    <3> QED BY <2>2, <3>1, Zenon DEF IInv, RunsItsNewest
  <2> QED BY <2>3, Zenon DEF RunsItsNewest
<1> QED BY <1>1, <1>2, <1>3, <1>4, Zenon DEF IInv

\* A hello names a bundle its target has run.
LEMMA HelloKeeps ==
    ASSUME IInv, NEW t \in Targets, Hello(t)
    PROVE  IInv'
<1> DEFINE B == Bundles \cup {NoBundle}
           h == Verified(t)
<1>1. h \in B /\ hellos \in [Targets -> Seq(B)] /\ hellos' = [hellos EXCEPT ![t] = Append(@, h)]
  BY Zenon DEF Hello, Verified, IInv, TypeOK
<1>2. h \in ran[t]
  BY Zenon DEF Verified, IInv, AnswersAreTrue
<1> HIDE DEF B, h
<1>3. /\ hellos' \in [Targets -> Seq(B)]
      /\ \A u \in Targets : \A i \in DOMAIN hellos'[u] :
              (i \in DOMAIN hellos[u] /\ hellos'[u][i] = hellos[u][i]) \/ (u = t /\ hellos'[u][i] = h)
  BY <1>1, AppendMembers
<1>4. TypeOK' BY <1>3, Zenon DEF Hello, IInv, TypeOK, B
<1>5. AnswersAreTrue'
  <2>1. \A u \in Targets : \A i \in DOMAIN hellos'[u] : hellos'[u][i] \in ran[u]
    BY <1>2, <1>3, Zenon DEF IInv, AnswersAreTrue
  <2> QED BY <2>1, Zenon DEF Hello, IInv, AnswersAreTrue
<1> QED BY <1>4, <1>5, Untouched, Zenon DEF Hello, IInv

\* The hub may lose a bundle.
LEMMA LoseBundleKeeps ==
    ASSUME IInv, NEW t \in Targets, LoseBundle(t)
    PROVE  IInv'
<1>1. TypeOK'
  <2>1. faults' \in 0 .. MaxFaults /\ toPeer' \in [Targets -> Seq(1 .. count)]
    BY FaultCounted, FirstFrame, Zenon DEF LoseBundle
  <2> QED BY <2>1, Zenon DEF LoseBundle, IInv, TypeOK
<1> QED BY <1>1, Untouched, Zenon DEF LoseBundle, IInv

\* The hub may lose a receipt or a hello.
LEMMA LoseAnswerKeeps ==
    ASSUME IInv, NEW t \in Targets, LoseAnswer(t)
    PROVE  IInv'
<1> DEFINE B == Bundles \cup {NoBundle}
           Receipt == [r : 1 .. count, applied : BOOLEAN]
<1>1. receipts \in [Targets -> Seq(Receipt)] /\ hellos \in [Targets -> Seq(B)]
      /\ faults' \in 0 .. MaxFaults
      /\ UNCHANGED <<version, count, bundle, applying, row, todo, queued, toPeer, runs, torn, reach, ran, strayed>>
  BY FaultCounted, Zenon DEF LoseAnswer, IInv, TypeOK
<1>2. CASE receipts[t] # <<>> /\ receipts' = [receipts EXCEPT ![t] = Tail(@)] /\ UNCHANGED hellos
  <2> HIDE DEF B, Receipt
  <2>1. /\ receipts' \in [Targets -> Seq(Receipt)]
        /\ \A u \in Targets : \A i \in DOMAIN receipts'[u] :
              \E j \in DOMAIN receipts[u] : receipts'[u][i] = receipts[u][j]
    BY <1>1, <1>2, TailMembers
  <2>2. TypeOK' BY <1>1, <1>2, <2>1, Zenon DEF IInv, TypeOK, Receipt
  <2>3. AnswersAreTrue'
    <3>1. ASSUME NEW u \in Targets, NEW i \in DOMAIN receipts'[u], receipts'[u][i].applied
          PROVE  bundle[receipts'[u][i].r] \in ran[u]
      <4>1. PICK j \in DOMAIN receipts[u] : receipts'[u][i] = receipts[u][j]
        BY <2>1, Zenon
      <4> QED BY <3>1, <4>1, Zenon DEF IInv, AnswersAreTrue
    <3> QED BY <1>1, <1>2, <3>1, Zenon DEF IInv, AnswersAreTrue
  <2> QED BY <1>1, <2>2, <2>3, Untouched, Zenon DEF IInv
<1>3. CASE hellos[t] # <<>> /\ hellos' = [hellos EXCEPT ![t] = Tail(@)] /\ UNCHANGED receipts
  <2> HIDE DEF B, Receipt
  <2>1. /\ hellos' \in [Targets -> Seq(B)]
        /\ \A u \in Targets : \A i \in DOMAIN hellos'[u] :
              \E j \in DOMAIN hellos[u] : hellos'[u][i] = hellos[u][j]
    BY <1>1, <1>3, TailMembers
  <2>2. TypeOK' BY <1>1, <1>3, <2>1, Zenon DEF IInv, TypeOK, B
  <2>3. AnswersAreTrue'
    <3>1. \A u \in Targets : \A i \in DOMAIN hellos'[u] : hellos'[u][i] \in ran[u]
      BY <2>1, ZenonT(40) DEF IInv, AnswersAreTrue
    <3> QED BY <1>1, <1>3, <3>1, Zenon DEF IInv, AnswersAreTrue
  <2> QED BY <1>1, <2>2, <2>3, Untouched, Zenon DEF IInv
<1> QED BY <1>2, <1>3, Zenon DEF LoseAnswer

\* Every step keeps the invariant.
LEMMA NextIInv == IInv /\ [Next]_vars => IInv'
<1> SUFFICES ASSUME IInv, [Next]_vars PROVE IInv' BY Zenon
<1>1. CASE UNCHANGED vars
  BY <1>1, Zenon DEF vars, IInv, TypeOK, AnswersAreTrue, RowsAreTrue, RunsItsNewest
<1>2. ASSUME NEW b \in Bundles, NEW ts \in SUBSET Targets, Apply(b, ts) PROVE IInv'
  BY <1>2, ApplyKeeps, Zenon
<1>3. ASSUME NEW r \in Rollouts, Retry(r) PROVE IInv'
  BY <1>3, SenderKeeps, Zenon
<1>4. ASSUME NEW r \in Rollouts, NEW t \in Targets, Enqueue(r, t) \/ MarkSent(r, t) \/ EnqueueFails(r, t)
      PROVE IInv'
  BY <1>4, SenderKeeps, Zenon
<1>5. CASE Restart
  BY <1>5, SenderKeeps, Zenon
<1>6. ASSUME NEW t \in Targets, Reconcile(t) \/ GoesQuiet(t) \/ ComesBack(t) PROVE IInv'
  BY <1>6, SenderKeeps, Zenon
<1>7. ASSUME NEW t \in Targets, ReceiveReceipt(t) \/ ReceiveHello(t) PROVE IInv'
  BY <1>7, AnswersKeep, Zenon
<1>8. ASSUME NEW t \in Targets, ReceiveBundle(t) PROVE IInv'
  BY <1>8, ReceiveBundleKeeps, Zenon
<1>9. ASSUME NEW t \in Targets, CrashInstalling(t) \/ Hello(t) \/ LoseBundle(t) \/ LoseAnswer(t)
      PROVE IInv'
  BY <1>9, CrashKeeps, HelloKeeps, LoseBundleKeeps, LoseAnswerKeeps, Zenon
<1>10. ASSUME NEW t \in Targets, NEW b \in Bundles, ApplyThere(t, b) PROVE IInv'
  BY <1>10, ApplyThereKeeps, Zenon
<1> QED
  BY <1>1, <1>2, <1>3, <1>4, <1>5, <1>6, <1>7, <1>8, <1>9, <1>10, Zenon DEF Next

\* The inductive invariant holds throughout.
LEMMA Inductive == Spec => []IInv
BY InitIInv, NextIInv, PTL DEF Spec

-----------------------------------------------------------------------------
(* What the rows say, and what a target runs *)

\* A target recorded as applied had that rollout's bundle installed, for any number
\* of targets, rollouts and faults and any versions: queueing, marking, retrying,
\* superseding and restarts settle no row, answers alone do (record_policy_receipt,
\* confirm_policy_rollout_by_hello).
THEOREM AppliedIsInstalled == Spec => []AppliedWasInstalled
<1>1. IInv => AppliedWasInstalled
  <2>1. IInv => 1 .. count \subseteq Rollouts
    BY Facts DEF Rollouts
  <2> QED BY <2>1, SMTT(30) DEF IInv, RowsAreTrue, AppliedWasInstalled
<1> QED BY Inductive, <1>1, PTL

\* What NeverMovedBack says of one step.
OnlyForward ==
    \A t \in Targets \ strayed' : runs'[t] # runs[t]
        => \A b \in ran[t] \ {NoBundle} : version[b] < version[runs'[t]]

\* Only an install changes what a target runs, and one made by the mesh moves it on.
LEMMA StepsForward == IInv /\ [Next]_vars => [OnlyForward]_vars
<1> SUFFICES ASSUME IInv, [Next]_vars, NEW t \in Targets \ strayed', runs'[t] # runs[t]
             PROVE  \A b \in ran[t] \ {NoBundle} : version[b] < version[runs'[t]]
  BY SMTT(30) DEF OnlyForward
<1>1. ASSUME NEW u \in Targets, ReceiveBundle(u)
      PROVE  \A b \in ran[t] \ {NoBundle} : version[b] < version[runs'[t]]
  <2> DEFINE c == bundle[Head(toPeer[u])]
  <2>1. c \in Bundles
    BY <1>1, FirstFrame, Zenon DEF ReceiveBundle
  <2>2. JudgeOffer(Verified(u), c) = "install" /\ Installs(u, c) /\ strayed' = strayed
    BY <1>1, SMTT(30) DEF ReceiveBundle
  <2>3. u = t /\ runs'[t] = c
    BY <2>1, <2>2, Installed, SMTT(30)
  <2> QED BY <2>1, <2>2, <2>3, TakesNewer, Zenon
<1>2. ASSUME NEW u \in Targets, NEW b \in Bundles, ApplyThere(u, b)
      PROVE  FALSE
  <2>1. Installs(u, b) /\ t # u
    BY <1>2, Zenon DEF ApplyThere
  <2> QED BY <2>1, Installed, Zenon
<1>3. CASE UNCHANGED runs
  BY <1>3, Zenon
<1> QED
  BY <1>1, <1>2, <1>3, ZenonT(30), ZenonT(40) DEF Next, vars, Apply, Retry, Enqueue, MarkSent, EnqueueFails, Restart,
     Reconcile, GoesQuiet, ComesBack, ReceiveReceipt, ReceiveHello, CrashInstalling, Hello,
     LoseBundle, LoseAnswer

\* However late, repeated or out of order bundles are delivered, and whatever is
\* superseded or retried meanwhile, a target takes from the mesh only what is newer
\* than every bundle it ran (judge_offer).
THEOREM MeshNeverMovesBack == Spec => NeverMovedBack
BY Inductive, StepsForward, PTL DEF Spec, NeverMovedBack, OnlyForward

-----------------------------------------------------------------------------
(* What a newest applied row says the target runs *)

\* Bundle b has been rolled out to t.
Offered(t, b) == \E x \in 1 .. count : bundle[x] = b /\ row[x][t] # "none"

\* A rollout of bundle b to t is recorded as applied.
Confirmed(t, b) == \E x \in 1 .. count : bundle[x] = b /\ row[x][t] = "applied"

\* What is sent to a target has a row there; so has every bundle a target runs that
\* only the mesh has installed bundles on; and the bundle its last hello named is
\* applied by some row.
Traced ==
    /\ said \in [Targets -> Bundles \cup {NoBundle}]
    /\ \A r \in 1 .. count, t \in Targets : <<r, t>> \in todo => row[r][t] # "none"
    /\ \A t \in Targets : \A i \in DOMAIN toPeer[t] : row[toPeer[t][i]][t] # "none"
    /\ \A t \in Targets \ strayed : \A b \in ran[t] \ {NoBundle} : Offered(t, b)
    /\ \A t \in Targets \ strayed : said[t] # NoBundle => Confirmed(t, said[t])

\* Before the first rollout there is nothing to trace.
LEMMA InitTraced == Init => Traced
BY ConstAssumption DEF ConstAssumption, Init, Traced, NoBundle

\* A rollout keeps its bundle; a row never goes away, and applied is its last status.
RowsStay ==
    /\ count \in Nat /\ count' \in Nat /\ count <= count'
    /\ \A x \in 1 .. count : bundle'[x] = bundle[x]
    /\ \A x \in 1 .. count, t \in Targets :
            /\ row[x][t] # "none" => row'[x][t] # "none"
            /\ row[x][t] = "applied" => row'[x][t] = "applied"

\* No step takes a rollout away, and a row recorded as applied stays so.
LEMMA StepRowsStay == IInv /\ [Next]_vars => RowsStay
<1> SUFFICES ASSUME IInv, [Next]_vars PROVE RowsStay BY Zenon
<1>0. count \in Nat /\ 1 .. count \subseteq Rollouts /\ row \in [Rollouts -> [Targets -> Status]]
      /\ bundle \in [Rollouts -> Bundles \cup {NoBundle}]
  <2>1. count \in Nat /\ 1 .. count \subseteq Rollouts BY Facts DEF Rollouts
  <2> QED BY <2>1, Zenon DEF IInv, TypeOK
<1>1. CASE UNCHANGED <<count, bundle, row>>
  <2>1. count' \in Nat /\ count <= count' BY <1>0, <1>1
  <2> QED BY <1>0, <1>1, <2>1, Zenon DEF RowsStay
<1>2. ASSUME NEW b \in Bundles, NEW ts \in SUBSET Targets, Apply(b, ts) PROVE RowsStay
  <2>1. count' = count + 1 /\ bundle' = [bundle EXCEPT ![count + 1] = b]
        /\ row' = SupersedeOlder([row EXCEPT ![count + 1] = [t \in Targets |-> IF t \in ts THEN "pending" ELSE "none"]],
                                 count + 1)
    BY <1>2, Zenon DEF Apply
  <2>2. \A x \in 1 .. count, t \in Targets : row'[x][t] =
            IF row[x][t] \in {"pending", "sent", "offline", "rejected"} THEN "superseded" ELSE row[x][t]
    BY <1>0, <2>1 DEF SupersedeOlder
  <2>3. count' \in Nat /\ count <= count' /\ \A x \in 1 .. count : bundle'[x] = bundle[x]
    BY <1>0, <2>1
  <2>4. \A x \in 1 .. count, t \in Targets : (row[x][t] # "none" => row'[x][t] # "none")
                                            /\ (row[x][t] = "applied" => row'[x][t] = "applied")
    BY <2>2, Zenon
  <2> QED BY <1>0, <2>3, <2>4, Zenon DEF RowsStay
<1>3. ASSUME NEW r \in Rollouts, NEW t \in Targets, MarkSent(r, t) \/ EnqueueFails(r, t) PROVE RowsStay
  BY <1>0, <1>3 DEF MarkSent, Mark, EnqueueFails, RowsStay
<1>4. ASSUME NEW t \in Targets, ReceiveReceipt(t) PROVE RowsStay
  <2> DEFINE m == Head(receipts[t])
  <2>1. row' = [row EXCEPT ![m.r][t] = RecordReceipt(@, m.applied)] /\ UNCHANGED <<count, bundle>>
    BY <1>4, Zenon DEF ReceiveReceipt
  <2> HIDE DEF m
  <2> QED BY <1>0, <2>1 DEF RecordReceipt, RowsStay
<1>5. ASSUME NEW t \in Targets, ReceiveHello(t) PROVE RowsStay
  <2>1. row' = ConfirmedByHello(row, t, Head(hellos[t])) /\ UNCHANGED <<count, bundle>>
    BY <1>5, Zenon DEF ReceiveHello
  <2> QED BY <1>0, <2>1 DEF ConfirmedByHello, RowsStay
<1> QED
  BY <1>1, <1>2, <1>3, <1>4, <1>5, ZenonT(30) DEF Next, vars, Retry, Enqueue, Restart, Reconcile, GoesQuiet,
     ComesBack, ReceiveBundle, CrashInstalling, Hello, LoseBundle, LoseAnswer, ApplyThere

\* What has been offered or confirmed stays so.
LEMMA OffersStay ==
    ASSUME RowsStay, NEW t \in Targets, NEW b
    PROVE  (Offered(t, b) => Offered(t, b)') /\ (Confirmed(t, b) => Confirmed(t, b)')
BY DEF RowsStay, Offered, Confirmed

\* A rollout found due for a target has a row for it.
LEMMA DueHasRow ==
    ASSUME IInv, NEW rows, NEW t \in Targets, NEW up \in BOOLEAN, NEW r, NEW u,
           <<r, u>> \in Reconciled(rows, t, up), <<r, u>> \notin todo
    PROVE  u = t /\ rows[r][t] # "none"
<1>1. r = Newest(rows, t) /\ u = t /\ RedeliveryDue(rows[r][t], up)
  BY Zenon DEF Reconciled
<1> QED BY <1>1, Zenon DEF RedeliveryDue

\* A step that sends nothing and installs nothing leaves all of it traced.
LEMMA TracedStays ==
    ASSUME IInv, Traced, RowsStay
    PROVE  /\ (\A r \in 1 .. count', t \in Targets : <<r, t>> \in todo' => <<r, t>> \in todo \/ row'[r][t] # "none")
                => \A r \in 1 .. count', t \in Targets : <<r, t>> \in todo' => row'[r][t] # "none"
           /\ (\A t \in Targets : \A i \in DOMAIN toPeer'[t] :
                    \E j \in DOMAIN toPeer[t] : toPeer'[t][i] = toPeer[t][j])
                => \A t \in Targets : \A i \in DOMAIN toPeer'[t] : row'[toPeer'[t][i]][t] # "none"
           /\ UNCHANGED ran /\ strayed \subseteq strayed'
                => \A t \in Targets \ strayed' : \A b \in ran'[t] \ {NoBundle} : Offered(t, b)'
           /\ UNCHANGED said /\ strayed \subseteq strayed'
                => \A t \in Targets \ strayed' : said'[t] # NoBundle => Confirmed(t, said[t])'
<1>1. ASSUME \A r \in 1 .. count', t \in Targets : <<r, t>> \in todo' => <<r, t>> \in todo \/ row'[r][t] # "none",
             NEW r \in 1 .. count', NEW t \in Targets, <<r, t>> \in todo'
      PROVE  row'[r][t] # "none"
  <2>1. CASE <<r, t>> \in todo
    <3>1. r \in 1 .. count BY <2>1, Zenon DEF IInv, TypeOK
    <3> QED BY <2>1, <3>1, Zenon DEF Traced, RowsStay
  <2>2. CASE <<r, t>> \notin todo
    BY <1>1, <2>2, Zenon
  <2> QED BY <2>1, <2>2, Zenon
<1>2. ASSUME \A t \in Targets : \A i \in DOMAIN toPeer'[t] :
                    \E j \in DOMAIN toPeer[t] : toPeer'[t][i] = toPeer[t][j],
             NEW t \in Targets, NEW i \in DOMAIN toPeer'[t]
      PROVE  row'[toPeer'[t][i]][t] # "none"
  <2>1. PICK j \in DOMAIN toPeer[t] : toPeer'[t][i] = toPeer[t][j] BY <1>2, Zenon
  <2>2. toPeer[t][j] \in 1 .. count BY <2>1 DEF IInv, TypeOK
  <2> QED BY <2>1, <2>2, ZenonT(40) DEF Traced, RowsStay
<1>3. ASSUME UNCHANGED ran, strayed \subseteq strayed', NEW t \in Targets \ strayed',
             NEW b \in ran'[t] \ {NoBundle}
      PROVE  Offered(t, b)'
  <2>1. t \in Targets \ strayed /\ b \in ran[t] \ {NoBundle} BY <1>3, Zenon
  <2>2. Offered(t, b) BY <2>1, Zenon DEF Traced
  <2> QED BY <2>1, <2>2, OffersStay, Zenon
<1>4. ASSUME UNCHANGED said, strayed \subseteq strayed', NEW t \in Targets \ strayed', said'[t] # NoBundle
      PROVE  Confirmed(t, said[t])'
  <2>1. Confirmed(t, said[t]) BY <1>4, Zenon DEF Traced
  <2> QED BY <1>4, <2>1, OffersStay, Zenon
<1> QED BY <1>1, <1>2, <1>3, <1>4, Zenon

\* What is left of a queue to a target was in it before.
LEMMA QueueShrinks ==
    ASSUME IInv, NEW t \in Targets, toPeer[t] # <<>>, toPeer' = [toPeer EXCEPT ![t] = Tail(@)]
    PROVE  \A u \in Targets : \A i \in DOMAIN toPeer'[u] :
                \E j \in DOMAIN toPeer[u] : toPeer'[u][i] = toPeer[u][j]
BY TailMembers DEF IInv, TypeOK

\* A hello that is read finds a row of the bundle it names, and confirms it.
LEMMA HelloConfirms ==
    ASSUME IInv, Traced, NEW t \in Targets \ strayed, ReceiveHello(t), said'[t] # NoBundle
    PROVE  Confirmed(t, said[t])'
<1> DEFINE b == Head(hellos[t])
           B == Bundles \cup {NoBundle}
<1>1. said'[t] = b /\ row' = ConfirmedByHello(row, t, b) /\ UNCHANGED <<count, bundle>>
  <2>1. said' = [said EXCEPT ![t] = b] /\ row' = ConfirmedByHello(row, t, b) /\ UNCHANGED <<count, bundle>>
    BY Zenon DEF ReceiveHello
  <2>2. said \in [Targets -> B] BY Zenon DEF Traced
  <2>3. said'[t] = b BY <2>1, <2>2, Zenon
  <2> QED BY <2>1, <2>3, Zenon
<1>2. b \in ran[t]
  <2>1. hellos[t] \in Seq(B) /\ hellos[t] # <<>> BY Zenon DEF ReceiveHello, IInv, TypeOK
  <2>2. 1 \in DOMAIN hellos[t] /\ hellos[t][1] = b
    <3> HIDE DEF B
    <3> QED BY <2>1, TailMembers, Zenon
  <2> QED BY <2>2, Zenon DEF IInv, AnswersAreTrue
<1>3. PICK x \in 1 .. count : bundle[x] = b /\ row[x][t] # "none"
  BY <1>1, <1>2, Zenon DEF Traced, Offered
<1>4. x \in Rollouts /\ row[x] \in [Targets -> Status]
  <2>1. x \in Rollouts BY Facts DEF Rollouts
  <2> QED BY <2>1, Zenon DEF IInv, TypeOK
<1>5. row'[x][t] = "applied"
  BY <1>1, <1>3, <1>4, Zenon DEF ConfirmedByHello
<1> QED BY <1>1, <1>3, <1>5, Zenon DEF Confirmed

\* A bundle taken from the mesh has a row.
LEMMA InstallIsOffered ==
    ASSUME IInv, Traced, RowsStay, NEW t \in Targets, ReceiveBundle(t),
           NEW u \in Targets \ strayed', NEW b \in ran'[u] \ {NoBundle}
    PROVE  Offered(u, b)'
<1> DEFINE r == Head(toPeer[t])
<1>0. toPeer[t] # <<>> /\ UNCHANGED <<strayed, row, bundle, count>>
  BY Zenon DEF ReceiveBundle
<1>1. r \in 1 .. count /\ bundle[r] \in Bundles /\ UNCHANGED <<strayed, row, bundle, count>>
  <2>1. r \in 1 .. count /\ bundle[r] \in Bundles BY <1>0, FirstFrame, Zenon
  <2> QED BY <1>0, <2>1, Zenon
<1>2. row[r][t] # "none"
  <2>1. 1 \in DOMAIN toPeer[t] /\ toPeer[t][1] = r
    BY <1>0, TailMembers DEF IInv, TypeOK
  <2>2. row[toPeer[t][1]][t] # "none" BY <2>1, Zenon DEF Traced
  <2> QED BY <2>1, <2>2, Zenon
<1>3. b \in ran[u] \/ (u = t /\ b = bundle[r])
  <2>1. Installs(t, bundle[r]) \/ UNCHANGED ran
    <3>1. IF JudgeOffer(Verified(t), bundle[r]) = "install" THEN Installs(t, bundle[r])
          ELSE UNCHANGED <<runs, torn, ran>>
      BY Zenon DEF ReceiveBundle
    <3> QED BY <3>1, Zenon
  <2>2. CASE Installs(t, bundle[r])
    BY <1>1, <2>2, Installed
  <2> QED BY <2>1, <2>2, Zenon
<1>4. CASE b \in ran[u]
  <2>1. Offered(u, b) BY <1>1, <1>4, Zenon DEF Traced
  <2> QED BY <2>1, OffersStay, Zenon
<1>5. CASE u = t /\ b = bundle[r]
  BY <1>1, <1>2, <1>5, Zenon DEF Offered
<1> QED BY <1>3, <1>4, <1>5, Zenon

\* Every step keeps what is sent and what runs traced to a row.
LEMMA NextTraced == IInv /\ Traced /\ [Next]_vars => Traced'
<1> SUFFICES ASSUME IInv, Traced, [Next]_vars PROVE Traced' BY Zenon
<1>0. RowsStay BY StepRowsStay, Zenon
<1>1. strayed \subseteq strayed'
  BY ZenonT(40) DEF Next, vars, Apply, Retry, Enqueue, MarkSent, EnqueueFails, Restart, Reconcile, GoesQuiet,
     ComesBack, ReceiveReceipt, ReceiveHello, ReceiveBundle, CrashInstalling, Hello, LoseBundle,
     LoseAnswer, ApplyThere
<1>2. \A r \in 1 .. count', t \in Targets : <<r, t>> \in todo' => row'[r][t] # "none"
  <2>1. ASSUME NEW b \in Bundles, NEW ts \in SUBSET Targets, Apply(b, ts),
               NEW r \in 1 .. count', NEW t \in Targets, <<r, t>> \in todo', <<r, t>> \notin todo
        PROVE  row'[r][t] # "none"
    <3>1. r = count + 1 /\ t \in ts /\ r \in Rollouts
      BY <2>1, Facts DEF Apply, Rollouts
    <3> QED BY <2>1, <3>1, Zenon DEF Apply, SupersedeOlder, IInv, TypeOK
  <2>2. ASSUME NEW x \in Rollouts, Retry(x),
               NEW r \in 1 .. count', NEW t \in Targets, <<r, t>> \in todo', <<r, t>> \notin todo
        PROVE  row'[r][t] # "none"
    BY <2>2, Zenon DEF Retry
  <2>3. ASSUME NEW u \in Targets, Reconcile(u) \/ ComesBack(u) \/ ReceiveHello(u),
               NEW r \in 1 .. count', NEW t \in Targets, <<r, t>> \in todo', <<r, t>> \notin todo
        PROVE  row'[r][t] # "none"
    <3>1. \E up \in BOOLEAN : <<r, t>> \in Reconciled(row', u, up)
      BY <2>3, ZenonT(40) DEF Reconcile, ComesBack, ReceiveHello, IInv, TypeOK
    <3> QED BY <2>3, <3>1, DueHasRow
  <2>4. CASE todo' \subseteq todo
    BY <1>0, <2>4, TracedStays, Zenon
  <2> QED
    BY <1>0, <2>1, <2>2, <2>3, <2>4, TracedStays, ZenonT(60), ZenonT(40)
       DEF Next, vars, Enqueue, MarkSent, EnqueueFails, Restart, GoesQuiet,
       ReceiveReceipt, ReceiveBundle, CrashInstalling, Hello, LoseBundle, LoseAnswer, ApplyThere
<1>3. \A t \in Targets : \A i \in DOMAIN toPeer'[t] : row'[toPeer'[t][i]][t] # "none"
  <2>1. ASSUME NEW t \in Targets, ReceiveBundle(t) \/ CrashInstalling(t) \/ LoseBundle(t)
        PROVE  \A u \in Targets : \A i \in DOMAIN toPeer'[u] : row'[toPeer'[u][i]][u] # "none"
    <3>1. toPeer[t] # <<>> /\ toPeer' = [toPeer EXCEPT ![t] = Tail(@)]
      BY <2>1, Zenon DEF ReceiveBundle, CrashInstalling, LoseBundle
    <3> QED BY <1>0, <3>1, QueueShrinks, TracedStays, Zenon
  <2>2. ASSUME NEW r \in Rollouts, NEW t \in Targets, Enqueue(r, t)
        PROVE  \A u \in Targets : \A i \in DOMAIN toPeer'[u] : row'[toPeer'[u][i]][u] # "none"
    <3>1. r \in 1 .. count /\ row[r][t] # "none" /\ row' = row
      BY <2>2, Zenon DEF Enqueue, IInv, TypeOK, Traced
    <3>2. \A u \in Targets : \A i \in DOMAIN toPeer'[u] :
            (i \in DOMAIN toPeer[u] /\ toPeer'[u][i] = toPeer[u][i]) \/ (u = t /\ toPeer'[u][i] = r)
      <4>1. toPeer \in [Targets -> Seq(1 .. count)] /\ toPeer' = [toPeer EXCEPT ![t] = Append(@, r)]
        BY <2>2, Zenon DEF Enqueue, IInv, TypeOK
      <4> QED BY <3>1, <4>1, AppendMembers
    <3> QED BY <3>1, <3>2, Zenon DEF Traced
  <2>3. CASE UNCHANGED toPeer
    BY <1>0, <2>3, TracedStays, Zenon
  <2> QED
    BY <2>1, <2>2, <2>3, Zenon DEF Next, vars, Apply, Retry, MarkSent, EnqueueFails, Restart, Reconcile,
       GoesQuiet, ComesBack, ReceiveReceipt, ReceiveHello, Hello, LoseAnswer, ApplyThere
<1>4. \A t \in Targets \ strayed' : \A b \in ran'[t] \ {NoBundle} : Offered(t, b)'
  <2>1. ASSUME NEW t \in Targets, ReceiveBundle(t)
        PROVE  \A u \in Targets \ strayed' : \A b \in ran'[u] \ {NoBundle} : Offered(u, b)'
    BY <1>0, <2>1, InstallIsOffered, Zenon
  <2>2. ASSUME NEW t \in Targets, NEW c \in Bundles, ApplyThere(t, c)
        PROVE  \A u \in Targets \ strayed' : \A b \in ran'[u] \ {NoBundle} : Offered(u, b)'
    <3>1. Installs(t, c) /\ strayed' = strayed \cup {t} BY <2>2, Zenon DEF ApplyThere
    <3>2. \A u \in Targets \ strayed' : u \in Targets \ strayed /\ ran'[u] = ran[u]
      BY <3>1, Installed, Zenon
    <3> QED BY <1>0, <3>2, OffersStay, Zenon DEF Traced
  <2>3. CASE UNCHANGED ran
    BY <1>0, <1>1, <2>3, TracedStays, Zenon
  <2> QED
    BY <2>1, <2>2, <2>3, ZenonT(40) DEF Next, vars, Apply, Retry, Enqueue, MarkSent, EnqueueFails, Restart, Reconcile,
       GoesQuiet, ComesBack, ReceiveReceipt, ReceiveHello, CrashInstalling, Hello, LoseBundle, LoseAnswer
<1>5. \A t \in Targets \ strayed' : said'[t] # NoBundle => Confirmed(t, said[t])'
  <2>1. ASSUME NEW u \in Targets, ReceiveHello(u), NEW t \in Targets \ strayed', said'[t] # NoBundle
        PROVE  Confirmed(t, said[t])'
    <3>1. CASE u = t
      BY <1>1, <2>1, <3>1, HelloConfirms, Zenon
    <3>2. CASE u # t
      <4>1. said'[t] = said[t] /\ t \in Targets \ strayed BY <1>1, <2>1, <3>2, Zenon DEF ReceiveHello, Traced
      <4>2. Confirmed(t, said[t]) BY <2>1, <4>1, Zenon DEF Traced
      <4> QED BY <1>0, <4>1, <4>2, OffersStay, Zenon
    <3> QED BY <3>1, <3>2, Zenon
  <2>2. CASE UNCHANGED said
    BY <1>0, <1>1, <2>2, TracedStays, Zenon
  <2> QED
    BY <2>1, <2>2, ZenonT(40) DEF Next, vars, Apply, Retry, Enqueue, MarkSent, EnqueueFails, Restart, Reconcile,
       GoesQuiet, ComesBack, ReceiveReceipt, ReceiveBundle, CrashInstalling, Hello, LoseBundle, LoseAnswer,
       ApplyThere
<1>6. said' \in [Targets -> Bundles \cup {NoBundle}]
  <2>1. ASSUME NEW t \in Targets, ReceiveHello(t)
        PROVE  said' \in [Targets -> Bundles \cup {NoBundle}]
    <3>1. Head(hellos[t]) \in Bundles \cup {NoBundle}
      BY <2>1, TailMembers, Zenon DEF ReceiveHello, IInv, TypeOK
    <3> QED BY <2>1, <3>1, Zenon DEF ReceiveHello, Traced
  <2> QED
    BY <2>1, ZenonT(40) DEF Next, vars, Traced, Apply, Retry, Enqueue, MarkSent, EnqueueFails, Restart, Reconcile,
       GoesQuiet, ComesBack, ReceiveReceipt, ReceiveBundle, CrashInstalling, Hello, LoseBundle, LoseAnswer,
       ApplyThere
<1> QED BY <1>2, <1>3, <1>4, <1>5, <1>6, Zenon DEF Traced

\* The newest live rollout of a target is live, and no live one is newer.
LEMMA NewestIsNewest ==
    ASSUME IInv, NEW t \in Targets, Newest(row, t) # 0
    PROVE  /\ Newest(row, t) \in 1 .. count
           /\ \A x \in 1 .. count : row[x][t] \notin {"none", "superseded"} => x <= Newest(row, t)
<1> DEFINE live == {x \in 1 .. count : row[x][t] \notin {"none", "superseded"}}
           P(m) == \A x \in live : x <= m
<1>1. live # {} BY Zenon DEF Newest
<1>2. \E m \in live : P(m)
  <2>1. live \subseteq 1 .. count /\ count \in Nat BY Facts
  <2> QED BY <1>1, <2>1, NewestExists, Zenon
<1>3. (CHOOSE m \in live : P(m)) \in live /\ P(CHOOSE m \in live : P(m))
  BY <1>2, Zenon
<1> QED BY <1>1, <1>3, Zenon DEF Newest

\* While bundles are applied in version order and only the mesh installs them, a
\* target's newest live rollout recorded as applied is what the target runs, once
\* its last hello read here named what it runs: whatever was lost, repeated, late,
\* retried or superseded (record_policy_receipt, confirm_policy_rollout_by_hello,
\* supersede_older, judge_offer).
THEOREM RecordsAreTrue == Spec => []RecordsTellWhatRuns
<1>1. IInv /\ Traced => RecordsTellWhatRuns
  <2> SUFFICES ASSUME IInv, Traced, InOrder, NEW t \in Targets \ strayed, said[t] = runs[t],
                      NEW r, r = Newest(row, t), r # 0, row[r][t] = "applied"
               PROVE  runs[t] = bundle[r]
    BY Zenon DEF RecordsTellWhatRuns
  <2>1. r \in 1 .. count /\ \A x \in 1 .. count : row[x][t] \notin {"none", "superseded"} => x <= r
    BY NewestIsNewest, Zenon
  <2>2. bundle[r] \in ran[t] /\ bundle[r] \in Bundles /\ bundle[r] # NoBundle
    BY <2>1, Facts DEF IInv, RowsAreTrue, Rollouts, NoBundle
  <2>3. runs[t] # NoBundle /\ version[bundle[r]] <= version[runs[t]]
    BY <2>2, Zenon DEF IInv, RunsItsNewest
  <2>4. PICK x \in 1 .. count : bundle[x] = runs[t] /\ row[x][t] = "applied"
    BY <2>3, Zenon DEF Traced, Confirmed
  <2>5. x <= r BY <2>1, <2>4, Zenon
  <2>6. CASE x = r BY <2>4, <2>6, Zenon
  <2>7. CASE x # r
    <3>1. x \in 1 .. r - 1 /\ r \in Nat BY <2>1, <2>5, <2>7, Facts
    <3>2. bundle[x] = bundle[r] \/ version[bundle[x]] < version[bundle[r]]
      BY <2>1, <3>1, Zenon DEF InOrder
    <3>3. version[bundle[x]] \in Nat /\ version[bundle[r]] \in Nat
      BY <2>2, <2>4, Facts, Zenon DEF IInv, RowsAreTrue
    <3> QED BY <2>3, <2>4, <3>2, <3>3
  <2> QED BY <2>6, <2>7, Zenon
<1>2. Spec => []Traced
  BY Inductive, InitTraced, NextTraced, PTL DEF Spec
<1> QED BY Inductive, <1>1, <1>2, PTL

=============================================================================
