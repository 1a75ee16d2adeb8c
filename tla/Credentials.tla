------------------------------ MODULE Credentials ------------------------------
(***************************************************************************)
(* One provider credential shared by the nodes of a mesh                   *)
(* (node/src/providers.rs, node/src/broker/mod.rs, the credential frames   *)
(* of node/src/mesh/client.rs, and the renewal claims of                   *)
(* hub/src/store.rs): a sign-in is made on one node, handed to others,     *)
(* renewed by whichever of them wins the hub's claim, imported over,       *)
(* removed, and revoked from the rest.                                     *)
(*                                                                         *)
(* A frame waits in its sender's outbox, is posted to the hub, and is read *)
(* in hub order.  A renewal reads the copy, awaits the claim, awaits the   *)
(* provider, and then writes; every await is a point where another step of *)
(* the same node may come in between.                                      *)
(*                                                                         *)
(* Tokens are [lin, gen]: the sign-in at the provider they come from and   *)
(* how often they were rotated since.  The provider accepts a refresh      *)
(* token once and rotates it (external).                                   *)
(***************************************************************************)
EXTENDS Broker, Sequences, FiniteSets

CONSTANTS
    Nodes,
    MaxMint,      \* bound: sign-ins and imports, in any scenario
    MaxRenew,     \* bound: renewals started
    MaxEvents,    \* bound: events that are counted
    Scenarios     \* what behaviours are looked at; see Scenario

Events == {"share_all", "share", "import", "disconnect", "set_channels", "lapse", "restart",
           "unreachable", "crash", "no_key", "lost", "gap"}

\* A scenario bounds one behaviour: the nodes enrolled, those where someone signs
\* in or imports, how often things happen, and what may happen besides signing
\* in, renewing and removing.  With "gap", any step may come between storing a copy
\* and queueing its handoffs; without, the two are one step.
Scenario == [mesh : SUBSET Nodes, origins : SUBSET Nodes, mints : 0 .. MaxMint,
             renews : 0 .. MaxRenew, count : 0 .. MaxEvents, events : SUBSET Events]

\* A set of nodes in some order.
Listings(S) == {s \in [1 .. Cardinality(S) -> S] : \A m \in S : \E i \in DOMAIN s : s[i] = m}

\* A mesh is finite: any nodes of it can be listed.
ASSUME ConstAssumption ==
    /\ \A S \in SUBSET Nodes : Cardinality(S) \in Nat /\ Listings(S) # {}
    /\ {MaxMint, MaxRenew, MaxEvents} \subseteq Nat
    /\ Scenarios \subseteq Scenario

VARIABLES
    scenario,  \* the one this behaviour follows, from beginning to end
    broker,    \* broker[n]: n's broker entry for the name
    outbox,    \* outbox[n]: frames n has queued, oldest first
    inbox,     \* inbox[n]: frames at the hub for n, in hub order
    owed,      \* owed[n]: n's unconfirmed credential_revoke targets
    claims,    \* claims[g]: the hub's claim on sign-in g, or None (memory)
    handing,   \* handing[n]: handoffs of copies n has stored, not queued yet (memory)
    renew,     \* renew[n]: the renewal n is in the middle of, or None (memory)
    stuck,     \* stuck[n]: n noted that the credential needs a new sign-in (memory)
    provider,  \* provider[l]: the generation of sign-in l's live refresh token
    minted,    \* sign-ins minted so far, anywhere
    started,   \* renewals started so far
    spent,     \* events counted so far
    happened,  \* history: what happened, of Happenings
    asked,     \* history: <<n, tok>>, n presented tok to the provider
    lineOf,    \* history: the provider sign-in a grant was minted for
    revoked,   \* history: grants whose origin removed them for good
    removed    \* history: removed[n], grants n's operator removed there

vars == <<scenario, broker, outbox, inbox, owed, claims, handing, renew, stuck, provider, minted,
          started, spent, happened, asked, lineOf, revoked, removed>>

\* Besides events: the copy a node is renewing, or was when it stopped, is replaced by
\* another sign-in's, or shared; a copy that others hold is listed for one more; a
\* handoff was lost on its way or never queued; and a copy was removed before the
\* handoffs of it were queued.
Happenings == Events \cup {"mid_renewal", "later_share", "lost_handoff", "overtaken"}

Grants == 1 .. MaxMint
Tokens == [lin : Grants, gen : Nat]
Copies == [grant : 0 .. MaxMint, ver : Nat, origin : Nodes, nodes : SUBSET Nodes, tok : Tokens]
Tombs == [grant : 0 .. MaxMint, ver : Nat, origin : Nodes]
Frames == [kind : {"handoff"}, from : Nodes, to : Nodes, copy : Copies]
          \cup [kind : {"revoke", "receipt"}, from : Nodes, to : Nodes, grant : Grants, ver : Nat]

Renewals == [step : {"claiming", "asking", "storing"}, held : Copies]
HubClaims == [ver : Nat, holder : Nodes, live : BOOLEAN]

ASSUME NoneAssumption ==
    /\ None \notin Nodes /\ None \notin Copies /\ None \notin Tombs
    /\ None \notin Renewals /\ None \notin HubClaims

\* Every piece of state has the shape the code gives it.
TypeOK ==
    /\ \A n \in Nodes :
        /\ broker[n].cred \in Copies \cup {None}
        /\ broker[n].tomb \in Tombs \cup {None}
        /\ \A i \in DOMAIN outbox[n] : outbox[n][i] \in Frames /\ outbox[n][i].from = n
        /\ \A i \in DOMAIN inbox[n] : inbox[n][i] \in Frames /\ inbox[n][i].to = n
        /\ \A o \in owed[n] : o.to # n /\ o.grant \in Grants
        /\ handing[n] \subseteq Frames /\ renew[n] \in Renewals \cup {None}
    /\ \A g \in Grants : claims[g] \in HubClaims \cup {None}
    /\ minted \in 0 .. scenario.mints /\ started \in 0 .. scenario.renews
    /\ spent \in 0 .. scenario.count /\ happened \subseteq Happenings /\ scenario \in Scenarios

Init ==
    /\ scenario \in Scenarios
    /\ broker = [n \in Nodes |-> [cred |-> None, tomb |-> None]]
    /\ outbox = [n \in Nodes |-> <<>>] /\ inbox = [n \in Nodes |-> <<>>]
    /\ owed = [n \in Nodes |-> {}]
    /\ claims = [g \in Grants |-> None]
    /\ handing = [n \in Nodes |-> {}] /\ renew = [n \in Nodes |-> None] /\ stuck = [n \in Nodes |-> FALSE]
    /\ provider = [l \in Grants |-> 0]
    /\ minted = 0 /\ started = 0 /\ spent = 0 /\ happened = {}
    /\ asked = {} /\ lineOf = [g \in Grants |-> g]
    /\ revoked = {} /\ removed = [n \in Nodes |-> {}]

-----------------------------------------------------------------------------
(* Frames *)

Cred(n) == broker[n].cred

\* enqueue_direct, for the frame frames[m] to each node m of some nodes; their order
\* among themselves is immaterial.
Queue(n, frames) ==
    LET order == CHOOSE s \in Listings(DOMAIN frames) : TRUE
    IN outbox' = [outbox EXCEPT ![n] = @ \o [i \in DOMAIN order |-> frames[order[i]]]]

Handoff(n, m, c) == [kind |-> "handoff", from |-> n, to |-> m, copy |-> c]

\* Once a copy is stored, hand_off sends it to other nodes it lists: all of them, or
\* the one it is shared with.
HandTo(n, c, nodes) ==
    LET frames == [m \in nodes |-> Handoff(n, m, c)]
    IN IF "gap" \in scenario.events
       THEN handing' = [handing EXCEPT ![n] = @ \cup {frames[m] : m \in nodes}] /\ UNCHANGED outbox
       ELSE Queue(n, frames) /\ UNCHANGED handing

HandOff(n, c) == HandTo(n, c, c.nodes \ {n})

Spend(e) == e \in scenario.events /\ spent < scenario.count /\ spent' = spent + 1
Record(what) == happened' = happened \cup what
Happens(e) == Spend(e) /\ Record({e})

\* Storing a copy of sign-in g at n now.
Racing(n, g) == IF renew[n] # None /\ renew[n].held.grant # g THEN {"mid_renewal"} ELSE {}

-----------------------------------------------------------------------------
(* What the operator of a node does *)

\* finish, with store(Fresh): a new sign-in, here only or shared with everyone.
SignIn(n, nodes) ==
    /\ minted < scenario.mints /\ Record(Racing(n, minted + 1))
    /\ nodes # {} => "share_all" \in scenario.events
    /\ LET g == minted + 1
           c == [grant |-> g, ver |-> 0, origin |-> n, nodes |-> {n} \cup nodes,
                 tok |-> [lin |-> g, gen |-> 0]]
       IN /\ broker' = [broker EXCEPT ![n] = Put(@, c)]
          /\ HandOff(n, c)
    /\ minted' = minted + 1
    /\ stuck' = [stuck EXCEPT ![n] = FALSE]
    /\ UNCHANGED <<scenario, inbox, owed, claims, renew, provider, started, spent, asked, lineOf,
                   revoked, removed>>

\* `tracon credential import`; the copies elsewhere are not re-sent.
ImportHere(n) ==
    /\ "import" \in scenario.events /\ minted < scenario.mints
    /\ Record({"import"} \cup Racing(n, minted + 1))
    /\ broker' = [broker EXCEPT ![n] = Import(@, n, [lin |-> minted + 1, gen |-> 0], minted + 1)]
    /\ minted' = minted + 1
    /\ UNCHANGED <<scenario, outbox, inbox, owed, claims, handing, renew, stuck, provider, started, spent, asked,
                   lineOf, revoked, removed>>

\* share_credential: only the origin may.  A credential that names no sign-in
\* gets one.  The version does not change.
Share(n, to) ==
    /\ Spend("share") /\ to # n /\ Cred(n) # None /\ Cred(n).origin = n
    /\ Record({"share"}
              \cup (IF renew[n] = None /\ <<n, Cred(n).tok>> \notin asked THEN {} ELSE {"mid_renewal"})
              \cup (IF Cred(n).nodes \subseteq {n, to} THEN {} ELSE {"later_share"}))
    /\ Cred(n).grant = 0 => minted < scenario.mints
    /\ LET c == [EnsureGrant(Cred(n), n, minted + 1) EXCEPT !.nodes = @ \cup {n, to}]
       IN /\ broker' = [broker EXCEPT ![n] = Put(@, c)]
          /\ HandTo(n, c, {to})
          /\ minted' = IF Cred(n).grant = 0 THEN minted + 1 ELSE minted
          /\ lineOf' = IF Cred(n).grant = 0 THEN [lineOf EXCEPT ![c.grant] = c.tok.lin] ELSE lineOf
    /\ UNCHANGED <<scenario, inbox, owed, claims, renew, stuck, provider, started, asked, revoked, removed>>

RevokeFor(n, m, grant, ver) == [kind |-> "revoke", from |-> n, to |-> m, grant |-> grant, ver |-> ver]

\* remove_credential: a tombstone here and, from the origin, a revoke recorded
\* and queued for every other node the copy lists.
RemoveCredential(n) ==
    /\ Cred(n) # None
    /\ Record(IF \E f \in handing[n] : f.copy.grant = Cred(n).grant THEN {"overtaken"} ELSE {})
    /\ LET c == Cred(n)
           targets == RevokeTargets(c, n)
       IN /\ broker' = [broker EXCEPT ![n] = Revoke(@)]
          /\ owed' = [owed EXCEPT ![n] = @ \cup
                {[to |-> m, grant |-> c.grant, ver |-> c.ver] : m \in targets}]
          /\ Queue(n, [m \in targets |-> RevokeFor(n, m, c.grant, c.ver)])
          /\ revoked' = IF c.origin = n /\ c.grant # 0 THEN revoked \cup {c.grant} ELSE revoked
          /\ removed' = [removed EXCEPT ![n] = @ \cup {c.grant}]
    /\ stuck' = [stuck EXCEPT ![n] = FALSE]
    /\ UNCHANGED <<scenario, inbox, claims, handing, renew, provider, minted, started, spent, asked, lineOf>>

\* Providers::disconnect: the copy here goes, without a tombstone or a revoke.
Disconnect(n) ==
    /\ Happens("disconnect") /\ Cred(n) # None
    /\ broker' = [broker EXCEPT ![n] = Remove(@)]
    /\ stuck' = [stuck EXCEPT ![n] = FALSE]
    /\ UNCHANGED <<scenario, outbox, inbox, owed, claims, handing, renew, provider, minted, started, asked, lineOf,
                   revoked, removed>>

\* Providers::set_channels: the tokens stay, the version moves on, a shared copy
\* also lists the members of the channels, and every holder is handed the result.
SetChannels(n, members) ==
    /\ Spend("set_channels") /\ Cred(n) # None
    /\ Record({"set_channels"}
              \cup (IF Cred(n).nodes \ {n} # {} /\ ~(members \subseteq Cred(n).nodes)
                    THEN {"later_share"} ELSE {}))
    /\ LET c == [Cred(n) EXCEPT !.ver = IF Cred(n).grant # 0 THEN @ + 1 ELSE @,
                                !.nodes = IF @ \ {n} # {} THEN @ \cup members ELSE @]
       IN broker' = [broker EXCEPT ![n] = Put(@, c)] /\ HandOff(n, c)
    /\ UNCHANGED <<scenario, inbox, owed, claims, renew, stuck, provider, minted, started, asked, lineOf,
                   revoked, removed>>

-----------------------------------------------------------------------------
(* Renewal: Providers::refresh, one at a time on each node *)

\* The copy is read.  One listed for other nodes too is claimed first, if it
\* names a sign-in; otherwise only the origin goes on.
StartRenew(n) ==
    /\ started < scenario.renews /\ renew[n] = None /\ Cred(n) # None /\ ~stuck[n]
    /\ started' = started + 1
    /\ LET shared == Cred(n).nodes \ {n} # {}
       IN renew' = [renew EXCEPT ![n] =
              IF shared /\ Cred(n).grant # 0
              THEN [step |-> "claiming", held |-> Cred(n)]
              ELSE IF shared /\ Cred(n).origin # n THEN None
              ELSE [step |-> "asking", held |-> Cred(n)]]
    /\ UNCHANGED <<scenario, broker, outbox, inbox, owed, claims, handing, stuck, provider, minted, spent, happened, asked,
                   lineOf, revoked, removed>>

\* Claims::claim at the hub.
ClaimIgnoringHolder(claim, ver, n) ==
    IF claim # None /\ claim.ver > ver THEN "stale" ELSE "granted"

ClaimOutcome(claim, ver, n) ==
    CASE claim # None /\ claim.ver > ver -> "stale"
      [] claim # None /\ claim.ver = ver /\ claim.holder # n /\ claim.live -> "held"
      [] OTHER -> "granted"

Claim(n) ==
    /\ renew[n] # None /\ renew[n].step = "claiming"
    /\ LET c == renew[n].held
           won == ClaimOutcome(claims[c.grant], c.ver, n) = "granted"
       IN /\ claims' = IF won THEN [claims EXCEPT ![c.grant] =
                                       [ver |-> c.ver, holder |-> n, live |-> TRUE]]
                       ELSE claims
          /\ renew' = [renew EXCEPT ![n] = IF won THEN [@ EXCEPT !.step = "asking"] ELSE None]
    /\ UNCHANGED <<scenario, broker, outbox, inbox, owed, handing, stuck, provider, minted, started, spent, happened, asked,
                   lineOf, revoked, removed>>

\* The hub cannot be reached: only the node that signed in goes on.
ClaimUnreachable(n) ==
    /\ Happens("unreachable") /\ renew[n] # None /\ renew[n].step = "claiming"
    /\ renew' = [renew EXCEPT ![n] =
            IF @.held.origin = n THEN [@ EXCEPT !.step = "asking"] ELSE None]
    /\ UNCHANGED <<scenario, broker, outbox, inbox, owed, claims, handing, stuck, provider, minted, started, asked,
                   lineOf, revoked, removed>>

\* The provider rotates the refresh token it is shown, once; a token already
\* rotated is rejected, and the node notes that a new sign-in is needed.
Ask(n) ==
    /\ renew[n] # None /\ renew[n].step = "asking"
    /\ LET tok == renew[n].held.tok
           live == provider[tok.lin] = tok.gen
       IN /\ asked' = asked \cup {<<n, tok>>}
          /\ provider' = IF live THEN [provider EXCEPT ![tok.lin] = @ + 1] ELSE provider
          /\ renew' = [renew EXCEPT ![n] =
                IF live THEN [@ EXCEPT !.step = "storing"] ELSE None]
          /\ stuck' = [stuck EXCEPT ![n] = ~live]
    /\ UNCHANGED <<scenario, broker, outbox, inbox, owed, claims, handing, minted, started, spent, happened, lineOf, revoked,
                   removed>>

\* store(Refresh): the new tokens go into the copy held NOW, whatever happened
\* to it since it was read; then it is handed to every node it lists.
StoreOnlyNewTokens(n) ==
    /\ broker' = [broker EXCEPT ![n].cred.tok = [renew[n].held.tok EXCEPT !.gen = @ + 1]]
    /\ HandOff(n, broker'[n].cred)
    /\ UNCHANGED <<minted, lineOf>>

StoreRefreshed(n) ==
    LET c == EnsureGrant(Cred(n), n, minted + 1)
        d == [c EXCEPT !.ver = @ + 1, !.tok = [renew[n].held.tok EXCEPT !.gen = @ + 1]]
    IN /\ broker' = [broker EXCEPT ![n] = Put(@, d)]
       /\ HandOff(n, d)
       /\ minted' = IF Cred(n).grant = 0 THEN minted + 1 ELSE minted
       /\ lineOf' = IF Cred(n).grant = 0 THEN [lineOf EXCEPT ![d.grant] = d.tok.lin] ELSE lineOf

StoreRenewed(n) ==
    /\ renew[n] # None /\ renew[n].step = "storing"
    /\ IF Cred(n) = None THEN UNCHANGED <<broker, outbox, handing, minted, lineOf>>
       ELSE (Cred(n).grant = 0 => minted < scenario.mints) /\ StoreRefreshed(n)
    /\ renew' = [renew EXCEPT ![n] = None]
    /\ UNCHANGED <<scenario, inbox, owed, claims, stuck, provider, started, spent, happened, asked, revoked, removed>>

\* MeshClient::hand_off, one node after another.
QueueHandoff(n) ==
    /\ \E f \in handing[n] :
        /\ handing' = [handing EXCEPT ![n] = @ \ {f}]
        /\ outbox' = [outbox EXCEPT ![n] = Append(@, f)]
    /\ UNCHANGED <<scenario, broker, inbox, owed, claims, renew, stuck, provider, minted, started, spent, happened,
                   asked, lineOf, revoked, removed>>

\* One it has no sealing key for is warned about and passed over.
HandoffFails(n) ==
    /\ Spend("no_key") /\ Record({"no_key", "lost_handoff"})
    /\ \E f \in handing[n] : handing' = [handing EXCEPT ![n] = @ \ {f}]
    /\ UNCHANGED <<scenario, broker, outbox, inbox, owed, claims, renew, stuck, provider, minted, started, asked,
                   lineOf, revoked, removed>>

\* The node stops in a renewal, or between storing a copy and queueing its handoffs.
Crash(n) ==
    /\ Spend("crash") /\ (renew[n] # None \/ handing[n] # {})
    /\ Record({"crash"} \cup (IF handing[n] # {} THEN {"lost_handoff"} ELSE {}))
    /\ handing' = [handing EXCEPT ![n] = {}]
    /\ renew' = [renew EXCEPT ![n] = None]
    /\ stuck' = [stuck EXCEPT ![n] = FALSE]
    /\ UNCHANGED <<scenario, broker, outbox, inbox, owed, claims, provider, minted, started, asked, lineOf,
                   revoked, removed>>

-----------------------------------------------------------------------------
(* The hub *)

\* CLAIM_TTL_SECS pass: the claim lapses but is remembered.
Lapse(g) ==
    /\ Happens("lapse") /\ claims[g] # None /\ claims[g].live
    /\ claims' = [claims EXCEPT ![g].live = FALSE]
    /\ UNCHANGED <<scenario, broker, outbox, inbox, owed, handing, renew, stuck, provider, minted, started, asked,
                   lineOf, revoked, removed>>

\* Claims are memory only.
HubRestart ==
    /\ Happens("restart") /\ \E g \in Grants : claims[g] # None
    /\ claims' = [g \in Grants |-> None]
    /\ UNCHANGED <<scenario, broker, outbox, inbox, owed, handing, renew, stuck, provider, minted, started, asked,
                   lineOf, revoked, removed>>

\* drain_once posts the oldest frame of the outbox.
Post(n) ==
    /\ outbox[n] # <<>>
    /\ LET f == Head(outbox[n]) IN inbox' = [inbox EXCEPT ![f.to] = Append(@, f)]
    /\ outbox' = [outbox EXCEPT ![n] = Tail(@)]
    /\ UNCHANGED <<scenario, broker, owed, claims, handing, renew, stuck, provider, minted, started, spent, happened, asked,
                   lineOf, revoked, removed>>

\* A frame is pruned at the hub, or its reader stopped on it after seen_insert.
Lose(n) ==
    /\ Spend("lost") /\ inbox[n] # <<>>
    /\ Record({"lost"} \cup (IF Head(inbox[n]).kind = "handoff" THEN {"lost_handoff"} ELSE {}))
    /\ inbox' = [inbox EXCEPT ![n] = Tail(@)]
    /\ UNCHANGED <<scenario, broker, outbox, owed, claims, handing, renew, stuck, provider, minted, started, asked,
                   lineOf, revoked, removed>>

-----------------------------------------------------------------------------
(* What a node does with a frame: open_and_apply *)

Frame(n, kind) == inbox[n] # <<>> /\ Head(inbox[n]).kind = kind

ReceiveHandoff(n) ==
    /\ Frame(n, "handoff")
    /\ Record(Racing(n, Head(inbox[n]).copy.grant))
    /\ LET c == Head(inbox[n]).copy
       IN /\ broker' = [broker EXCEPT ![n] = ApplyHandoff(@, n, c)]
          /\ stuck' = [stuck EXCEPT ![n] = @ /\ ~Takes(broker[n], n, c)]
    /\ inbox' = [inbox EXCEPT ![n] = Tail(@)]
    /\ UNCHANGED <<scenario, outbox, owed, claims, handing, renew, provider, minted, started, spent, asked, lineOf,
                   revoked, removed>>

\* The receipt is queued once the broker is sealed to disk.
ReceiveRevoke(n) ==
    /\ Frame(n, "revoke")
    /\ LET f == Head(inbox[n])
       IN /\ broker' = [broker EXCEPT ![n] = ApplyRevoke(@, f.from, f.grant, f.ver)]
          /\ stuck' = [stuck EXCEPT ![n] = @ /\ ~Drops(broker[n], f.from, f.grant)]
          /\ Queue(n, [m \in {f.from} |-> [f EXCEPT !.kind = "receipt", !.from = n, !.to = m]])
    /\ inbox' = [inbox EXCEPT ![n] = Tail(@)]
    /\ UNCHANGED <<scenario, owed, claims, handing, renew, provider, minted, started, spent, happened, asked, lineOf, revoked,
                   removed>>

\* confirm_credential_revoke
ReceiveReceipt(n) ==
    /\ Frame(n, "receipt")
    /\ LET f == Head(inbox[n])
       IN owed' = [owed EXCEPT ![n] = @ \ {[to |-> f.from, grant |-> f.grant, ver |-> f.ver]}]
    /\ inbox' = [inbox EXCEPT ![n] = Tail(@)]
    /\ UNCHANGED <<scenario, broker, outbox, claims, handing, renew, stuck, provider, minted, started, spent, happened, asked,
                   lineOf, revoked, removed>>

\* No frame about this revoke is on its way, so RESEND_AFTER can have passed.
Settled(n, o) ==
    \A f \in UNION {{outbox[m][i] : i \in DOMAIN outbox[m]} \cup {inbox[m][i] : i \in DOMAIN inbox[m]}
                    : m \in {n, o.to}} :
        f.kind # "handoff" => f.grant # o.grant

\* reconcile_credential_revokes: an unanswered revoke is queued again.
ResendRevoke(n) ==
    /\ \E o \in owed[n] :
        /\ Settled(n, o)
        /\ Queue(n, [m \in {o.to} |-> RevokeFor(n, m, o.grant, o.ver)])
    /\ UNCHANGED <<scenario, broker, inbox, owed, claims, handing, renew, stuck, provider, minted, started, spent, happened,
                   asked, lineOf, revoked, removed>>

Next ==
    \/ \E n \in Nodes :
        \/ RemoveCredential(n) \/ Disconnect(n)
        \/ \E members \in {{}, scenario.mesh} : SetChannels(n, members)
        \/ StartRenew(n) \/ Claim(n) \/ ClaimUnreachable(n) \/ Ask(n) \/ StoreRenewed(n)
        \/ QueueHandoff(n) \/ HandoffFails(n) \/ Crash(n)
        \/ Post(n) \/ Lose(n) \/ ReceiveHandoff(n) \/ ReceiveRevoke(n) \/ ReceiveReceipt(n)
        \/ ResendRevoke(n)
    \/ \E n \in scenario.origins : SignIn(n, {}) \/ SignIn(n, scenario.mesh) \/ ImportHere(n)
    \/ \E n, to \in scenario.mesh : Share(n, to)
    \/ \E g \in Grants : Lapse(g)
    \/ HubRestart

Spec == Init /\ [][Next]_vars

-----------------------------------------------------------------------------
(* Properties *)

\* Every frame has been read, every revoke answered, and no renewal or handoff is
\* under way.
Quiet ==
    \A n \in Nodes :
        outbox[n] = <<>> /\ inbox[n] = <<>> /\ owed[n] = {} /\ handing[n] = {} /\ renew[n] = None

Without(events) == happened \cap events = {}

\* Once a revoke is answered by everyone (share_credential: "so that its revoke
\* reaches every copy"), no node is left with a copy of a sign-in its origin
\* removed.
RevokeAlwaysReaches ==
    Quiet => \A n \in Nodes : Cred(n) # None => Cred(n).grant \notin revoked

\* The same, crashes, lapsed claims, re-bound channels and revokes and receipts that
\* are lost included, unless a copy others hold was listed for one more, a handoff was
\* lost or not queued, or queued only after the removal (the revoke then meets nothing
\* to drop), or a tombstone was cleared: by an import, or by a new sign-in that was then
\* disconnected.  Copies, tombstones and frames are well formed throughout.
RevokeReachesEveryCopy ==
    /\ TypeOK
    /\ Without({"later_share", "lost_handoff", "overtaken", "import", "disconnect"}) => RevokeAlwaysReaches

\* A holder of a shared sign-in presents its refresh token only after winning the
\* hub's claim on that version, so no token is presented by two nodes (refresh: "is
\* renewed by one of them per version"), as long as the hub can be reached and
\* remembers its claims, no claim lapsed, no change of channels made a version of the
\* same tokens, and no copy was shared or replaced while it was being renewed.
OneNodeRenewsAVersion ==
    Without({"lapse", "restart", "unreachable", "set_channels", "mid_renewal"}) =>
        \A p, q \in asked : p[2] = q[2] => p[1] = q[1]

\* When nothing is in flight, the holders of one sign-in hold the same version of
\* it with the same tokens: apply_handoff's only-newer rule loses no renewal, also
\* when claims lapse, nodes stop or the hub restarts.  A change of channels counts as
\* a version too and may tie with a renewal; a lost handoff is not sent again; a node
\* that disconnected takes any old copy back; a renewal ending after another sign-in
\* is stored into that one; and a copy listed for one more, or carried over by an
\* import, is not sent to those who have it.
HoldersAgree ==
    /\ Without({"set_channels", "lost_handoff", "disconnect", "mid_renewal", "later_share", "import"})
    /\ Quiet
    => \A n, m \in Nodes :
            /\ Cred(n) # None /\ Cred(m) # None
            /\ Cred(n).grant = Cred(m).grant /\ Cred(n).grant # 0
            => Cred(n) = Cred(m)

\* A credential removed with `credential rm` stays removed: no hand-back of that
\* sign-in passes the tombstone (Broker::revoke, Tombstone::refuses), or a newer
\* sign-in made here.  An import clears the tombstone, and so does a sign-in, which
\* a disconnect then removes without one.
RemovedStaysRemoved ==
    Without({"import", "disconnect"}) =>
        \A n \in Nodes : Cred(n) # None => Cred(n).grant \notin removed[n] \ {0}

\* The tokens a copy holds descend from the sign-in its grant_id names
\* (Credential::grant_id), however imports, shares, removals and handoffs
\* interleave with renewals of other nodes.  A copy replaced in the middle of this
\* node's own renewal is the exception.
TokensDescendFromGrant ==
    Without({"mid_renewal"}) =>
        \A n \in Nodes : Cred(n) # None /\ Cred(n).grant # 0 => Cred(n).tok.lin = lineOf[Cred(n).grant]

=============================================================================
