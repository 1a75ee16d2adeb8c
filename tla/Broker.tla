-------------------------------- MODULE Broker --------------------------------
(***************************************************************************)
(* What a node's credential broker (node/src/broker/mod.rs) does with one  *)
(* credential name.  The broker's entry for the name is a record           *)
(*    [cred |-> the copy held, or None, tomb |-> the tombstone, or None].  *)
(* A copy has the sign-in it belongs to (grant; 0 when it names none), the *)
(* version, the sign-in's origin, the nodes it is shared with, and its     *)
(* tokens.  Sign-ins are numbered in the order they were minted: their     *)
(* UUIDv7 ids sort that way on nodes whose clocks agree.                   *)
(*                                                                         *)
(* `nodes` is a list in the code.  Only membership and its first element   *)
(* are read, and in every operation modelled the first element is the      *)
(* origin, so it is a set here.                                            *)
(***************************************************************************)
EXTENDS Integers

CONSTANT None   \* Option::None

\* Credential::supersedes: (grant_id, grant_version), in lexicographic order.
Supersedes(c, d) == c.grant > d.grant \/ (c.grant = d.grant /\ c.ver > d.ver)

\* Credential::newer_grant_than
NewerGrantThan(c, grant) == c.grant > grant

\* Credential::revoke_targets: only the origin's removal revokes.
RevokeTargets(c, n) == IF c.origin = n THEN c.nodes \ {n} ELSE {}

TombstoneOf(c) == [grant |-> c.grant, ver |-> c.ver, origin |-> c.origin]

\* Tombstone::refuses
RefusesOldCopies(t, c) == Supersedes(t, c)

Refuses(t, c) ==
    \/ ~NewerGrantThan(c, t.grant)
    \/ t.grant = 0 /\ t.origin # None /\ c.origin = t.origin

\* Broker::bury: keep whichever tombstone is of the later grant.
Bury(b, t) ==
    IF b.tomb # None /\ ~Supersedes(t, b.tomb) THEN b ELSE [b EXCEPT !.tomb = t]

\* Broker::put: the operator brings the credential back; its tombstone goes.
Put(b, c) == [cred |-> c, tomb |-> None]

\* Credential::ensure_grant, given the sign-in it would mint.
EnsureGrant(c, n, grant) ==
    IF c.grant # 0 THEN c ELSE [c EXCEPT !.grant = grant, !.origin = n]

\* Broker::import of tokens tok at n.  An import that replaces a credential n
\* shared keeps the nodes holding copies and gets a sign-in of its own.
ImportUnderOldGrant(b, n, tok, grant) ==
    IF b.cred # None /\ RevokeTargets(b.cred, n) # {}
    THEN Put(b, [b.cred EXCEPT !.tok = tok])
    ELSE Put(b, [grant |-> 0, ver |-> 0, origin |-> n, nodes |-> {}, tok |-> tok])

Import(b, n, tok, grant) ==
    LET carried == b.cred # None /\ RevokeTargets(b.cred, n) # {}
    IN Put(b, [grant  |-> IF carried THEN grant ELSE 0, ver |-> 0, origin |-> n,
               nodes  |-> IF carried THEN {n} \cup b.cred.nodes ELSE {}, tok |-> tok])

\* Broker::remove
Remove(b) == [b EXCEPT !.cred = None]

\* Broker::revoke: what was removed leaves a tombstone.
RevokeLeavesNothing(b) == Remove(b)

Revoke(b) == Bury(Remove(b), TombstoneOf(b.cred))

\* Broker::apply_revoke: the origin of the copy held is obeyed, unless the copy
\* is of a later sign-in.
Drops(b, from, grant) ==
    b.cred # None /\ b.cred.origin = from /\ ~NewerGrantThan(b.cred, grant)

ApplyRevoke(b, from, grant, ver) ==
    LET revoked == [grant |-> grant, ver |-> ver, origin |-> from]
        \* a tombstone already here is raised only by the sign-in's own origin
        raises  == b.cred = None /\ b.tomb # None /\ b.tomb.origin = from
    IN IF Drops(b, from, grant) THEN Bury(Revoke(b), revoked)
       ELSE IF raises THEN Bury(b, revoked) ELSE b

\* Broker::apply_handoff of copy c at n.
Takes(b, n, c) ==
    /\ n \in c.nodes
    /\ c.grant # 0 /\ b.cred # None => Supersedes(c, b.cred)
    /\ b.tomb # None => ~Refuses(b.tomb, c)

ApplyHandoff(b, n, c) == IF Takes(b, n, c) THEN [cred |-> c, tomb |-> None] ELSE b

=============================================================================
