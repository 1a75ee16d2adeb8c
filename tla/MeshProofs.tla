------------------------------ MODULE MeshProofs ------------------------------
(***************************************************************************)
(* Proofs about MeshSync for every set of nodes, writers and readers, any  *)
(* number of changes and faults, every page size and tap capacity.         *)
(***************************************************************************)
EXTENDS MeshSync, WellFoundedInduction, TLAPS

Ids == Nodes \X Nat

Frames == [from : Nodes, id : Nat, body : Payload]

Typed ==
    /\ own \in [Nodes -> 0 .. MaxSeq]
    /\ known \in [Nodes -> [Nodes -> SUBSET (1 .. MaxSeq)]]
    /\ unsent \in [Nodes -> SUBSET (1 .. MaxSeq)]
    /\ outbox \in [Nodes -> Seq(Frames)] /\ held \in [Nodes -> Seq(Frames)]
    /\ sent \in [Nodes -> Nat]
    /\ log \in [Chans -> Seq(Frames)] /\ lo \in [Chans -> Nat]
    /\ cursor \in [Nodes -> [Chans -> Nat]]
    /\ page \in [Nodes -> [Chans -> Nat]] /\ pos \in [Nodes -> [Chans -> Nat]]
    /\ seen \in [Nodes -> SUBSET Ids] /\ lost \in [Nodes -> SUBSET Ids]
    /\ aged \in [Nodes -> SUBSET Frames]
    /\ key \in [Nodes -> BOOLEAN] /\ faults \in 0 .. MaxFaults

\* Where a frame may be, and how far a node has read.
Placed ==
    /\ \A n \in Nodes : \A f \in Elements(outbox[n]) : f.from = n
    /\ \A c \in Chans : lo[c] <= Len(log[c]) /\ \A f \in Elements(log[c]) : ChanOf(f) = c
    /\ \A n \in Nodes : \A f \in Elements(held[n]) : f.body.kind = "changes" /\ f.from # n
    /\ \A n \in Nodes, c \in Chans :
        cursor[n][c] <= pos[n][c] /\ pos[n][c] <= page[n][c] /\ page[n][c] <= Len(log[c])

\* Every frame there is: queued, at the hub, or parked.
FramesIn(o, l, h) ==
    (UNION {Elements(o[m]) : m \in Nodes}) \cup (UNION {Elements(l[c]) : c \in Chans})
        \cup (UNION {Elements(h[m]) : m \in Nodes})

Around == FramesIn(outbox, log, held)

\* A frame's id names it, and what was seen was sent.
Named ==
    /\ \A f \in Around : f.id <= sent[f.from]
    /\ \A f, g \in Around : f.from = g.from /\ f.id = g.id => f = g
    /\ \A n \in Nodes : \A s \in seen[n] : s[2] <= sent[s[1]]

\* A change is committed before anybody hears of it; a request starts from a change
\* its sender holds; and below what a batch carries its reader holds a change.
Means(a, b) ==
    /\ b.kind = "changes" => \E k \in 1 .. own[a] : b.seqs = {k}
    /\ b.kind = "request" => b.to # a /\ (b.after = 0 \/ b.after \in known[a][b.to])
    /\ b.kind = "batch" =>
        /\ b.to # a /\ b.seqs \subseteq 1 .. own[a]
        /\ \A j \in b.seqs : \A k \in 1 .. j : k \in b.seqs \/ \E i \in known[b.to][a] : i >= k

Written ==
    /\ \A n \in Nodes : unsent[n] \subseteq 1 .. own[n]
    /\ \A n, a \in Nodes : known[n][a] \subseteq 1 .. own[a]
    /\ \A f \in Around : Means(f.from, f.body)
    /\ \A n \in Nodes : \A f \in aged[n] : f.from # n /\ f.body.seqs \subseteq 1 .. own[f.from]

\* A frame seen is opened or parked, or was dropped for its age.
Opened ==
    \A n \in Nodes : \A f \in Around :
        f.body.kind = "changes" /\ f.from # n /\ <<f.from, f.id>> \in seen[n] \ lost[n] =>
            (key[n] /\ f.body.seqs \subseteq known[n][f.from]) \/ f \in Elements(held[n]) \/ f \in aged[n]

\* A request of n to a that covers change k, or the answer, is still to be read.
Coming(n, a, k) ==
    \/ \E f \in Elements(outbox[n]) \cup Elements(log[Mesh]) :
        /\ f.body.kind = "request" /\ f.from = n /\ f.body.to = a /\ f.body.after < k
        /\ <<f.from, f.id>> \notin seen[a]
    \/ \E f \in Elements(outbox[a]) \cup Elements(log[Mesh]) :
        /\ f.body.kind = "batch" /\ f.from = a /\ f.body.to = n /\ k \in f.body.seqs
        /\ <<f.from, f.id>> \notin seen[n]

\* Read by m; and read, known or asked for.
Settled(m, f) == f.from = m \/ <<f.from, f.id>> \in seen[m]

Past(m, f) == Settled(m, f) \/ \A k \in f.body.seqs : k \in known[m][f.from] \/ Coming(m, f.from, k)

\* The change of a frame dropped for its age is known or asked for, once there is a key.
Regained(m, f) == key[m] => \A k \in f.body.seqs : k \in known[m][f.from] \/ Coming(m, f.from, k)

\* The answers' channel loses nothing, every hole is asked for, and so is every change
\* a node has moved past or dropped.
Asked ==
    /\ lo[Mesh] = 0
    /\ \A n \in Nodes : \A i \in 1 .. pos[n][Mesh] : Settled(n, log[Mesh][i])
    /\ \A n, a \in Nodes : \A k \in 1 .. MaxSeq : Hole(n, a, k) => Coming(n, a, k)
    /\ \A n \in Nodes : \A i \in 1 .. pos[n][Rec] : Past(n, log[Rec][i])
    /\ \A n \in Nodes : \A f \in aged[n] : Regained(n, f)

IInv == Typed /\ Placed /\ Named /\ Written /\ Opened

\* The elements of a sequence that grows at its end.
LEMMA ElementsAppend ==
    ASSUME NEW S, NEW q \in Seq(S), NEW e \in S
    PROVE  Append(q, e) \in Seq(S) /\ Elements(Append(q, e)) = Elements(q) \cup {e}
<1>1. Append(q, e) \in Seq(S) /\ Len(Append(q, e)) = Len(q) + 1
      /\ Append(q, e)[Len(q) + 1] = e
      /\ \A i \in 1 .. Len(q) : Append(q, e)[i] = q[i]
  OBVIOUS
<1>2. DOMAIN q = 1 .. Len(q) /\ DOMAIN Append(q, e) = 1 .. Len(q) + 1 /\ Len(q) \in Nat
  OBVIOUS
<1>3. \A x \in Elements(q) \cup {e} : x \in Elements(Append(q, e))
  BY <1>1, <1>2 DEF Elements
<1>4. \A x \in Elements(Append(q, e)) : x \in Elements(q) \cup {e}
  <2> SUFFICES ASSUME NEW i \in 1 .. Len(q) + 1 PROVE Append(q, e)[i] \in Elements(q) \cup {e}
    BY <1>2, Zenon DEF Elements
  <2>1. i \in 1 .. Len(q) \/ i = Len(q) + 1 BY <1>2
  <2> QED BY <1>1, <1>2, <2>1, Zenon DEF Elements
<1> QED BY <1>1, <1>3, <1>4, Zenon

\* The elements of a sequence that loses its first one.
LEMMA ElementsTail ==
    ASSUME NEW S, NEW q \in Seq(S), q # <<>>
    PROVE  /\ Tail(q) \in Seq(S) /\ Head(q) \in S
           /\ Elements(q) = Elements(Tail(q)) \cup {Head(q)}
<1>1. Tail(q) \in Seq(S) /\ Head(q) \in S /\ Head(q) = q[1] /\ Len(q) \in Nat \ {0}
      /\ Len(Tail(q)) = Len(q) - 1 /\ \A i \in 1 .. Len(q) - 1 : Tail(q)[i] = q[i + 1]
  OBVIOUS
<1>2. DOMAIN q = 1 .. Len(q) /\ DOMAIN Tail(q) = 1 .. Len(q) - 1
  BY <1>1
<1>3. \A x \in Elements(Tail(q)) \cup {Head(q)} : x \in Elements(q)
  <2>1. Head(q) \in Elements(q) BY <1>1, <1>2 DEF Elements
  <2>2. ASSUME NEW i \in 1 .. Len(q) - 1 PROVE Tail(q)[i] \in Elements(q)
    <3>1. i + 1 \in DOMAIN q BY <1>1, <1>2
    <3> QED BY <1>1, <3>1, Zenon DEF Elements
  <2> QED BY <1>2, <2>1, <2>2, Zenon DEF Elements
<1>4. \A x \in Elements(q) : x \in Elements(Tail(q)) \cup {Head(q)}
  <2> SUFFICES ASSUME NEW i \in 1 .. Len(q) PROVE q[i] \in Elements(Tail(q)) \cup {Head(q)}
    BY <1>2, Zenon DEF Elements
  <2>1. CASE i = 1 BY <1>1, <2>1, Zenon
  <2>2. CASE i # 1
    <3>1. i - 1 \in 1 .. Len(q) - 1 /\ (i - 1) + 1 = i BY <1>1, <2>2
    <3>2. Tail(q)[i - 1] = q[i] BY <1>1, <3>1, Zenon
    <3> QED BY <1>2, <3>1, <3>2, Zenon DEF Elements
  <2> QED BY <2>1, <2>2, Zenon
<1> QED BY <1>1, <1>3, <1>4, Zenon

\* The elements of two sequences put together.
LEMMA ElementsConcat ==
    ASSUME NEW S, NEW q \in Seq(S), NEW r \in Seq(S)
    PROVE  q \o r \in Seq(S) /\ Elements(q \o r) = Elements(q) \cup Elements(r)
<1>1. q \o r \in Seq(S) /\ Len(q \o r) = Len(q) + Len(r) /\ Len(q) \in Nat /\ Len(r) \in Nat
      /\ (\A i \in 1 .. Len(q) : (q \o r)[i] = q[i])
      /\ \A i \in Len(q) + 1 .. Len(q) + Len(r) : (q \o r)[i] = r[i - Len(q)]
  OBVIOUS
<1>2. DOMAIN q = 1 .. Len(q) /\ DOMAIN r = 1 .. Len(r) /\ DOMAIN (q \o r) = 1 .. Len(q) + Len(r)
  BY <1>1
<1>3. \A x \in Elements(q) : x \in Elements(q \o r)
  <2> SUFFICES ASSUME NEW i \in 1 .. Len(q) PROVE q[i] \in Elements(q \o r)
    BY <1>2, Zenon DEF Elements
  <2>1. i \in 1 .. Len(q) + Len(r) BY <1>1
  <2> QED BY <1>1, <1>2, <2>1, Zenon DEF Elements
<1>4. \A x \in Elements(r) : x \in Elements(q \o r)
  <2> SUFFICES ASSUME NEW i \in 1 .. Len(r) PROVE r[i] \in Elements(q \o r)
    BY <1>2, Zenon DEF Elements
  <2>1. i + Len(q) \in 1 .. Len(q) + Len(r) /\ i + Len(q) \in Len(q) + 1 .. Len(q) + Len(r)
        /\ (i + Len(q)) - Len(q) = i
    BY <1>1
  <2>2. (q \o r)[i + Len(q)] = r[i] BY <1>1, <2>1, Zenon
  <2> QED BY <1>2, <2>1, <2>2, Zenon DEF Elements
<1>5. \A x \in Elements(q \o r) : x \in Elements(q) \cup Elements(r)
  <2> SUFFICES ASSUME NEW i \in 1 .. Len(q) + Len(r)
               PROVE (q \o r)[i] \in Elements(q) \cup Elements(r)
    BY <1>2, Zenon DEF Elements
  <2>1. CASE i <= Len(q) BY <1>1, <1>2, <2>1 DEF Elements
  <2>2. CASE i > Len(q)
    <3>1. i - Len(q) \in 1 .. Len(r) /\ i \in Len(q) + 1 .. Len(q) + Len(r) BY <1>1, <2>2
    <3>2. (q \o r)[i] = r[i - Len(q)] BY <1>1, <3>1, Zenon
    <3> QED BY <1>2, <3>1, <3>2, Zenon DEF Elements
  <2> QED BY <1>1, <2>1, <2>2
<1> QED BY <1>1, <1>3, <1>4, <1>5, Zenon

\* change_log_max is 0 or a change held, and nothing held is later.
LEMMA ChangeLogMaxIs ==
    ASSUME NEW m \in Nat, NEW ks \in SUBSET (1 .. m)
    PROVE  /\ ChangeLogMax(ks) \in 0 .. m
           /\ ChangeLogMax(ks) = 0 \/ ChangeLogMax(ks) \in ks
           /\ \A k \in ks : k <= ChangeLogMax(ks)
<1> DEFINE Above == {u \in Nat : \A k \in ks : k <= u}
           less == OpToRel(<, Nat)
<1>1. Above # {} /\ Above \subseteq Nat
  <2>1. m \in Above OBVIOUS
  <2> QED BY <2>1, Zenon
<1>2. \A x, y \in Nat : x < y => <<x, y>> \in less
  BY Zenon DEF OpToRel
<1>3. PICK u \in Above : \A v \in Above : <<v, u>> \notin less
  <2> HIDE DEF Above, less
  <2> QED BY <1>1, WFMin, NatLessThanWellFounded, Zenon DEF less
<1>4. u \in Nat /\ \A k \in ks : k <= u
  BY Zenon
<1>5. u = 0 \/ u \in ks
  <2> SUFFICES ASSUME u # 0, u \notin ks PROVE FALSE BY Zenon
  <2>1. u - 1 \in Nat /\ u - 1 < u BY <1>4
  <2>2. ASSUME NEW k \in ks PROVE k <= u - 1
    <3>1. k \in Nat /\ k <= u /\ k # u BY <1>4
    <3> QED BY <1>4, <3>1
  <2>3. u - 1 \in Above BY <2>1, <2>2, Zenon
  <2>4. <<u - 1, u>> \in less BY <1>2, <1>4, <2>1, Zenon
  <2> HIDE DEF Above, less
  <2> QED BY <1>3, <2>3, <2>4, Zenon
<1>6. u \in {0} \cup ks /\ \A j \in ks : j <= u
  BY <1>4, <1>5, Zenon
<1>7. ChangeLogMax(ks) \in {0} \cup ks /\ \A j \in ks : j <= ChangeLogMax(ks)
  <2> HIDE DEF Above, less
  <2> QED BY <1>6, Zenon DEF ChangeLogMax
<1>8. \A x \in {0} \cup ks : x \in 0 .. m
  <2> HIDE DEF Above, less
  <2> QED OBVIOUS
<1> HIDE DEF Above, less
<1> QED BY <1>7, <1>8, Zenon

\* The frames that pushing bodies adds to n's outbox.
NewFrames(n, bodies) ==
    {[from |-> n, id |-> sent[n] + i, body |-> bodies[i]] : i \in 1 .. Len(bodies)}

\* What that does to the outbox and to the ids.
Queues(n, bodies) ==
    /\ outbox' \in [Nodes -> Seq(Frames)] /\ sent' \in [Nodes -> Nat]
    /\ Elements(outbox'[n]) = Elements(outbox[n]) \cup NewFrames(n, bodies)
    /\ \A m \in Nodes \ {n} : outbox'[m] = outbox[m] /\ sent'[m] = sent[m]
    /\ sent'[n] = sent[n] + Len(bodies)

\* push_envelope queues what it is given.
LEMMA PushIs ==
    ASSUME Typed, NEW n \in Nodes, NEW bodies \in Seq(Payload), Push(n, bodies)
    PROVE  Queues(n, bodies)
<1> DEFINE new == [i \in 1 .. Len(bodies) |-> [from |-> n, id |-> sent[n] + i, body |-> bodies[i]]]
<1>1. outbox \in [Nodes -> Seq(Frames)] /\ sent \in [Nodes -> Nat] BY Zenon DEF Typed
<1>2. Len(bodies) \in Nat /\ sent[n] \in Nat /\ outbox[n] \in Seq(Frames) BY <1>1
<1>3. new \in Seq(Frames)
  <2>1. ASSUME NEW i \in 1 .. Len(bodies) PROVE new[i] \in Frames
    <3>1. bodies[i] \in Payload /\ sent[n] + i \in Nat BY <1>2
    <3> QED BY <3>1, Zenon DEF Frames
  <2> QED BY <1>2, <2>1
<1>4. DOMAIN new = 1 .. Len(bodies) /\ Elements(new) = NewFrames(n, bodies)
  BY Zenon DEF Elements, NewFrames
<1>5. outbox' = [outbox EXCEPT ![n] = outbox[n] \o new]
      /\ sent' = [sent EXCEPT ![n] = sent[n] + Len(bodies)]
  BY Zenon DEF Push
<1> HIDE DEF new
<1>6. outbox[n] \o new \in Seq(Frames)
      /\ Elements(outbox[n] \o new) = Elements(outbox[n]) \cup Elements(new)
  BY <1>2, <1>3, ElementsConcat
<1>7. outbox' \in [Nodes -> Seq(Frames)] /\ outbox'[n] = outbox[n] \o new
      /\ \A m \in Nodes \ {n} : outbox'[m] = outbox[m]
  BY <1>1, <1>5, <1>6, Zenon
<1>8. sent' \in [Nodes -> Nat] /\ sent'[n] = sent[n] + Len(bodies)
      /\ \A m \in Nodes \ {n} : sent'[m] = sent[m]
  BY <1>1, <1>2, <1>5
<1>9. Elements(outbox'[n]) = Elements(outbox[n] \o new) BY <1>7, Zenon DEF Elements
<1> QED BY <1>4, <1>6, <1>7, <1>8, <1>9, Zenon DEF Queues

\* Which frames pushing nothing, or one body, adds.
LEMMA NewFramesAre ==
    ASSUME NEW n
    PROVE  /\ NewFrames(n, <<>>) = {}
           /\ \A b : NewFrames(n, <<b>>) = {[from |-> n, id |-> sent[n] + 1, body |-> b]}
BY DEF NewFrames

\* Where a frame that is around is.
LEMMA FramesInAre ==
    ASSUME NEW o, NEW l, NEW h, NEW f
    PROVE  f \in FramesIn(o, l, h) <=>
                \/ \E m \in Nodes : f \in Elements(o[m]) \/ f \in Elements(h[m])
                \/ \E c \in Chans : f \in Elements(l[c])
<1> DEFINE O == UNION {Elements(o[m]) : m \in Nodes}
           L == UNION {Elements(l[c]) : c \in Chans}
           H == UNION {Elements(h[m]) : m \in Nodes}
<1>1. f \in O <=> \E m \in Nodes : f \in Elements(o[m]) BY Zenon
<1>2. f \in H <=> \E m \in Nodes : f \in Elements(h[m]) BY Zenon
<1>3. f \in L <=> \E c \in Chans : f \in Elements(l[c]) BY Zenon
<1>4. FramesIn(o, l, h) = O \cup L \cup H BY Zenon DEF FramesIn
<1> HIDE DEF O, L, H
<1>5. f \in FramesIn(o, l, h) <=> f \in O \/ f \in L \/ f \in H BY <1>4, Zenon
<1>6. (\E m \in Nodes : f \in Elements(o[m]) \/ f \in Elements(h[m])) <=> f \in O \/ f \in H
  BY <1>1, <1>2, Zenon
<1> QED BY <1>3, <1>5, <1>6, Zenon

\* The same of the frames around now, and after a step.
LEMMA AroundIs ==
    /\ \A f : f \in Around <=>
            \/ \E m \in Nodes : f \in Elements(outbox[m]) \/ f \in Elements(held[m])
            \/ \E c \in Chans : f \in Elements(log[c])
    /\ \A f : f \in Around' <=>
            \/ \E m \in Nodes : f \in Elements(outbox'[m]) \/ f \in Elements(held'[m])
            \/ \E c \in Chans : f \in Elements(log'[c])
BY FramesInAre, Zenon DEF Around

\* Nothing that is known, seen, lost, dropped or held as a key is forgotten; what is seen
\* is around.
Remembers ==
    \A m \in Nodes :
        /\ own[m] <= own'[m] /\ (key[m] => key'[m])
        /\ seen[m] \subseteq seen'[m] /\ lost[m] \subseteq lost'[m] /\ aged[m] \subseteq aged'[m]
        /\ seen'[m] \subseteq seen[m] \cup {<<f.from, f.id>> : f \in Around}
        /\ \A a \in Nodes : known[m][a] \subseteq known'[m][a]

\* A step of n that seals the bodies B: no other frame comes into being, and ids are
\* used up in order.
Carries(n, B) ==
    /\ Around' \subseteq Around \cup NewFrames(n, B)
    /\ sent'[n] = sent[n] + Len(B) /\ \A m \in Nodes \ {n} : sent'[m] = sent[m]
    /\ Remembers

\* Everything around is a frame.
LEMMA AroundFrames == Typed => Around \subseteq Frames
<1> SUFFICES ASSUME Typed, NEW f \in Around PROVE f \in Frames BY Zenon
<1>1. (\E m \in Nodes : f \in Elements(outbox[m]) \/ f \in Elements(held[m]))
      \/ \E c \in Chans : f \in Elements(log[c])
  BY AroundIs, Zenon
<1>2. \A q \in Seq(Frames) : Elements(q) \subseteq Frames BY DEF Elements
<1>3. (\A m \in Nodes : outbox[m] \in Seq(Frames) /\ held[m] \in Seq(Frames))
      /\ \A c \in Chans : log[c] \in Seq(Frames)
  BY Zenon DEF Typed
<1> QED BY <1>1, <1>2, <1>3, Zenon

\* A frame that is new has an id above every id used so far.
LEMMA NewFrameIs ==
    ASSUME Typed, NEW n \in Nodes, NEW B \in Seq(Payload), NEW f \in NewFrames(n, B)
    PROVE  /\ f \in Frames /\ f.from = n /\ f.id > sent[n] /\ f.id <= sent[n] + Len(B)
           /\ f.id - sent[n] \in 1 .. Len(B) /\ f.body = B[f.id - sent[n]]
<1>1. PICK i \in 1 .. Len(B) : f = [from |-> n, id |-> sent[n] + i, body |-> B[i]]
  BY Zenon DEF NewFrames
<1>2. sent[n] \in Nat /\ Len(B) \in Nat /\ B[i] \in Payload BY DEF Typed
<1>3. f.from = n /\ f.id = sent[n] + i /\ f.body = B[i] BY <1>1, Zenon
<1>4. f \in Frames BY <1>1, <1>2 DEF Frames
<1>5. f.id - sent[n] = i BY <1>2, <1>3
<1> QED BY <1>2, <1>3, <1>4, <1>5

\* Nobody has seen a frame that is new.
LEMMA NewUnseen ==
    ASSUME Typed, Named, NEW n \in Nodes, NEW B \in Seq(Payload), Remembers,
           NEW f \in NewFrames(n, B), NEW m \in Nodes
    PROVE  <<f.from, f.id>> \notin seen'[m]
<1>1. f.from = n /\ f.id > sent[n] BY NewFrameIs, Zenon
<1>2. ASSUME <<f.from, f.id>> \in seen[m] PROVE FALSE
  <2>1. <<n, f.id>>[2] <= sent[<<n, f.id>>[1]] BY <1>1, <1>2, Zenon DEF Named
  <2>2. sent[n] \in Nat /\ <<n, f.id>> \in Ids BY <1>1, <1>2, Zenon DEF Typed
  <2>3. f.id \in Nat BY <2>2, Zenon DEF Ids
  <2> QED BY <1>1, <2>1, <2>2, <2>3
<1>3. ASSUME NEW g \in Around, <<f.from, f.id>> = <<g.from, g.id>> PROVE FALSE
  <2>1. g.from = n /\ g.id = f.id BY <1>1, <1>3, Zenon
  <2>2. g.id <= sent[n] /\ g.id \in Nat /\ sent[n] \in Nat
    BY <2>1, AroundFrames, Zenon DEF Named, Frames, Typed
  <2> QED BY <1>1, <2>1, <2>2
<1> QED BY <1>2, <1>3, Zenon DEF Remembers

\* The places' frames are around.
LEMMA PlacesAround ==
    /\ \A m \in Nodes : Elements(outbox[m]) \subseteq Around /\ Elements(held[m]) \subseteq Around
    /\ \A c \in Chans : Elements(log[c]) \subseteq Around
BY AroundIs, Zenon

\* A step that leaves the outboxes alone queues nothing.
LEMMA QueuesNothing ==
    ASSUME Typed, NEW n \in Nodes, UNCHANGED <<outbox, sent>>
    PROVE  Queues(n, <<>>)
<1>1. outbox \in [Nodes -> Seq(Frames)] /\ sent \in [Nodes -> Nat] BY Zenon DEF Typed
<1>2. Elements(outbox'[n]) = Elements(outbox[n]) \cup NewFrames(n, <<>>) BY NewFramesAre, Zenon
<1>3. sent'[n] = sent[n] + Len(<<>>) BY <1>1
<1> QED BY <1>1, <1>2, <1>3, Zenon DEF Queues

\* The bodies that are sent are payloads.
LEMMA PayloadsAre ==
    ASSUME Typed, NEW n \in Nodes
    PROVE  /\ \A k \in 1 .. MaxSeq : Changes(n, k) \in Payload
           /\ \A k \in 0 .. MaxSeq : Request(n, k) \in Payload
           /\ \A ks \in SUBSET (1 .. MaxSeq) : Batch(n, ks) \in Payload
<1>0. MaxSeq \in Nat BY ConstAssumption, Zenon DEF ConstAssumption
<1>1. ASSUME NEW k \in 1 .. MaxSeq PROVE Changes(n, k) \in Payload
  <2>1. {k} \in SUBSET (1 .. MaxSeq) /\ 0 \in 0 .. MaxSeq BY <1>0
  <2> QED BY <2>1, Zenon DEF Changes, Payload
<1>2. ASSUME NEW k \in 0 .. MaxSeq PROVE Request(n, k) \in Payload
  <2>1. {} \in SUBSET (1 .. MaxSeq) BY Zenon
  <2> QED BY <2>1, Zenon DEF Request, Payload
<1>3. ASSUME NEW ks \in SUBSET (1 .. MaxSeq) PROVE Batch(n, ks) \in Payload
  <2>1. 0 \in 0 .. MaxSeq BY <1>0
  <2> QED BY <2>1, Zenon DEF Batch, Payload
<1> QED BY <1>1, <1>2, <1>3, Zenon

\* The last change held of a site.
LEMMA LastHeld ==
    ASSUME Typed, NEW n \in Nodes, NEW a \in Nodes
    PROVE  LET after == ChangeLogMax(known[n][a])
           IN /\ after \in 0 .. MaxSeq /\ (after = 0 \/ after \in known[n][a])
              /\ \A k \in known[n][a] : k <= after
<1>1. MaxSeq \in Nat BY ConstAssumption, Zenon DEF ConstAssumption
<1>2. known[n][a] \in SUBSET (1 .. MaxSeq) BY DEF Typed
<1> QED BY <1>1, <1>2, ChangeLogMaxIs, Zenon

\* request_changes_backfill_all queues one request to every other node.
LEMMA AskAllIs ==
    ASSUME Typed, NEW n \in Nodes, AskAll(n)
    PROVE  \E B \in Seq(Payload) :
            /\ Queues(n, B)
            /\ \A i \in 1 .. Len(B) : \E a \in Nodes \ {n} : B[i] = Request(a, ChangeLogMax(known[n][a]))
            /\ \A a \in Nodes \ {n} : \E i \in 1 .. Len(B) : B[i] = Request(a, ChangeLogMax(known[n][a]))
<1> DEFINE others == Nodes \ {n}
           C == Cardinality(others)
<1>1. C \in Nat BY ConstAssumption, Zenon DEF ConstAssumption
<1>2. PICK sites \in [1 .. C -> others] :
        /\ \A a \in others : \E i \in DOMAIN sites : sites[i] = a
        /\ Push(n, [i \in DOMAIN sites |-> Request(sites[i], ChangeLogMax(known[n][sites[i]]))])
  BY Zenon DEF AskAll
<1> DEFINE B == [i \in 1 .. C |-> Request(sites[i], ChangeLogMax(known[n][sites[i]]))]
<1>3. DOMAIN sites = 1 .. C BY <1>2, Zenon
<1>4. \A i \in 1 .. C : sites[i] \in Nodes /\ sites[i] # n BY <1>2, Zenon
<1>5. ASSUME NEW i \in 1 .. C PROVE B[i] \in Payload
  <2>1. sites[i] \in Nodes BY <1>4, Zenon
  <2>2. ChangeLogMax(known[n][sites[i]]) \in 0 .. MaxSeq BY <2>1, LastHeld, Zenon
  <2>3. B[i] = Request(sites[i], ChangeLogMax(known[n][sites[i]])) BY Zenon
  <2> HIDE DEF B, C
  <2> QED BY <2>1, <2>2, <2>3, PayloadsAre, Zenon
<1>6. \A i \in 1 .. C : B[i] = Request(sites[i], ChangeLogMax(known[n][sites[i]])) BY Zenon
<1>7. Push(n, B) BY <1>2, <1>3, Zenon
<1>8. B \in [1 .. C -> Payload] BY <1>5, Zenon
<1> HIDE DEF B, C
<1>9. B \in Seq(Payload) /\ Len(B) = C BY <1>1, <1>8
<1>10. Queues(n, B) BY <1>7, <1>9, PushIs, Zenon
<1>11. \A i \in 1 .. Len(B) : \E a \in Nodes \ {n} : B[i] = Request(a, ChangeLogMax(known[n][a]))
  BY <1>4, <1>6, <1>9, Zenon
<1>12. \A a \in Nodes \ {n} : \E i \in 1 .. Len(B) : B[i] = Request(a, ChangeLogMax(known[n][a]))
  BY <1>2, <1>3, <1>6, <1>9, ZenonT(40)
<1> QED BY <1>9, <1>10, <1>11, <1>12, Zenon

\* n adds the changes ks to what it holds of a.
Learns(n, a, ks) ==
    /\ known' \in [Nodes -> [Nodes -> SUBSET (1 .. MaxSeq)]]
    /\ known'[n][a] = known[n][a] \cup ks
    /\ \A m, b \in Nodes : m # n \/ b # a => known'[m][b] = known[m][b]

\* Adding changes of one site to what a node holds.
LEMMA LearnsIs ==
    ASSUME Typed, NEW n \in Nodes, NEW a \in Nodes, NEW ks \in SUBSET (1 .. MaxSeq),
           known' = [known EXCEPT ![n][a] = @ \cup ks]
    PROVE  Learns(n, a, ks)
<1>1. known \in [Nodes -> [Nodes -> SUBSET (1 .. MaxSeq)]] BY Zenon DEF Typed
<1>2. known[n] \in [Nodes -> SUBSET (1 .. MaxSeq)] /\ known[n][a] \in SUBSET (1 .. MaxSeq) BY <1>1, Zenon
<1>3. known' = [known EXCEPT ![n] = [known[n] EXCEPT ![a] = known[n][a] \cup ks]] BY <1>1, Zenon
<1>4. [known[n] EXCEPT ![a] = known[n][a] \cup ks] \in [Nodes -> SUBSET (1 .. MaxSeq)] BY <1>2, Zenon
<1>5. known' \in [Nodes -> [Nodes -> SUBSET (1 .. MaxSeq)]] BY <1>1, <1>3, <1>4, Zenon
<1>6. known'[n][a] = known[n][a] \cup ks BY <1>1, <1>3, Zenon
<1>7. \A m, b \in Nodes : m # n \/ b # a => known'[m][b] = known[m][b] BY <1>1, <1>3
<1> QED BY <1>5, <1>6, <1>7, Zenon DEF Learns

\* open_and_apply of a Changes frame: its change is learnt, and a request is queued if
\* it leaves a gap.
LEMMA OpenChangesIs ==
    ASSUME Typed, NEW n \in Nodes, NEW f \in Frames, OpenChanges(n, f)
    PROVE  LET after == ChangeLogMax(known[n][f.from])
           IN /\ Learns(n, f.from, f.body.seqs)
              /\ \/ Queues(n, <<>>) /\ \E k \in f.body.seqs : ~(k > after + 1)
                 \/ Queues(n, <<Request(f.from, after)>>) /\ <<Request(f.from, after)>> \in Seq(Payload)
<1> DEFINE after == ChangeLogMax(known[n][f.from])
           gap   == \A k \in f.body.seqs : k > after + 1
<1>1. f.from \in Nodes /\ f.body \in Payload BY Zenon DEF Frames
<1>2. f.body.seqs \in SUBSET (1 .. MaxSeq) BY <1>1, Zenon DEF Payload
<1>3. known' = [known EXCEPT ![n][f.from] = @ \cup f.body.seqs]
      /\ Push(n, IF gap THEN <<Request(f.from, after)>> ELSE <<>>)
  BY Zenon DEF OpenChanges
<1>4. Learns(n, f.from, f.body.seqs) BY <1>1, <1>2, <1>3, LearnsIs, Zenon
<1>5. after \in 0 .. MaxSeq BY <1>1, LastHeld, Zenon
<1>6. Request(f.from, after) \in Payload
  <2> HIDE DEF after
  <2> QED BY <1>1, <1>5, PayloadsAre, Zenon
<1>7. <<Request(f.from, after)>> \in Seq(Payload) /\ <<>> \in Seq(Payload)
  <2> HIDE DEF after
  <2> QED BY <1>6
<1>8. CASE gap
  <2>1. Push(n, <<Request(f.from, after)>>) BY <1>3, <1>8, Zenon
  <2>2. Queues(n, <<Request(f.from, after)>>) BY <1>7, <2>1, PushIs, Zenon
  <2> QED BY <1>4, <1>7, <2>2, Zenon
<1>9. CASE ~gap
  <2>1. Push(n, <<>>) BY <1>3, <1>9, Zenon
  <2>2. Queues(n, <<>>) BY <1>7, <2>1, PushIs, Zenon
  <2> QED BY <1>4, <1>9, <2>2, Zenon
<1> QED BY <1>8, <1>9, Zenon

\* What a step of n that seals the bodies B owes to the invariant: what it sends is
\* true, what it commits or learns was committed, what it sees it opens or parks, and
\* what it takes out of the parked frames it opens or drops for its age.
Keeps(n, B) ==
    /\ Carries(n, B) /\ \A i \in 1 .. Len(B) : Means(n, B[i])'
    /\ \A m \in Nodes : unsent'[m] \subseteq 1 .. own'[m]
    /\ \A m, a \in Nodes : known'[m][a] \subseteq 1 .. own'[a]
    /\ \A m \in Nodes : aged'[m] \subseteq aged[m] \cup Elements(held[m])
    /\ \A m \in Nodes : \A f \in Elements(held[m]) :
            \/ f \in Elements(held'[m]) \/ f \in aged'[m]
            \/ key'[m] /\ f.body.seqs \subseteq known'[m][f.from]
    /\ \A m \in Nodes : \A f \in Around :
            f.body.kind = "changes" /\ f.from # m /\ <<f.from, f.id>> \notin seen[m]
                /\ <<f.from, f.id>> \in seen'[m] \ lost'[m] =>
            f \in Elements(held'[m]) \/ (key'[m] /\ f.body.seqs \subseteq known'[m][f.from])

\* The frame a node reads next is at the hub.
LEMMA NextFrame ==
    ASSUME Typed, Placed, NEW n \in Nodes, NEW c \in Chans, pos[n][c] < page[n][c]
    PROVE  LET f == log[c][pos[n][c] + 1]
           IN /\ pos[n][c] + 1 \in 1 .. Len(log[c]) /\ pos[n][c] + 1 <= page[n][c]
              /\ f \in Elements(log[c]) /\ f \in Around /\ f \in Frames /\ ChanOf(f) = c
<1>1. pos[n][c] \in Nat /\ page[n][c] \in Nat /\ log[c] \in Seq(Frames) /\ page[n][c] <= Len(log[c])
  BY Zenon DEF Typed, Placed
<1>2. Len(log[c]) \in Nat /\ DOMAIN log[c] = 1 .. Len(log[c]) BY <1>1
<1>3. pos[n][c] + 1 \in 1 .. Len(log[c]) /\ pos[n][c] + 1 <= page[n][c] BY <1>1, <1>2
<1>4. log[c][pos[n][c] + 1] \in Elements(log[c]) BY <1>2, <1>3, Zenon DEF Elements
<1>5. log[c][pos[n][c] + 1] \in Frames BY <1>1, <1>3
<1> QED BY <1>3, <1>4, <1>5, PlacesAround, Zenon DEF Placed

\* What open_and_apply does with a frame, by its kind.
LEMMA OpenAndApplyIs ==
    ASSUME Typed, NEW n \in Nodes, NEW f \in Frames, OpenAndApply(n, f)
    PROVE  \/ /\ f.body.kind = "changes" /\ ~key[n] /\ held' = [held EXCEPT ![n] = Append(@, f)]
              /\ UNCHANGED <<known, outbox, sent>>
           \/ f.body.kind = "changes" /\ key[n] /\ OpenChanges(n, f) /\ UNCHANGED held
           \/ /\ f.body.kind = "request" /\ f.body.to = n /\ Push(n, Answer(n, f.from, f.body.after))
              /\ UNCHANGED <<known, held>>
           \/ /\ f.body.kind = "batch" /\ f.body.to = n
              /\ known' = [known EXCEPT ![n][f.from] = @ \cup f.body.seqs]
              /\ UNCHANGED <<held, outbox, sent>>
           \/ f.body.kind # "changes" /\ f.body.to # n /\ UNCHANGED <<known, held, outbox, sent>>
<1>1. key[n] \in BOOLEAN BY Zenon DEF Typed
<1>2. f.body.kind \in {"changes", "request", "batch"} BY Zenon DEF Frames, Payload
<1> QED BY <1>1, <1>2, Zenon DEF OpenAndApply

\* An answer carries the changes of this site after the one asked from, all of them.
LEMMA AnswerIs ==
    ASSUME Typed, NEW n \in Nodes, NEW m \in Nodes, NEW after \in Nat
    PROVE  LET ks == {k \in 1 .. own[n] : k > after}
           IN /\ ks \in SUBSET (1 .. MaxSeq) /\ Answer(n, m, after) \in Seq(Payload)
              /\ Answer(n, m, after) = <<>> \/ Answer(n, m, after) = <<Batch(m, ks)>>
              /\ ks # {} => Answer(n, m, after) = <<Batch(m, ks)>>
<1> DEFINE ks == {k \in 1 .. own[n] : k > after}
<1>1. own[n] \in 0 .. MaxSeq /\ MaxSeq \in Nat BY ConstAssumption, Zenon DEF Typed, ConstAssumption
<1>2. ks \in SUBSET (1 .. MaxSeq) BY <1>1
<1>3. Answer(n, m, after) = IF ks = {} /\ after > 0 THEN <<>> ELSE <<Batch(m, ks)>> BY Zenon DEF Answer
<1> HIDE DEF ks
<1>4. Batch(m, ks) \in Payload BY <1>2, PayloadsAre, Zenon
<1>5. <<Batch(m, ks)>> \in Seq(Payload) /\ <<>> \in Seq(Payload) BY <1>4
<1>6. (Answer(n, m, after) = <<>> \/ Answer(n, m, after) = <<Batch(m, ks)>>)
      /\ (ks # {} => Answer(n, m, after) = <<Batch(m, ks)>>)
  BY <1>3, Zenon
<1> QED BY <1>2, <1>5, <1>6, Zenon DEF ks

\* What a restart does to what was in memory.
LEMMA RestartIs ==
    ASSUME Typed, Placed, NEW n \in Nodes, Restart(n)
    PROVE  /\ faults' \in 0 .. MaxFaults
           /\ unsent' \in [Nodes -> SUBSET (1 .. MaxSeq)] /\ \A m \in Nodes : unsent'[m] \subseteq unsent[m]
           /\ pos' \in [Nodes -> [Chans -> Nat]] /\ page' \in [Nodes -> [Chans -> Nat]]
           /\ \A m \in Nodes, c \in Chans :
                cursor[m][c] <= pos'[m][c] /\ pos'[m][c] <= page'[m][c] /\ page'[m][c] <= Len(log[c])
           /\ \A m \in Nodes, c \in Chans : pos'[m][c] <= pos[m][c]
           /\ UNCHANGED <<own, log, lo, cursor, key, aged>>
<1>1. /\ faults < MaxFaults /\ faults' = faults + 1 /\ unsent' = [unsent EXCEPT ![n] = {}]
      /\ pos' = [pos EXCEPT ![n] = cursor[n]] /\ page' = [page EXCEPT ![n] = cursor[n]]
      /\ UNCHANGED <<own, log, lo, cursor, key, aged>>
  BY Zenon DEF Restart
<1>2. /\ faults \in 0 .. MaxFaults /\ MaxFaults \in Nat /\ unsent \in [Nodes -> SUBSET (1 .. MaxSeq)]
      /\ pos \in [Nodes -> [Chans -> Nat]] /\ page \in [Nodes -> [Chans -> Nat]]
      /\ cursor \in [Nodes -> [Chans -> Nat]] /\ log \in [Chans -> Seq(Frames)]
  BY ConstAssumption, Zenon DEF Typed, ConstAssumption
<1>3. faults' \in 0 .. MaxFaults BY <1>1, <1>2
<1>4. unsent' \in [Nodes -> SUBSET (1 .. MaxSeq)] /\ \A m \in Nodes : unsent'[m] \subseteq unsent[m]
  BY <1>1, <1>2, Zenon
<1>5. pos' \in [Nodes -> [Chans -> Nat]] /\ page' \in [Nodes -> [Chans -> Nat]] BY <1>1, <1>2, Zenon
<1>6. ASSUME NEW m \in Nodes, NEW c \in Chans
      PROVE  /\ cursor[m][c] <= pos'[m][c] /\ pos'[m][c] <= page'[m][c] /\ page'[m][c] <= Len(log[c])
             /\ pos'[m][c] <= pos[m][c]
  <2>1. /\ cursor[m][c] <= pos[m][c] /\ pos[m][c] <= page[m][c] /\ page[m][c] <= Len(log[c])
        /\ cursor[m][c] \in Nat /\ pos[m][c] \in Nat /\ page[m][c] \in Nat /\ Len(log[c]) \in Nat
    BY <1>2 DEF Placed
  <2>2. CASE m = n
    <3>1. pos'[m][c] = cursor[m][c] /\ page'[m][c] = cursor[m][c] BY <1>1, <1>2, <2>2, Zenon
    <3> QED BY <2>1, <3>1
  <2>3. CASE m # n
    <3>1. pos'[m][c] = pos[m][c] /\ page'[m][c] = page[m][c] BY <1>1, <1>2, <2>3, Zenon
    <3> QED BY <2>1, <3>1
  <2> QED BY <2>2, <2>3, Zenon
<1> QED BY <1>1, <1>3, <1>4, <1>5, <1>6, Zenon

\* What appending a frame to a channel's log does.
LEMMA PostIs ==
    ASSUME Typed, Placed, NEW f \in Frames, log' = [log EXCEPT ![ChanOf(f)] = Append(@, f)]
    PROVE  /\ log' \in [Chans -> Seq(Frames)]
           /\ \A c \in Chans : Elements(log[c]) \subseteq Elements(log'[c])
           /\ f \in Elements(log'[ChanOf(f)])
           /\ \A c \in Chans : Elements(log'[c]) \subseteq Elements(log[c]) \cup {f}
           /\ \A c \in Chans : \A g \in Elements(log'[c]) : ChanOf(g) = c
           /\ \A c \in Chans : Len(log[c]) <= Len(log'[c]) /\ \A i \in 1 .. Len(log[c]) : log'[c][i] = log[c][i]
<1> DEFINE d == ChanOf(f)
<1>1. d \in Chans /\ log \in [Chans -> Seq(Frames)] BY Zenon DEF ChanOf, Chans, Typed
<1>2. log[d] \in Seq(Frames) BY <1>1, Zenon
<1>3. Append(log[d], f) \in Seq(Frames) /\ Elements(Append(log[d], f)) = Elements(log[d]) \cup {f}
  BY <1>2, ElementsAppend
<1>4. log' = [log EXCEPT ![d] = Append(log[d], f)] BY <1>1, Zenon
<1>5. Len(log[d]) <= Len(Append(log[d], f)) /\ \A i \in 1 .. Len(log[d]) : Append(log[d], f)[i] = log[d][i]
  BY <1>2
<1>6. d = ChanOf(f) BY Zenon
<1> HIDE DEF d
<1>7. log'[d] = Append(log[d], f) /\ \A c \in Chans \ {d} : log'[c] = log[c] BY <1>1, <1>4, Zenon
<1>8. log' \in [Chans -> Seq(Frames)] BY <1>1, <1>3, <1>4, Zenon
<1>9. \A c \in Chans : Elements(log[c]) \subseteq Elements(log'[c])
        /\ Elements(log'[c]) \subseteq Elements(log[c]) \cup {f}
  <2> SUFFICES ASSUME NEW c \in Chans
               PROVE  Elements(log[c]) \subseteq Elements(log'[c])
                        /\ Elements(log'[c]) \subseteq Elements(log[c]) \cup {f}
    BY Zenon
  <2>1. CASE c = d BY <1>3, <1>7, <2>1, Zenon
  <2>2. CASE c # d BY <1>7, <2>2, Zenon
  <2> QED BY <2>1, <2>2, Zenon
<1>10. \A c \in Chans : \A g \in Elements(log'[c]) : ChanOf(g) = c
  <2> SUFFICES ASSUME NEW c \in Chans, NEW g \in Elements(log'[c]) PROVE ChanOf(g) = c BY Zenon
  <2>1. CASE c = d
    <3>1. g \in Elements(log[d]) \/ g = f BY <1>3, <1>7, <2>1
    <3> QED BY <1>1, <1>6, <2>1, <3>1, Zenon DEF Placed
  <2>2. CASE c # d BY <1>7, <2>2, Zenon DEF Placed
  <2> QED BY <2>1, <2>2, Zenon
<1>11. ASSUME NEW c \in Chans
       PROVE  Len(log[c]) <= Len(log'[c]) /\ \A i \in 1 .. Len(log[c]) : log'[c][i] = log[c][i]
  <2>1. CASE c = d BY <1>5, <1>7, <2>1
  <2>2. CASE c # d
    <3>1. log'[c] = log[c] /\ Len(log[c]) \in Nat BY <1>1, <1>7, <2>2
    <3> QED BY <3>1
  <2> QED BY <2>1, <2>2, Zenon
<1>12. f \in Elements(log'[d]) BY <1>3, <1>7, Zenon
<1> QED BY <1>6, <1>8, <1>9, <1>10, <1>11, <1>12, Zenon

\* The 410 of pull_channel keeps it: what it leaves of the cursor and the page.
LEMMA GoneIs ==
    ASSUME Typed, Placed, NEW n \in Nodes, NEW c \in Chans, Gone(n, c)
    PROVE  /\ cursor' \in [Nodes -> [Chans -> Nat]] /\ page' \in [Nodes -> [Chans -> Nat]]
           /\ pos' \in [Nodes -> [Chans -> Nat]]
           /\ \A m \in Nodes, d \in Chans :
                /\ cursor'[m][d] <= pos'[m][d] /\ pos'[m][d] <= page'[m][d] /\ page'[m][d] <= Len(log[d])
                /\ pos'[m][d] = IF m = n /\ d = c THEN lo[c] ELSE pos[m][d]
<1>1. cursor' = [cursor EXCEPT ![n][c] = lo[c]] /\ pos' = [pos EXCEPT ![n][c] = lo[c]]
      /\ page' = [page EXCEPT ![n][c] = lo[c]]
  BY Zenon DEF Gone, Resync
<1>2. /\ cursor \in [Nodes -> [Chans -> Nat]] /\ page \in [Nodes -> [Chans -> Nat]]
      /\ pos \in [Nodes -> [Chans -> Nat]] /\ lo[c] \in Nat /\ lo[c] <= Len(log[c])
  BY Zenon DEF Typed, Placed
<1>3. ASSUME NEW g \in [Nodes -> [Chans -> Nat]]
      PROVE  /\ [g EXCEPT ![n][c] = lo[c]] \in [Nodes -> [Chans -> Nat]]
             /\ \A m \in Nodes, d \in Chans :
                    [g EXCEPT ![n][c] = lo[c]][m][d] = IF m = n /\ d = c THEN lo[c] ELSE g[m][d]
  BY <1>2, Zenon
<1>4. \A m \in Nodes, d \in Chans :
        /\ cursor'[m][d] = IF m = n /\ d = c THEN lo[c] ELSE cursor[m][d]
        /\ page'[m][d] = IF m = n /\ d = c THEN lo[c] ELSE page[m][d]
        /\ pos'[m][d] = IF m = n /\ d = c THEN lo[c] ELSE pos[m][d]
  BY <1>1, <1>2, <1>3
<1>5. ASSUME NEW m \in Nodes, NEW d \in Chans
      PROVE  cursor'[m][d] <= pos'[m][d] /\ pos'[m][d] <= page'[m][d] /\ page'[m][d] <= Len(log[d])
  <2>1. CASE m = n /\ d = c BY <1>2, <1>4, <2>1
  <2>2. CASE ~(m = n /\ d = c)
    <3>1. cursor'[m][d] = cursor[m][d] /\ page'[m][d] = page[m][d] /\ pos'[m][d] = pos[m][d]
      BY <1>4, <2>2, Zenon
    <3> QED BY <3>1, Zenon DEF Placed
  <2> QED BY <2>1, <2>2, Zenon
<1> QED BY <1>1, <1>2, <1>3, <1>4, <1>5, ZenonT(40)

\* Opening a Changes frame sends, at most, a true request.
LEMMA OpenChangesSends ==
    ASSUME IInv, NEW n \in Nodes, NEW f \in Around, f.from # n, f.body.kind = "changes", OpenChanges(n, f)
    PROVE  \E B \in Seq(Payload) :
            /\ Queues(n, B) /\ Learns(n, f.from, f.body.seqs)
            /\ B = <<>> \/ B = <<Request(f.from, ChangeLogMax(known[n][f.from]))>>
            /\ \A i \in 1 .. Len(B) : Means(n, B[i])'
            /\ f.body.seqs \subseteq 1 .. own[f.from]
<1>1. Typed /\ Written BY Zenon DEF IInv
<1>2. f \in Frames /\ f.from \in Nodes BY <1>1, AroundFrames, Zenon DEF Frames
<1>3. f.body.seqs \subseteq 1 .. own[f.from]
  <2>1. Means(f.from, f.body) BY <1>1, Zenon DEF Written
  <2> QED BY <2>1, Zenon DEF Means
<1>4. PICK after : after = ChangeLogMax(known[n][f.from]) BY Zenon
<1>5. after = 0 \/ after \in known[n][f.from] BY <1>1, <1>2, <1>4, LastHeld, Zenon
<1>6. Learns(n, f.from, f.body.seqs) BY <1>1, <1>2, OpenChangesIs, Zenon
<1>7. Queues(n, <<>>) \/ (Queues(n, <<Request(f.from, after)>>) /\ <<Request(f.from, after)>> \in Seq(Payload))
  BY <1>1, <1>2, <1>4, OpenChangesIs, Zenon
<1>8. CASE Queues(n, <<>>)
  <2>1. <<>> \in Seq(Payload) /\ Len(<<>>) = 0 OBVIOUS
  <2>2. \A i \in 1 .. Len(<<>>) : Means(n, <<>>[i])' BY <2>1
  <2> QED BY <1>3, <1>6, <1>8, <2>1, <2>2, Zenon
<1>9. CASE Queues(n, <<Request(f.from, after)>>) /\ <<Request(f.from, after)>> \in Seq(Payload)
  <2>1. PICK B : B = <<Request(f.from, after)>> BY Zenon
  <2>2. B \in Seq(Payload) /\ Len(B) = 1 /\ B[1] = Request(f.from, after) BY <1>9, <2>1, Zenon
  <2>3. B[1].kind = "request" /\ B[1].to = f.from /\ B[1].after = after BY <2>2 DEF Request
  <2>4. known'[n][f.from] = known[n][f.from] \cup f.body.seqs BY <1>6, Zenon DEF Learns
  <2>5. Means(n, B[1])' BY <1>5, <2>3, <2>4, Zenon DEF Means
  <2>6. \A i \in 1 .. Len(B) : Means(n, B[i])' BY <2>2, <2>5
  <2> QED BY <1>3, <1>4, <1>6, <1>9, <2>1, <2>2, <2>6, Zenon
<1> QED BY <1>7, <1>8, <1>9, Zenon

\* What was learnt had been committed.
LEMMA LearnsWritten ==
    ASSUME Typed, Written, NEW n \in Nodes, NEW a \in Nodes, NEW ks \in SUBSET (1 .. own[a]), Learns(n, a, ks)
    PROVE  /\ \A m, b \in Nodes : known'[m][b] \subseteq 1 .. own[b]
           /\ \A m, b \in Nodes : known[m][b] \subseteq known'[m][b]
<1> SUFFICES ASSUME NEW m \in Nodes, NEW b \in Nodes
             PROVE  known'[m][b] \subseteq 1 .. own[b] /\ known[m][b] \subseteq known'[m][b]
  BY Zenon
<1>1. known[m][b] \subseteq 1 .. own[b] BY Zenon DEF Written
<1>2. CASE m = n /\ b = a BY <1>1, <1>2, Zenon DEF Learns
<1>3. CASE ~(m = n /\ b = a) BY <1>1, <1>3, Zenon DEF Learns
<1> QED BY <1>2, <1>3, Zenon

\* What ingest does to the cursor and the page, whatever the frame.
LEMMA IngestMoves ==
    ASSUME Typed, Placed, NEW n \in Nodes, NEW c \in Chans, Ingest(n, c)
    PROVE  /\ cursor' \in [Nodes -> [Chans -> Nat]] /\ pos' \in [Nodes -> [Chans -> Nat]]
           /\ \A m \in Nodes, d \in Chans :
                /\ cursor'[m][d] <= pos'[m][d] /\ pos'[m][d] <= page[m][d]
                /\ pos'[m][d] = IF m = n /\ d = c THEN pos[n][c] + 1 ELSE pos[m][d]
           /\ pos[n][c] < page[n][c]
<1>1. /\ pos[n][c] < page[n][c] /\ pos' = [pos EXCEPT ![n][c] = pos[n][c] + 1]
      /\ cursor' = IF pos[n][c] + 1 = page[n][c] THEN [cursor EXCEPT ![n][c] = page[n][c]] ELSE cursor
  BY Zenon DEF Ingest, CursorAtPageEnd
<1>2. /\ cursor \in [Nodes -> [Chans -> Nat]] /\ page \in [Nodes -> [Chans -> Nat]]
      /\ pos \in [Nodes -> [Chans -> Nat]] /\ pos[n][c] \in Nat /\ page[n][c] \in Nat
  BY Zenon DEF Typed
<1>3. pos' \in [Nodes -> [Chans -> Nat]]
      /\ \A m \in Nodes, d \in Chans : pos'[m][d] = IF m = n /\ d = c THEN pos[n][c] + 1 ELSE pos[m][d]
  BY <1>1, <1>2
<1>4. cursor' \in [Nodes -> [Chans -> Nat]]
      /\ \A m \in Nodes, d \in Chans :
            cursor'[m][d] = cursor[m][d] \/ (m = n /\ d = c /\ cursor'[m][d] = pos[n][c] + 1)
  <2>1. CASE pos[n][c] + 1 = page[n][c]
    <3>1. cursor' = [cursor EXCEPT ![n][c] = page[n][c]] BY <1>1, <2>1, Zenon
    <3> QED BY <1>2, <2>1, <3>1, Zenon
  <2>2. CASE pos[n][c] + 1 # page[n][c] BY <1>1, <1>2, <2>2, Zenon
  <2> QED BY <2>1, <2>2, Zenon
<1>5. ASSUME NEW m \in Nodes, NEW d \in Chans PROVE cursor'[m][d] <= pos'[m][d] /\ pos'[m][d] <= page[m][d]
  <2>1. /\ cursor[m][d] <= pos[m][d] /\ pos[m][d] <= page[m][d]
        /\ cursor[m][d] \in Nat /\ pos[m][d] \in Nat /\ page[m][d] \in Nat
    BY <1>2, Zenon DEF Placed
  <2>2. CASE m = n /\ d = c
    <3>1. pos'[m][d] = pos[n][c] + 1 /\ (cursor'[m][d] = cursor[m][d] \/ cursor'[m][d] = pos[n][c] + 1)
      BY <1>3, <1>4, <2>2, Zenon
    <3> QED BY <1>1, <1>2, <2>1, <2>2, <3>1
  <2>3. CASE ~(m = n /\ d = c)
    <3>1. pos'[m][d] = pos[m][d] /\ cursor'[m][d] = cursor[m][d] BY <1>3, <1>4, <2>3, Zenon
    <3> QED BY <2>1, <3>1, Zenon
  <2> QED BY <2>2, <2>3, Zenon
<1> QED BY <1>1, <1>3, <1>4, <1>5, Zenon

\* What open_and_apply of frame f at n owes to the invariant, the bodies B being sealed.
Opens(n, f, B) ==
    /\ Queues(n, B) /\ \A i \in 1 .. Len(B) : Means(n, B[i])'
    /\ known' \in [Nodes -> [Nodes -> SUBSET (1 .. MaxSeq)]]
    /\ \A m, a \in Nodes : known'[m][a] \subseteq 1 .. own[a] /\ known[m][a] \subseteq known'[m][a]
    /\ held' \in [Nodes -> Seq(Frames)]
    /\ \A m \in Nodes : Elements(held[m]) \subseteq Elements(held'[m])
    /\ \A m \in Nodes : \A g \in Elements(held'[m]) :
            g \in Elements(held[m]) \/ (m = n /\ g = f /\ f.body.kind = "changes")
    /\ f.body.kind = "changes" =>
            f \in Elements(held'[n]) \/ (key[n] /\ f.body.seqs \subseteq known'[n][f.from])

\* A true answer: below what it carries, its reader holds a change.
LEMMA AnswerMeans ==
    ASSUME IInv, NEW n \in Nodes, NEW f \in Around, f.from # n, f.body.kind = "request", f.body.to = n,
           UNCHANGED <<own, known>>, NEW B, B = Answer(n, f.from, f.body.after)
    PROVE  \A i \in 1 .. Len(B) : Means(n, B[i])'
<1>1. Typed /\ Written BY Zenon DEF IInv
<1>2. f \in Frames /\ f.from \in Nodes /\ f.body \in Payload BY <1>1, AroundFrames, Zenon DEF Frames
<1>3. PICK after : after = f.body.after BY Zenon
<1>4. after \in Nat /\ (after = 0 \/ after \in known[f.from][n])
  <2>1. Means(f.from, f.body) BY <1>1, Zenon DEF Written
  <2>2. f.body.after \in 0 .. MaxSeq /\ MaxSeq \in Nat BY <1>2, ConstAssumption, Zenon DEF Payload, ConstAssumption
  <2> QED BY <1>3, <2>1, <2>2 DEF Means
<1>5. PICK ks : ks = {k \in 1 .. own[n] : k > after} BY Zenon
<1>6. B = Answer(n, f.from, after) BY <1>3, Zenon
<1>7. B = <<>> \/ B = <<Batch(f.from, ks)>> BY <1>1, <1>2, <1>4, <1>5, <1>6, AnswerIs, Zenon
<1>8. ASSUME NEW b, b = Batch(f.from, ks) PROVE Means(n, b)'
  <2>1. b.kind = "batch" /\ b.to = f.from /\ b.seqs = ks BY <1>8, Zenon DEF Batch
  <2>2. ks \subseteq 1 .. own[n] BY <1>5, Zenon
  <2>3. ASSUME NEW j \in ks, NEW k \in 1 .. j, k \notin ks PROVE \E i \in known[f.from][n] : i >= k
    <3>1. own[n] \in Nat /\ j \in 1 .. own[n] BY <1>1, <2>2 DEF Typed
    <3>2. k \in 1 .. own[n] BY <3>1
    <3>3. k <= after BY <1>4, <1>5, <2>3, <3>1, <3>2
    <3>4. after # 0 BY <3>2, <3>3
    <3> QED BY <1>4, <3>2, <3>3, <3>4, Zenon
  <2> QED BY <2>1, <2>2, <2>3, Zenon DEF Means
<1>9. \A i \in 1 .. Len(B) : Means(n, B[i])'
  <2>1. CASE B = <<>> BY <2>1
  <2>2. CASE B = <<Batch(f.from, ks)>>
    <3>1. Len(B) = 1 /\ B[1] = Batch(f.from, ks) BY <2>2
    <3>2. Means(n, B[1])' BY <1>8, <3>1, Zenon
    <3> QED BY <3>1, <3>2
  <2> QED BY <1>7, <2>1, <2>2, Zenon
<1> QED BY <1>9, Zenon

\* open_and_apply does what it owes.
LEMMA OpensIt ==
    ASSUME IInv, NEW n \in Nodes, NEW f \in Around, f.from # n, OpenAndApply(n, f), own' = own
    PROVE  \E B \in Seq(Payload) : Opens(n, f, B)
<1>1. Typed /\ Placed /\ Written BY Zenon DEF IInv
<1>2. f \in Frames /\ f.from \in Nodes /\ f.body \in Payload BY <1>1, AroundFrames, Zenon DEF Frames
<1>3. /\ <<>> \in Seq(Payload) /\ Len(<<>>) = 0 /\ held \in [Nodes -> Seq(Frames)]
      /\ known \in [Nodes -> [Nodes -> SUBSET (1 .. MaxSeq)]] /\ held[n] \in Seq(Frames)
      /\ \A m, a \in Nodes : known[m][a] \subseteq 1 .. own[a]
  BY <1>1 DEF Typed, Written
<1>4. CASE /\ f.body.kind = "changes" /\ ~key[n] /\ held' = [held EXCEPT ![n] = Append(@, f)]
           /\ UNCHANGED <<known, outbox, sent>>
  <2>1. Queues(n, <<>>) BY <1>1, <1>4, QueuesNothing, Zenon
  <2>2. Append(held[n], f) \in Seq(Frames) /\ Elements(Append(held[n], f)) = Elements(held[n]) \cup {f}
    BY <1>2, <1>3, ElementsAppend
  <2>3. held' \in [Nodes -> Seq(Frames)] BY <1>3, <1>4, <2>2, Zenon
  <2>4. held'[n] = Append(held[n], f) /\ \A m \in Nodes \ {n} : held'[m] = held[m] BY <1>3, <1>4, Zenon
  <2>5. Opens(n, f, <<>>) BY <1>3, <1>4, <2>1, <2>2, <2>3, <2>4 DEF Opens
  <2> QED BY <1>3, <2>5, Zenon
<1>5. CASE f.body.kind = "changes" /\ key[n] /\ OpenChanges(n, f) /\ UNCHANGED held
  <2>1. PICK B \in Seq(Payload) :
            /\ Queues(n, B) /\ Learns(n, f.from, f.body.seqs) /\ \A i \in 1 .. Len(B) : Means(n, B[i])'
            /\ f.body.seqs \subseteq 1 .. own[f.from]
    BY <1>5, OpenChangesSends, Zenon
  <2>2. \A m, a \in Nodes : known'[m][a] \subseteq 1 .. own[a] /\ known[m][a] \subseteq known'[m][a]
    BY <1>1, <1>2, <2>1, LearnsWritten, Zenon
  <2>3. f.body.seqs \subseteq known'[n][f.from] /\ known' \in [Nodes -> [Nodes -> SUBSET (1 .. MaxSeq)]]
    BY <2>1, Zenon DEF Learns
  <2>4. Opens(n, f, B) BY <1>3, <1>5, <2>1, <2>2, <2>3, Zenon DEF Opens
  <2> QED BY <2>4, Zenon
<1>6. CASE /\ f.body.kind = "request" /\ f.body.to = n /\ Push(n, Answer(n, f.from, f.body.after))
           /\ UNCHANGED <<known, held>>
  <2>1. PICK B : B = Answer(n, f.from, f.body.after) BY Zenon
  <2>2. f.body.after \in Nat BY <1>2, ConstAssumption DEF Payload, ConstAssumption
  <2>3. B \in Seq(Payload) BY <1>1, <1>2, <2>1, <2>2, AnswerIs, Zenon
  <2>4. Queues(n, B) BY <1>1, <1>6, <2>1, <2>3, PushIs, Zenon
  <2>5. \A i \in 1 .. Len(B) : Means(n, B[i])' BY <1>6, <2>1, AnswerMeans, Zenon
  <2>6. Opens(n, f, B) BY <1>3, <1>6, <2>4, <2>5, Zenon DEF Opens
  <2> QED BY <2>3, <2>6, Zenon
<1>7. CASE /\ f.body.kind = "batch" /\ f.body.to = n
           /\ known' = [known EXCEPT ![n][f.from] = @ \cup f.body.seqs]
           /\ UNCHANGED <<held, outbox, sent>>
  <2>1. Queues(n, <<>>) BY <1>1, <1>7, QueuesNothing, Zenon
  <2>2. f.body.seqs \in SUBSET (1 .. MaxSeq) BY <1>2, Zenon DEF Payload
  <2>3. Learns(n, f.from, f.body.seqs) BY <1>1, <1>2, <1>7, <2>2, LearnsIs, Zenon
  <2>4. f.body.seqs \subseteq 1 .. own[f.from]
    <3>1. Means(f.from, f.body) BY <1>1, Zenon DEF Written
    <3> QED BY <1>7, <3>1, Zenon DEF Means
  <2>5. \A m, a \in Nodes : known'[m][a] \subseteq 1 .. own[a] /\ known[m][a] \subseteq known'[m][a]
    BY <1>1, <1>2, <2>3, <2>4, LearnsWritten, Zenon
  <2>6. known' \in [Nodes -> [Nodes -> SUBSET (1 .. MaxSeq)]] BY <2>3, Zenon DEF Learns
  <2>7. Opens(n, f, <<>>) BY <1>3, <1>7, <2>1, <2>5, <2>6, SMTT(40) DEF Opens
  <2> QED BY <1>3, <2>7, Zenon
<1>8. CASE f.body.kind # "changes" /\ f.body.to # n /\ UNCHANGED <<known, held, outbox, sent>>
  <2>1. Queues(n, <<>>) BY <1>1, <1>8, QueuesNothing, Zenon
  <2>2. Opens(n, f, <<>>) BY <1>3, <1>8, <2>1 DEF Opens
  <2> QED BY <1>3, <2>2, Zenon
<1> QED BY <1>1, <1>2, <1>4, <1>5, <1>6, <1>7, <1>8, OpenAndApplyIs, Zenon

\* The invariant holds before anything happens.
LEMMA InitIInv == Init => IInv
<1> SUFFICES ASSUME Init PROVE IInv BY Zenon
<1> USE DEF Init
<1>0. 0 \in 0 .. MaxSeq /\ 0 \in 0 .. MaxFaults /\ 0 \in Nat BY ConstAssumption DEF ConstAssumption
<1>1. Typed
  <2>1. own \in [Nodes -> 0 .. MaxSeq] /\ sent \in [Nodes -> Nat] /\ lo \in [Chans -> Nat] /\ faults \in 0 .. MaxFaults
    BY <1>0, Zenon
  <2>2. known \in [Nodes -> [Nodes -> SUBSET (1 .. MaxSeq)]] /\ unsent \in [Nodes -> SUBSET (1 .. MaxSeq)]
    BY Zenon
  <2>3. <<>> \in Seq(Frames) OBVIOUS
  <2>4. /\ outbox \in [Nodes -> Seq(Frames)] /\ held \in [Nodes -> Seq(Frames)] /\ log \in [Chans -> Seq(Frames)]
    BY <2>3, Zenon
  <2>5. Zero \in [Nodes -> [Chans -> Nat]] BY <1>0, Zenon DEF Zero
  <2>6. seen \in [Nodes -> SUBSET Ids] /\ lost \in [Nodes -> SUBSET Ids] /\ aged \in [Nodes -> SUBSET Frames]
    BY Zenon
  <2>7. key \in [Nodes -> BOOLEAN] BY Zenon
  <2> QED BY <2>1, <2>2, <2>4, <2>5, <2>6, <2>7, Zenon DEF Typed
<1>2. Elements(<<>>) = {} BY DEF Elements
<1>3. (\A n \in Nodes : outbox[n] = <<>> /\ held[n] = <<>>) /\ \A c \in Chans : log[c] = <<>> BY Zenon
<1>4. Around = {}
  <2> SUFFICES ASSUME NEW f \in Around PROVE FALSE BY Zenon
  <2>1. (\E m \in Nodes : f \in Elements(outbox[m]) \/ f \in Elements(held[m]))
        \/ \E c \in Chans : f \in Elements(log[c])
    BY AroundIs, Zenon
  <2> QED BY <1>2, <1>3, <2>1, Zenon
<1>5. Placed
  <2>1. \A n \in Nodes, c \in Chans : cursor[n][c] = 0 /\ pos[n][c] = 0 /\ page[n][c] = 0 /\ Len(log[c]) = 0 /\ lo[c] = 0
    BY <1>3, Zenon DEF Zero
  <2>2. \A c \in Chans : lo[c] <= Len(log[c]) BY <1>3
  <2> QED BY <1>2, <1>3, <2>1, <2>2, Zenon DEF Placed
<1>6. Named /\ Opened BY <1>4, Zenon DEF Named, Opened
<1>7. \A n \in Nodes : aged[n] = {} BY Zenon
<1>8. Written BY <1>4, <1>7, Zenon DEF Written
<1> QED BY <1>1, <1>5, <1>6, <1>8, Zenon DEF IInv

\* Every step keeps the invariant.
LEMMA NextIInv == IInv /\ [Next]_vars => IInv'
\* Ids go on naming one frame each.
<1>NamedStays.
    ASSUME Typed, Named, NEW n \in Nodes, NEW B \in Seq(Payload), Carries(n, B)
    PROVE  Named'
  <2> USE <1>NamedStays
  <2>1. sent \in [Nodes -> Nat] /\ Len(B) \in Nat BY DEF Typed
  <2>2. \A m \in Nodes : sent[m] <= sent'[m] BY <2>1 DEF Carries, Remembers
  <2>3. sent'[n] = sent[n] + Len(B) BY Zenon DEF Carries, Remembers
  <2>4. \A f \in Around' : f \in Around \/ f \in NewFrames(n, B) BY Zenon DEF Carries, Remembers
  <2>5. \A f \in Around : f \in Frames BY AroundFrames, Zenon
  <2>6. \A f \in Around : f.id <= sent[f.from] /\ f.from \in Nodes /\ f.id \in Nat
    BY <2>5, Zenon DEF Named, Frames
  <2>7. \A f \in NewFrames(n, B) : f.from = n /\ f.id > sent[n] /\ f.id <= sent[n] + Len(B)
          /\ f.id \in Nat /\ f.body = B[f.id - sent[n]] /\ f \in Frames
    BY NewFrameIs DEF Frames
  <2>8. \A f \in Around' : f.id <= sent'[f.from]
    <3> SUFFICES ASSUME NEW f \in Around' PROVE f.id <= sent'[f.from] BY Zenon
    <3>1. CASE f \in Around
      <4>1. f.id <= sent[f.from] /\ f.from \in Nodes /\ f.id \in Nat BY <2>6, <3>1, Zenon
      <4>2. sent[f.from] <= sent'[f.from] /\ sent[f.from] \in Nat BY <2>1, <2>2, <4>1, Zenon
      <4>3. sent'[f.from] \in Nat
        <5>1. CASE f.from = n BY <2>1, <2>3, <5>1
        <5>2. CASE f.from # n BY <2>1, <4>1, <5>2, Zenon DEF Carries, Remembers
        <5> QED BY <5>1, <5>2, Zenon
      <4> QED BY <4>1, <4>2, <4>3
    <3>2. CASE f \in NewFrames(n, B)
      <4>1. f.from = n /\ f.id <= sent[n] + Len(B) BY <2>7, <3>2, Zenon
      <4> QED BY <2>3, <4>1, Zenon
    <3> QED BY <2>4, <3>1, <3>2, Zenon
  <2>9. \A f, g \in Around' : f.from = g.from /\ f.id = g.id => f = g
    <3> SUFFICES ASSUME NEW f \in Around', NEW g \in Around', f.from = g.from, f.id = g.id PROVE f = g
      BY Zenon
    <3>1. CASE f \in Around /\ g \in Around BY <3>1, Zenon DEF Named
    <3>2. CASE f \in NewFrames(n, B) /\ g \in NewFrames(n, B)
      <4>1. f \in Frames /\ g \in Frames /\ f.body = g.body BY <2>7, <3>2, Zenon
      <4> QED BY <4>1 DEF Frames
    <3>3. ASSUME NEW x \in Around, NEW y \in NewFrames(n, B), x.from = y.from, x.id = y.id PROVE FALSE
      <4>1. x.id <= sent[n] /\ x.id \in Nat BY <2>6, <2>7, <3>3, Zenon
      <4>2. y.id > sent[n] /\ sent[n] \in Nat BY <2>1, <2>7, Zenon
      <4> QED BY <3>3, <4>1, <4>2
    <3> QED BY <2>4, <3>1, <3>2, <3>3, Zenon
  <2>10. ASSUME NEW m \in Nodes, NEW s \in seen'[m] PROVE s[2] <= sent'[s[1]]
    <3>1. s \in seen[m] \/ s \in {<<f.from, f.id>> : f \in Around} BY Zenon DEF Carries, Remembers
    <3>2. CASE s \in seen[m]
      <4>1. s \in Ids /\ s[2] <= sent[s[1]] BY <3>2, Zenon DEF Typed, Named
      <4>2. s[1] \in Nodes /\ s[2] \in Nat BY <4>1, Zenon DEF Ids
      <4>3. sent[s[1]] \in Nat /\ sent[s[1]] <= sent'[s[1]] BY <2>1, <2>2, <4>2, Zenon
      <4>4. sent'[s[1]] \in Nat
        <5>1. CASE s[1] = n BY <2>1, <2>3, <5>1
        <5>2. CASE s[1] # n BY <2>1, <4>2, <5>2, Zenon DEF Carries, Remembers
        <5> QED BY <5>1, <5>2, Zenon
      <4> QED BY <4>1, <4>2, <4>3, <4>4
    <3>3. CASE s \in {<<f.from, f.id>> : f \in Around}
      <4>1. PICK f \in Around : s = <<f.from, f.id>> BY <3>3, Zenon
      <4>2. s[1] = f.from /\ s[2] = f.id BY <4>1, Zenon
      <4>3. f.id <= sent[f.from] /\ f.from \in Nodes /\ f.id \in Nat BY <2>6, Zenon
      <4>4. sent[f.from] \in Nat /\ sent[f.from] <= sent'[f.from] BY <2>1, <2>2, <4>3, Zenon
      <4>5. sent'[f.from] \in Nat
        <5>1. CASE f.from = n BY <2>1, <2>3, <5>1
        <5>2. CASE f.from # n BY <2>1, <4>3, <5>2, Zenon DEF Carries, Remembers
        <5> QED BY <5>1, <5>2, Zenon
      <4> QED BY <4>2, <4>3, <4>4, <4>5
    <3> QED BY <3>1, <3>2, <3>3, Zenon
  <2> QED BY <2>8, <2>9, <2>10, Zenon DEF Named

\* What a frame says goes on being true, given that it is true of the new ones.
<1>MeansStays.
    ASSUME Typed, NEW n \in Nodes, NEW B \in Seq(Payload), Carries(n, B), own' \in [Nodes -> 0 .. MaxSeq],
           \A f \in Around : Means(f.from, f.body),
           \A i \in 1 .. Len(B) : Means(n, B[i])'
    PROVE  (\A f \in Around : Means(f.from, f.body))'
  <2> USE <1>MeansStays
  <2>1. ASSUME NEW f \in NewFrames(n, B) PROVE Means(f.from, f.body)'
    <3>1. f.from = n /\ f.id - sent[n] \in 1 .. Len(B) /\ f.body = B[f.id - sent[n]]
      BY NewFrameIs, Zenon
    <3>2. PICK i \in 1 .. Len(B) : f.body = B[i] BY <3>1, Zenon
    <3>3. Means(n, B[i])' BY Zenon
    <3> QED BY <3>1, <3>2, <3>3, Zenon
  <2>2. ASSUME NEW f \in Around PROVE Means(f.from, f.body)'
    <3>1. PICK b : b = f.body BY Zenon
    <3>2. PICK a : a = f.from BY Zenon
    <3>3. f \in Frames /\ b \in Payload /\ a \in Nodes BY <3>1, <3>2, AroundFrames, Zenon DEF Frames
    <3>4. b.to \in Nodes /\ b.seqs \subseteq 1 .. MaxSeq BY <3>3, Zenon DEF Payload
    <3>5. Means(a, b) BY <3>1, <3>2, Zenon
    <3>6. own[a] <= own'[a] /\ own[a] \in Nat /\ own'[a] \in Nat
      BY <3>3 DEF Carries, Remembers, Typed
    <3>7. known[a][b.to] \subseteq known'[a][b.to] /\ known[b.to][a] \subseteq known'[b.to][a]
      BY <3>3, <3>4, Zenon DEF Carries, Remembers
    <3>8. \A k : k \in 1 .. own[a] => k \in 1 .. own'[a] BY <3>6
    <3>9. b.kind = "changes" => \E k \in 1 .. own'[a] : b.seqs = {k} BY <3>5, <3>8, Zenon DEF Means
    <3>10. b.kind = "request" => b.to # a /\ (b.after = 0 \/ b.after \in known'[a][b.to])
      BY <3>5, <3>7, Zenon DEF Means
    <3>11. b.kind = "batch" =>
              /\ b.to # a /\ b.seqs \subseteq 1 .. own'[a]
              /\ \A j \in b.seqs : \A k \in 1 .. j :
                      k \in b.seqs \/ \E i \in known'[b.to][a] : i >= k
      BY <3>5, <3>7, <3>8, Zenon DEF Means
    <3>12. Means(a, b)' BY <3>9, <3>10, <3>11, Zenon DEF Means
    <3> QED BY <3>1, <3>2, <3>12, Zenon
  <2>3. \A f \in Around' : f \in Around \/ f \in NewFrames(n, B) BY Zenon DEF Carries, Remembers
  <2> QED BY <2>1, <2>2, <2>3, Zenon

\* What a node has seen stays opened or parked, given that it is so for what it sees
\* now and for what it parked.
<1>OpenedStays.
    ASSUME Typed, Named, Opened, NEW n \in Nodes, NEW B \in Seq(Payload), Carries(n, B),
           \A m \in Nodes : \A f \in Elements(held[m]) :
                \/ f \in Elements(held'[m]) \/ f \in aged'[m]
                \/ key'[m] /\ f.body.seqs \subseteq known'[m][f.from],
           \A m \in Nodes : \A f \in Around :
                f.body.kind = "changes" /\ f.from # m /\ <<f.from, f.id>> \notin seen[m]
                    /\ <<f.from, f.id>> \in seen'[m] \ lost'[m] =>
                f \in Elements(held'[m]) \/ (key'[m] /\ f.body.seqs \subseteq known'[m][f.from])
    PROVE  Opened'
  <2> USE <1>OpenedStays
  <2> SUFFICES ASSUME NEW m \in Nodes, NEW f \in Around', f.body.kind = "changes", f.from # m,
                      <<f.from, f.id>> \in seen'[m] \ lost'[m]
               PROVE  \/ key'[m] /\ f.body.seqs \subseteq known'[m][f.from]
                      \/ f \in Elements(held'[m]) \/ f \in aged'[m]
    BY Zenon DEF Opened, Elements
  <2>1. CASE f \in Around /\ <<f.from, f.id>> \in seen[m]
    <3>1. <<f.from, f.id>> \notin lost[m] BY Zenon DEF Carries, Remembers
    <3>2. (key[m] /\ f.body.seqs \subseteq known[m][f.from]) \/ f \in Elements(held[m]) \/ f \in aged[m]
      BY <2>1, <3>1, Zenon DEF Opened
    <3>3. f.from \in Nodes BY <2>1, AroundFrames, Zenon DEF Frames
    <3>4. (key[m] => key'[m]) /\ known[m][f.from] \subseteq known'[m][f.from] /\ aged[m] \subseteq aged'[m]
      BY <3>3, Zenon DEF Carries, Remembers
    <3>5. f \in Elements(held[m]) =>
              \/ f \in Elements(held'[m]) \/ f \in aged'[m]
              \/ key'[m] /\ f.body.seqs \subseteq known'[m][f.from]
      BY Zenon
    <3> QED BY <3>2, <3>4, <3>5, Zenon
  <2>2. CASE f \in Around /\ <<f.from, f.id>> \notin seen[m]
    BY <2>2, Zenon
  <2>3. CASE f \in NewFrames(n, B)
    BY <2>3, NewUnseen, Zenon DEF Carries
  <2>4. f \in Around \/ f \in NewFrames(n, B) BY Zenon DEF Carries, Remembers
  <2> QED BY <2>1, <2>2, <2>3, <2>4, Zenon

\* What is around is bounded by what the three kinds of place hold.
<1>AroundGrows.
    ASSUME NEW n \in Nodes, NEW B,
           \A m \in Nodes : Elements(outbox'[m]) \subseteq Around \cup NewFrames(n, B),
           \A m \in Nodes : Elements(held'[m]) \subseteq Around,
           \A c \in Chans : Elements(log'[c]) \subseteq Around
    PROVE  Around' \subseteq Around \cup NewFrames(n, B)
BY <1>AroundGrows, AroundIs, Zenon

\* A step that owes nothing keeps the invariant.
<1>KeepsIInv.
    ASSUME IInv, NEW n \in Nodes, NEW B \in Seq(Payload), Typed', Placed', Keeps(n, B)
    PROVE  IInv'
  <2> USE <1>KeepsIInv
  <2>1. Typed /\ Placed /\ Named /\ Written /\ Opened BY Zenon DEF IInv
  <2>2. Carries(n, B) BY Zenon DEF Keeps
  <2>3. Named' BY <2>1, <2>2, <1>NamedStays, Zenon
  <2>4. own' \in [Nodes -> 0 .. MaxSeq] BY Zenon DEF Typed
  <2>5. (\A f \in Around : Means(f.from, f.body))'
    <3>1. \A f \in Around : Means(f.from, f.body) BY <2>1, Zenon DEF Written
    <3>2. \A i \in 1 .. Len(B) : Means(n, B[i])' BY Zenon DEF Keeps
    <3> QED BY <2>1, <2>2, <2>4, <3>1, <3>2, <1>MeansStays, Zenon
  <2>6. Written'
    <3>0. \A a \in Nodes : own[a] \in Nat /\ own'[a] \in Nat /\ own[a] <= own'[a]
      <4>1. own \in [Nodes -> 0 .. MaxSeq] /\ MaxSeq \in Nat BY <2>1, ConstAssumption, Zenon DEF Typed, ConstAssumption
      <4>2. \A a \in Nodes : own[a] <= own'[a] BY <2>2, Zenon DEF Carries, Remembers
      <4>3. \A a \in Nodes : own[a] \in 0 .. MaxSeq /\ own'[a] \in 0 .. MaxSeq BY <2>4, <4>1, Zenon
      <4> QED BY <4>1, <4>2, <4>3
    <3>1. ASSUME NEW m \in Nodes, NEW f \in aged'[m] PROVE f.from # m /\ f.body.seqs \subseteq 1 .. own'[f.from]
      <4>1. f \in aged[m] \/ f \in Elements(held[m]) BY Zenon DEF Keeps
      <4>2. CASE f \in aged[m]
        <5>1. f \in Frames BY <2>1, <4>2, Zenon DEF Typed
        <5>2. f.from \in Nodes BY <5>1, Zenon DEF Frames
        <5>3. f.from # m /\ f.body.seqs \subseteq 1 .. own[f.from] BY <2>1, <4>2, Zenon DEF Written
        <5>4. own[f.from] \in Nat /\ own'[f.from] \in Nat /\ own[f.from] <= own'[f.from]
          BY <3>0, <5>2, Zenon
        <5>5. \A k : k \in 1 .. own[f.from] => k \in 1 .. own'[f.from] BY <5>4
        <5> QED BY <5>3, <5>5, Zenon
      <4>3. CASE f \in Elements(held[m])
        <5>1. f \in Around /\ f.from # m /\ f.body.kind = "changes" BY <2>1, <4>3, PlacesAround, Zenon DEF Placed
        <5>2. f.from \in Nodes BY <2>1, <5>1, AroundFrames, Zenon DEF Frames
        <5>3. PICK k \in 1 .. own[f.from] : f.body.seqs = {k} BY <2>1, <5>1, Zenon DEF Written, Means
        <5>4. own[f.from] \in Nat /\ own'[f.from] \in Nat /\ own[f.from] <= own'[f.from]
          BY <3>0, <5>2, Zenon
        <5>5. k \in 1 .. own'[f.from] BY <5>4
        <5> QED BY <5>1, <5>3, <5>5, Zenon
      <4> QED BY <4>1, <4>2, <4>3, Zenon
    <3> QED BY <2>5, <3>1, Zenon DEF Keeps, Written
  <2>7. Opened' BY <2>1, <2>2, <1>OpenedStays, Zenon DEF Keeps
  <2> QED BY <2>3, <2>6, <2>7, Zenon DEF IInv

\* A step that moves no frame and tells nobody anything.
<1>QuietIInv.
    ASSUME IInv, NEW n \in Nodes, Typed', Placed',
           UNCHANGED <<known, outbox, sent, log, seen, key, held, lost, aged>>,
           \A m \in Nodes : own[m] <= own'[m] /\ unsent'[m] \subseteq 1 .. own'[m]
    PROVE  IInv'
  <2> USE <1>QuietIInv
  <2>1. Typed /\ Written BY Zenon DEF IInv
  <2>2. Around' = Around BY Zenon DEF Around
  <2>3. Len(<<>>) = 0 /\ <<>> \in Seq(Payload) /\ sent'[n] = sent[n] + 0 BY <2>1 DEF Typed
  <2>4. Carries(n, <<>>) BY <2>2, <2>3, Zenon DEF Carries, Remembers
  <2>5. \A m, a \in Nodes : known'[m][a] \subseteq 1 .. own'[a]
    <3> SUFFICES ASSUME NEW m \in Nodes, NEW a \in Nodes, NEW k \in known[m][a] PROVE k \in 1 .. own'[a]
      BY Zenon
    <3>1. k \in 1 .. own[a] BY <2>1, Zenon DEF Written
    <3>2. own[a] \in Nat /\ own'[a] \in Nat /\ own[a] <= own'[a] BY <2>1 DEF Typed
    <3> QED BY <3>1, <3>2
  <2>6. Keeps(n, <<>>) BY <2>3, <2>4, <2>5 DEF Keeps
  <2> QED BY <2>3, <2>6, <1>KeepsIInv, Zenon

\* corpus::write keeps the invariant.
<1>CommitIInv.      ASSUME IInv, NEW n \in Nodes, Commit(n) PROVE IInv'
  <2> USE <1>CommitIInv
  <2>1. Typed /\ Placed /\ Written BY Zenon DEF IInv
  <2>2. own' = [own EXCEPT ![n] = own[n] + 1] /\ unsent' = [unsent EXCEPT ![n] = unsent[n] \cup {own[n] + 1}]
        /\ own[n] < MaxSeq
        /\ UNCHANGED <<known, outbox, sent, log, lo, cursor, page, pos, seen, key, held, lost, aged, faults>>
    BY Zenon DEF Commit
  <2>3. own \in [Nodes -> 0 .. MaxSeq] /\ unsent \in [Nodes -> SUBSET (1 .. MaxSeq)] BY <2>1, Zenon DEF Typed
  <2>4. MaxSeq \in Nat BY ConstAssumption, Zenon DEF ConstAssumption
  <2>5. own[n] + 1 \in 1 .. MaxSeq BY <2>2, <2>3, <2>4
  <2>6. own' \in [Nodes -> 0 .. MaxSeq] /\ unsent' \in [Nodes -> SUBSET (1 .. MaxSeq)] BY <2>2, <2>3, <2>5
  <2>7. Typed' BY <2>1, <2>2, <2>6, Zenon DEF Typed
  <2>8. Placed' BY <2>1, <2>2, Zenon DEF Placed
  <2>9. ASSUME NEW m \in Nodes PROVE own[m] <= own'[m] /\ unsent'[m] \subseteq 1 .. own'[m]
    <3>1. unsent[m] \subseteq 1 .. own[m] /\ own[m] \in Nat BY <2>1, <2>3 DEF Written
    <3>2. CASE m = n
      <4>1. own'[m] = own[m] + 1 /\ unsent'[m] = unsent[m] \cup {own[m] + 1} BY <2>2, <2>3, <3>2, Zenon
      <4> QED BY <3>1, <4>1
    <3>3. CASE m # n
      <4>1. own'[m] = own[m] /\ unsent'[m] = unsent[m] BY <2>2, <2>3, <3>3, Zenon
      <4> QED BY <3>1, <4>1
    <3> QED BY <3>2, <3>3, Zenon
  <2> QED BY <2>2, <2>7, <2>8, <2>9, <1>QuietIInv, Zenon

\* A frame dropped by the tap keeps it.
<1>TapDropIInv.      ASSUME IInv, NEW n \in Nodes, NEW k, TapDrop(n, k) PROVE IInv'
  <2> USE <1>TapDropIInv
  <2>1. Typed /\ Placed /\ Written BY Zenon DEF IInv
  <2>2. unsent' = [unsent EXCEPT ![n] = unsent[n] \ {k}]
        /\ UNCHANGED <<own, known, outbox, sent, log, lo, cursor, page, pos, seen, key, held, lost, aged, faults>>
    BY Zenon DEF TapDrop
  <2>3. own \in [Nodes -> 0 .. MaxSeq] /\ unsent \in [Nodes -> SUBSET (1 .. MaxSeq)] BY <2>1, Zenon DEF Typed
  <2>4. unsent' \in [Nodes -> SUBSET (1 .. MaxSeq)] BY <2>2, <2>3, Zenon
  <2>5. Typed' BY <2>1, <2>2, <2>4, Zenon DEF Typed
  <2>6. Placed' BY <2>1, <2>2, Zenon DEF Placed
  <2>7. \A m \in Nodes : own[m] <= own'[m] /\ unsent'[m] \subseteq 1 .. own'[m]
    BY <2>1, <2>2, <2>3 DEF Written
  <2> QED BY <2>2, <2>5, <2>6, <2>7, <1>QuietIInv, Zenon

\* FrameStore::prune keeps it.
<1>PruneIInv.      ASSUME IInv, NEW n \in Nodes, NEW c \in Chans, Prune(c) PROVE IInv'
  <2> USE <1>PruneIInv
  <2>1. Typed /\ Placed /\ Written BY Zenon DEF IInv
  <2>2. lo' = [lo EXCEPT ![c] = lo[c] + 1] /\ lo[c] < Len(log[c]) /\ faults' = faults + 1 /\ faults < MaxFaults
        /\ UNCHANGED <<own, known, unsent, outbox, sent, log, cursor, page, pos, seen, key, held, lost, aged>>
    BY Zenon DEF Prune
  <2>3. lo \in [Chans -> Nat] /\ faults \in 0 .. MaxFaults /\ MaxFaults \in Nat /\ log \in [Chans -> Seq(Frames)]
    BY <2>1, ConstAssumption, Zenon DEF Typed, ConstAssumption
  <2>4. lo' \in [Chans -> Nat] /\ faults' \in 0 .. MaxFaults BY <2>2, <2>3
  <2>5. Typed' BY <2>1, <2>2, <2>4, Zenon DEF Typed
  <2>6. \A d \in Chans : lo'[d] <= Len(log'[d])
    <3> SUFFICES ASSUME NEW d \in Chans PROVE lo'[d] <= Len(log[d]) BY <2>2, Zenon
    <3>1. lo[d] <= Len(log[d]) /\ lo[d] \in Nat /\ Len(log[d]) \in Nat BY <2>1, <2>3 DEF Placed
    <3>2. lo'[d] = IF d = c THEN lo[d] + 1 ELSE lo[d] BY <2>2, <2>3, Zenon
    <3> QED BY <2>2, <3>1, <3>2
  <2>7. Placed' BY <2>1, <2>2, <2>6, Zenon DEF Placed
  <2>8. \A m \in Nodes : own[m] <= own'[m] /\ unsent'[m] \subseteq 1 .. own'[m]
    <3>1. \A m \in Nodes : own[m] \in Nat BY <2>1 DEF Typed
    <3> QED BY <2>1, <2>2, <3>1 DEF Written
  <2> QED BY <2>2, <2>5, <2>7, <2>8, <1>QuietIInv, Zenon

\* pull_channel's GET keeps it.
<1>FetchIInv.      ASSUME IInv, NEW n \in Nodes, NEW c \in Chans, Fetch(n, c) PROVE IInv'
  <2> USE <1>FetchIInv
  <2>1. Typed /\ Placed /\ Written BY Zenon DEF IInv
  <2> DEFINE to == IF page[n][c] + PageLimit < Len(log[c]) THEN page[n][c] + PageLimit ELSE Len(log[c])
  <2>2. page' = [page EXCEPT ![n][c] = to]
        /\ UNCHANGED <<own, known, unsent, outbox, sent, log, lo, cursor, pos, seen, key, held, lost, aged, faults>>
    BY Zenon DEF Fetch
  <2>3. page \in [Nodes -> [Chans -> Nat]] /\ log \in [Chans -> Seq(Frames)] /\ PageLimit \in Nat
        /\ pos[n][c] \in Nat /\ page[n][c] \in Nat /\ Len(log[c]) \in Nat
        /\ pos[n][c] <= page[n][c] /\ page[n][c] <= Len(log[c])
    BY <2>1, ConstAssumption, SMTT(40) DEF Typed, Placed, ConstAssumption
  <2>4. to \in Nat /\ page[n][c] <= to /\ to <= Len(log[c]) BY <2>3
  <2> HIDE DEF to
  <2>5. page' \in [Nodes -> [Chans -> Nat]]
        /\ \A m \in Nodes, d \in Chans : page'[m][d] = IF m = n /\ d = c THEN to ELSE page[m][d]
    BY <2>2, <2>3, <2>4, Zenon
  <2>6. Typed' BY <2>1, <2>2, <2>5, Zenon DEF Typed
  <2>7. ASSUME NEW m \in Nodes, NEW d \in Chans
        PROVE  cursor[m][d] <= pos[m][d] /\ pos[m][d] <= page'[m][d] /\ page'[m][d] <= Len(log[d])
    <3>1. cursor[m][d] <= pos[m][d] /\ pos[m][d] <= page[m][d] /\ page[m][d] <= Len(log[d])
      BY <2>1, Zenon DEF Placed
    <3>2. CASE m = n /\ d = c BY <2>3, <2>4, <2>5, <3>1, <3>2
    <3>3. CASE ~(m = n /\ d = c) BY <2>5, <3>1, <3>3, Zenon
    <3> QED BY <3>2, <3>3, Zenon
  <2>8. Placed' BY <2>1, <2>2, <2>7, Zenon DEF Placed
  <2>9. \A m \in Nodes : own[m] <= own'[m] /\ unsent'[m] \subseteq 1 .. own'[m]
    <3>1. \A m \in Nodes : own[m] \in Nat BY <2>1 DEF Typed
    <3> QED BY <2>1, <2>2, <3>1 DEF Written
  <2> QED BY <2>2, <2>6, <2>8, <2>9, <1>QuietIInv, Zenon

\* A crash keeps it.
<1>CrashIInv.      ASSUME IInv, NEW n \in Nodes, Crash(n) PROVE IInv'
  <2> USE <1>CrashIInv
  <2>1. Typed /\ Placed /\ Written BY Zenon DEF IInv
  <2>2. Restart(n) /\ UNCHANGED <<known, outbox, sent, seen, lost, aged>> /\ UNCHANGED held
    BY Zenon DEF Crash, Restart
  <2>3. Typed' BY <2>1, <2>2, RestartIs, Zenon DEF Typed
  <2>4. UNCHANGED <<own, log, lo, cursor, key, aged>> BY <2>1, <2>2, RestartIs, Zenon
  <2>5. \A m \in Nodes, c \in Chans :
          cursor[m][c] <= pos'[m][c] /\ pos'[m][c] <= page'[m][c] /\ page'[m][c] <= Len(log[c])
    BY <2>1, <2>2, RestartIs, Zenon
  <2>6. Placed' BY <2>1, <2>2, <2>4, <2>5, Zenon DEF Placed
  <2>7. ASSUME NEW m \in Nodes PROVE own[m] <= own'[m] /\ unsent'[m] \subseteq 1 .. own'[m]
    <3>1. unsent'[m] \subseteq unsent[m] BY <2>1, <2>2, RestartIs, Zenon
    <3>2. own[m] \in Nat /\ unsent[m] \subseteq 1 .. own[m] BY <2>1 DEF Typed, Written
    <3> QED BY <2>4, <3>1, <3>2
  <2> QED BY <2>2, <2>3, <2>4, <2>6, <2>7, <1>QuietIInv, Zenon

\* A step that queues the bodies B and moves no frame other than into or out of the
\* parked ones.
<1>QueuesCarries.
    ASSUME Typed, NEW n \in Nodes, NEW B \in Seq(Payload), Queues(n, B), Remembers, log' = log,
           \A m \in Nodes : Elements(held'[m]) \subseteq Around
    PROVE  Carries(n, B)
  <2> USE <1>QueuesCarries
  <2>1. \A m \in Nodes : Elements(outbox'[m]) \subseteq Around \cup NewFrames(n, B)
    BY PlacesAround, Zenon DEF Queues
  <2>2. \A c \in Chans : Elements(log'[c]) \subseteq Around BY PlacesAround, Zenon
  <2>3. Around' \subseteq Around \cup NewFrames(n, B) BY <2>1, <2>2, <1>AroundGrows, Zenon
  <2> QED BY <2>3, Zenon DEF Queues, Carries

\* The new frames are queued under their sender's name.
<1>QueuesPlaced.
    ASSUME Typed, Placed, NEW n \in Nodes, NEW B \in Seq(Payload), Queues(n, B)
    PROVE  \A m \in Nodes : \A f \in Elements(outbox'[m]) : f.from = m
  <2> USE <1>QueuesPlaced
  <2> SUFFICES ASSUME NEW m \in Nodes, NEW f \in Elements(outbox'[m]) PROVE f.from = m BY Zenon
  <2>1. CASE m # n BY <2>1, Zenon DEF Queues, Placed
  <2>2. CASE m = n
    <3>1. f \in Elements(outbox[n]) \/ f \in NewFrames(n, B) BY <2>2, Zenon DEF Queues
    <3>2. CASE f \in Elements(outbox[n]) BY <2>2, <3>2, Zenon DEF Placed
    <3>3. CASE f \in NewFrames(n, B) BY <2>2, <3>3, NewFrameIs, Zenon
    <3> QED BY <3>1, <3>2, <3>3, Zenon
  <2> QED BY <2>1, <2>2, Zenon

\* on_frame keeps the invariant.
<1>OnFrameIInv.      ASSUME IInv, NEW n \in Nodes, NEW k, OnFrame(n, k) PROVE IInv'
  <2> USE <1>OnFrameIInv
  <2>1. Typed /\ Placed /\ Written BY Zenon DEF IInv
  <2>2. /\ k \in unsent[n] /\ unsent' = [unsent EXCEPT ![n] = unsent[n] \ {k}] /\ Push(n, <<Changes(n, k)>>)
        /\ UNCHANGED <<own, known, log, lo, cursor, page, pos, seen, key, held, lost, aged, faults>>
    BY Zenon DEF OnFrame
  <2>3. own \in [Nodes -> 0 .. MaxSeq] /\ unsent \in [Nodes -> SUBSET (1 .. MaxSeq)] BY <2>1, Zenon DEF Typed
  <2>4. unsent' \in [Nodes -> SUBSET (1 .. MaxSeq)] BY <2>2, <2>3, Zenon
  <2>5. k \in 1 .. MaxSeq /\ k \in 1 .. own[n] BY <2>1, <2>2, <2>3, Zenon DEF Written
  <2>6. Changes(n, k) \in Payload BY <2>1, <2>5, PayloadsAre, Zenon
  <2>7. PICK B : B = <<Changes(n, k)>> BY Zenon
  <2>8. B \in Seq(Payload) /\ Len(B) = 1 /\ B[1] = Changes(n, k) BY <2>6, <2>7
  <2>9. Queues(n, B) BY <2>1, <2>2, <2>7, <2>8, PushIs, Zenon
  <2>10. outbox' \in [Nodes -> Seq(Frames)] /\ sent' \in [Nodes -> Nat] BY <2>9, Zenon DEF Queues
  <2>11. Typed' BY <2>1, <2>2, <2>4, <2>10, Zenon DEF Typed
  <2>12. Placed' BY <2>1, <2>2, <2>8, <2>9, <1>QueuesPlaced, Zenon DEF Placed
  <2>13. \A m \in Nodes : own[m] \in Nat BY <2>1 DEF Typed
  <2>14. Remembers BY <2>2, <2>13 DEF Remembers
  <2>15. Carries(n, B) BY <2>1, <2>2, <2>8, <2>9, <2>14, PlacesAround, <1>QueuesCarries, Zenon
  <2>16. Means(n, B[1])'
    <3>1. B[1].kind = "changes" /\ B[1].seqs = {k} BY <2>8 DEF Changes
    <3> QED BY <2>2, <2>5, <3>1, Zenon DEF Means
  <2>17. \A i \in 1 .. Len(B) : Means(n, B[i])' BY <2>8, <2>16
  <2>18. (\A m \in Nodes : unsent'[m] \subseteq 1 .. own'[m])
         /\ \A m, a \in Nodes : known'[m][a] \subseteq 1 .. own'[a]
    BY <2>1, <2>2, <2>3, Zenon DEF Written
  <2>19. Keeps(n, B) BY <2>2, <2>15, <2>17, <2>18, Zenon DEF Keeps
  <2> QED BY <2>8, <2>11, <2>12, <2>19, <1>KeepsIInv, Zenon

\* A step of drain_once: the oldest frame of an outbox goes to the hub, or leaves the
\* outbox, or both.
<1>DrainIInv.
    ASSUME IInv, NEW n \in Nodes, outbox[n] # <<>>, faults' \in 0 .. MaxFaults,
           \/ log' = [log EXCEPT ![ChanOf(Head(outbox[n]))] = Append(@, Head(outbox[n]))]
           \/ log' = log,
           \/ outbox' = [outbox EXCEPT ![n] = Tail(@)]
           \/ outbox' = outbox,
           UNCHANGED <<own, known, unsent, sent, lo, cursor, page, pos, seen, key, held, lost, aged>>
    PROVE  IInv'
  <2> USE <1>DrainIInv
  <2>1. Typed /\ Placed /\ Written BY Zenon DEF IInv
  <2>2. outbox[n] \in Seq(Frames) /\ outbox \in [Nodes -> Seq(Frames)] BY <2>1, Zenon DEF Typed
  <2>3. PICK f : f = Head(outbox[n]) BY Zenon
  <2>4. /\ Tail(outbox[n]) \in Seq(Frames) /\ f \in Frames
        /\ Elements(outbox[n]) = Elements(Tail(outbox[n])) \cup {f}
    BY <2>2, <2>3, ElementsTail, Zenon
  <2>5. f \in Around BY <2>4, PlacesAround, Zenon
  <2>6. outbox' \in [Nodes -> Seq(Frames)] /\ \A m \in Nodes : Elements(outbox'[m]) \subseteq Elements(outbox[m])
    <3>1. CASE outbox' = outbox BY <2>2, <3>1, Zenon
    <3>2. CASE outbox' = [outbox EXCEPT ![n] = Tail(outbox[n])]
      <4>1. outbox'[n] = Tail(outbox[n]) /\ \A m \in Nodes \ {n} : outbox'[m] = outbox[m] BY <2>2, <3>2, Zenon
      <4>2. outbox' \in [Nodes -> Seq(Frames)] BY <2>2, <2>4, <3>2, Zenon
      <4> QED BY <2>4, <4>1, <4>2, Zenon
    <3> QED BY <2>2, <3>1, <3>2, Zenon
  <2>7. /\ log' \in [Chans -> Seq(Frames)]
        /\ \A c \in Chans : Elements(log'[c]) \subseteq Elements(log[c]) \cup {f}
        /\ \A c \in Chans : \A g \in Elements(log'[c]) : ChanOf(g) = c
        /\ \A c \in Chans : Len(log[c]) <= Len(log'[c])
    <3>1. CASE log' = log
      <4>1. log \in [Chans -> Seq(Frames)] /\ \A c \in Chans : Len(log[c]) \in Nat BY <2>1, SMTT(40) DEF Typed
      <4> QED BY <2>1, <3>1, <4>1, SMTT(40) DEF Placed
    <3>2. CASE log' = [log EXCEPT ![ChanOf(f)] = Append(@, f)] BY <2>1, <2>4, <3>2, PostIs, Zenon
    <3> QED BY <2>3, <3>1, <3>2, Zenon
  <2>8. Typed' BY <2>1, <2>6, <2>7, ZenonT(40) DEF Typed
  <2>9. ASSUME NEW c \in Chans
        PROVE  lo[c] <= Len(log'[c]) /\ \A m \in Nodes : page[m][c] <= Len(log'[c])
    <3>1. Len(log[c]) \in Nat /\ Len(log'[c]) \in Nat /\ lo[c] \in Nat /\ \A m \in Nodes : page[m][c] \in Nat
      BY <2>1, <2>7, SMTT(40) DEF Typed
    <3>2. lo[c] <= Len(log[c]) /\ \A m \in Nodes : page[m][c] <= Len(log[c]) BY <2>1, Zenon DEF Placed
    <3> QED BY <2>7, <3>1, <3>2, SMTT(40)
  <2>10. Placed' BY <2>1, <2>6, <2>7, <2>9, ZenonT(40) DEF Placed
  <2>11. <<>> \in Seq(Payload) /\ Len(<<>>) = 0 /\ sent[n] \in Nat BY <2>1 DEF Typed
  <2>12. Around' \subseteq Around \cup NewFrames(n, <<>>)
    <3>1. \A m \in Nodes : Elements(outbox'[m]) \subseteq Around \cup NewFrames(n, <<>>) BY <2>6, PlacesAround, Zenon
    <3>2. \A c \in Chans : Elements(log'[c]) \subseteq Around BY <2>5, <2>7, PlacesAround, Zenon
    <3>3. \A m \in Nodes : Elements(held'[m]) \subseteq Around BY PlacesAround, Zenon
    <3> QED BY <3>1, <3>2, <3>3, <1>AroundGrows, Zenon
  <2>13. \A m \in Nodes : own[m] \in Nat BY <2>1, SMTT(40) DEF Typed
  <2>14. Remembers
    <3>1. \A m \in Nodes : own[m] <= own'[m] BY <2>13
    <3> QED BY <3>1, Zenon DEF Remembers
  <2>15. Carries(n, <<>>)
    <3>1. sent[n] + Len(<<>>) = sent[n] BY <2>11
    <3> QED BY <2>12, <2>14, <3>1, Zenon DEF Carries
  <2>16. Keeps(n, <<>>)
    <3>1. 1 .. Len(<<>>) = {} BY <2>11
    <3> QED BY <2>1, <2>15, <3>1, Zenon DEF Keeps, Written
  <2> QED BY <2>8, <2>10, <2>11, <2>16, <1>KeepsIInv, Zenon

\* Asking every site keeps the invariant.
<1>AskIInv.
    ASSUME IInv, NEW n \in Nodes, AskAll(n), UNCHANGED <<own, known, unsent, log, lo, seen, held, lost, aged, faults>>,
           key' \in [Nodes -> BOOLEAN], \A m \in Nodes : key[m] => key'[m],
           cursor' \in [Nodes -> [Chans -> Nat]], page' \in [Nodes -> [Chans -> Nat]], pos' \in [Nodes -> [Chans -> Nat]],
           \A m \in Nodes, c \in Chans :
                cursor'[m][c] <= pos'[m][c] /\ pos'[m][c] <= page'[m][c] /\ page'[m][c] <= Len(log[c])
    PROVE  IInv'
  <2> USE <1>AskIInv
  <2>1. Typed /\ Placed /\ Written BY Zenon DEF IInv
  <2>2. PICK B \in Seq(Payload) :
          /\ Queues(n, B)
          /\ \A i \in 1 .. Len(B) : \E a \in Nodes \ {n} : B[i] = Request(a, ChangeLogMax(known[n][a]))
    BY <2>1, AskAllIs, Zenon
  <2>3. outbox' \in [Nodes -> Seq(Frames)] /\ sent' \in [Nodes -> Nat] BY <2>2, Zenon DEF Queues
  <2>4. Typed' BY <2>1, <2>3, Zenon DEF Typed
  <2>5. Placed' BY <2>1, <2>2, <1>QueuesPlaced, ZenonT(40) DEF Placed
  <2>6. \A m \in Nodes : own[m] \in Nat BY <2>1, SMTT(40) DEF Typed
  <2>7. Remembers BY <2>6 DEF Remembers
  <2>8. Carries(n, B) BY <2>1, <2>2, <2>7, PlacesAround, <1>QueuesCarries, Zenon
  <2>9. ASSUME NEW i \in 1 .. Len(B) PROVE Means(n, B[i])'
    <3>1. PICK a \in Nodes \ {n} : B[i] = Request(a, ChangeLogMax(known[n][a])) BY <2>2, ZenonT(40)
    <3>2. B[i].kind = "request" /\ B[i].to = a /\ B[i].after = ChangeLogMax(known[n][a])
      BY <3>1, SMTT(40) DEF Request
    <3>3. B[i].after = 0 \/ B[i].after \in known[n][a] BY <2>1, <3>2, LastHeld
    <3> QED BY <3>2, <3>3, Zenon DEF Means
  <2>10. Keeps(n, B) BY <2>1, <2>8, <2>9, Zenon DEF Keeps, Written
  <2> QED BY <2>4, <2>5, <2>10, <1>KeepsIInv, Zenon

\* The 410 of pull_channel keeps it.
<1>GoneIInv.      ASSUME IInv, NEW n \in Nodes, NEW c \in Chans, Gone(n, c) PROVE IInv'
  <2> USE <1>GoneIInv
  <2>1. Typed /\ Placed /\ Written BY Zenon DEF IInv
  <2>2. UNCHANGED <<own, known, unsent, log, lo, seen, key, held, lost, aged, faults>> /\ Resync(n, c) BY Zenon DEF Gone
  <2>3. /\ cursor' \in [Nodes -> [Chans -> Nat]] /\ page' \in [Nodes -> [Chans -> Nat]]
        /\ pos' \in [Nodes -> [Chans -> Nat]]
        /\ \A m \in Nodes, d \in Chans :
              cursor'[m][d] <= pos'[m][d] /\ pos'[m][d] <= page'[m][d] /\ page'[m][d] <= Len(log[d])
    BY <2>1, GoneIs, Zenon
  <2>4. key \in [Nodes -> BOOLEAN] BY <2>1, Zenon DEF Typed
  <2>5. CASE AskAll(n) BY <2>2, <2>3, <2>4, <2>5, <1>AskIInv, Zenon
  <2>6. CASE UNCHANGED <<outbox, sent>>
    <3>1. Typed' BY <2>1, <2>2, <2>3, <2>6, Zenon DEF Typed
    <3>2. Placed' BY <2>1, <2>2, <2>3, <2>6, ZenonT(40) DEF Placed
    <3>3. \A m \in Nodes : own[m] \in Nat BY <2>1 DEF Typed
    <3>4. \A m \in Nodes : own[m] <= own'[m] /\ unsent'[m] \subseteq 1 .. own'[m] BY <2>1, <2>2, <3>3, SMTT(40) DEF Written
    <3> QED BY <2>2, <2>6, <3>1, <3>2, <3>4, <1>QuietIInv, Zenon
  <2> QED BY <2>2, <2>5, <2>6, Zenon DEF Resync

\* Taking the key keeps it.
<1>TakeKeyIInv.      ASSUME IInv, NEW n \in Nodes, TakeKey(n) PROVE IInv'
  <2> USE <1>TakeKeyIInv
  <2>1. Typed /\ Placed BY Zenon DEF IInv
  <2>2. key' = [key EXCEPT ![n] = TRUE] /\ AskAll(n)
        /\ UNCHANGED <<own, known, unsent, log, lo, cursor, page, pos, seen, held, lost, aged, faults>>
    BY Zenon DEF TakeKey
  <2>3. key' \in [Nodes -> BOOLEAN] /\ \A m \in Nodes : key[m] => key'[m] BY <2>1, <2>2, Zenon DEF Typed
  <2>4. /\ cursor' \in [Nodes -> [Chans -> Nat]] /\ page' \in [Nodes -> [Chans -> Nat]]
        /\ pos' \in [Nodes -> [Chans -> Nat]]
    BY <2>1, <2>2, Zenon DEF Typed
  <2>5. \A m \in Nodes, c \in Chans :
          cursor'[m][c] <= pos'[m][c] /\ pos'[m][c] <= page'[m][c] /\ page'[m][c] <= Len(log[c])
    BY <2>1, <2>2, Zenon DEF Placed
  <2> QED BY <2>2, <2>3, <2>4, <2>5, <1>AskIInv, Zenon

\* Opening the frame parked longest keeps the invariant, whether or not its row is
\* deleted.
<1>HeldIInv.
    ASSUME IInv, NEW n \in Nodes, key[n], held[n] # <<>>, OpenHeld(n, Head(held[n])),
           held' = [held EXCEPT ![n] = Tail(@)] \/ held' = held,
           UNCHANGED <<own, log, lo, cursor, seen, key, lost, aged>>,
           faults' \in 0 .. MaxFaults, unsent' \in [Nodes -> SUBSET (1 .. MaxSeq)],
           \A m \in Nodes : unsent'[m] \subseteq unsent[m],
           page' \in [Nodes -> [Chans -> Nat]], pos' \in [Nodes -> [Chans -> Nat]],
           \A m \in Nodes, c \in Chans :
                cursor[m][c] <= pos'[m][c] /\ pos'[m][c] <= page'[m][c] /\ page'[m][c] <= Len(log[c])
    PROVE  IInv'
  <2> USE <1>HeldIInv
  <2>1. Typed /\ Placed /\ Written BY Zenon DEF IInv
  <2>2. PICK f : f = Head(held[n]) BY Zenon
  <2>3. held \in [Nodes -> Seq(Frames)] /\ held[n] \in Seq(Frames) BY <2>1, Zenon DEF Typed
  <2>4. Tail(held[n]) \in Seq(Frames) /\ f \in Frames /\ Elements(held[n]) = Elements(Tail(held[n])) \cup {f}
    BY <2>2, <2>3, ElementsTail, Zenon
  <2>5. f \in Around /\ f.from # n /\ f.body.kind = "changes" /\ f.from \in Nodes
    BY <2>1, <2>4, PlacesAround, Zenon DEF Placed, Frames
  <2>6. OpenChanges(n, f) BY <2>2, Zenon DEF OpenHeld
  <2>7. PICK B \in Seq(Payload) :
          /\ Queues(n, B) /\ Learns(n, f.from, f.body.seqs) /\ \A i \in 1 .. Len(B) : Means(n, B[i])'
          /\ f.body.seqs \subseteq 1 .. own[f.from]
    BY <2>5, <2>6, OpenChangesSends, Zenon
  <2>8. /\ \A m, b \in Nodes : known'[m][b] \subseteq 1 .. own[b]
        /\ \A m, b \in Nodes : known[m][b] \subseteq known'[m][b]
    BY <2>1, <2>5, <2>7, LearnsWritten, Zenon
  <2>9. /\ held' \in [Nodes -> Seq(Frames)]
        /\ \A m \in Nodes : Elements(held'[m]) \subseteq Elements(held[m])
        /\ \A m \in Nodes : \A g \in Elements(held[m]) : g \in Elements(held'[m]) \/ (m = n /\ g = f)
    <3>1. CASE held' = held BY <2>3, <3>1, Zenon
    <3>2. CASE held' = [held EXCEPT ![n] = Tail(held[n])]
      <4>1. held'[n] = Tail(held[n]) /\ \A m \in Nodes \ {n} : held'[m] = held[m] BY <2>3, <3>2, Zenon
      <4>2. held' \in [Nodes -> Seq(Frames)] BY <2>3, <2>4, <3>2, Zenon
      <4> QED BY <2>4, <4>1, <4>2, Zenon
    <3> QED BY <2>3, <3>1, <3>2, Zenon
  <2>10. outbox' \in [Nodes -> Seq(Frames)] /\ sent' \in [Nodes -> Nat] BY <2>7, Zenon DEF Queues
  <2>11. known' \in [Nodes -> [Nodes -> SUBSET (1 .. MaxSeq)]] BY <2>7, Zenon DEF Learns
  <2>12. Typed' BY <2>1, <2>9, <2>10, <2>11, Zenon DEF Typed
  <2>13. Placed' BY <2>1, <2>7, <2>9, <1>QueuesPlaced, ZenonT(40) DEF Placed
  <2>14. \A m \in Nodes : own[m] \in Nat BY <2>1, SMTT(40) DEF Typed
  <2>15. Remembers BY <2>8, <2>14 DEF Remembers
  <2>16. Carries(n, B) BY <2>1, <2>7, <2>9, <2>15, PlacesAround, <1>QueuesCarries, ZenonT(40)
  <2>17. \A m \in Nodes : \A g \in Elements(held[m]) :
              g \in Elements(held'[m]) \/ (key'[m] /\ g.body.seqs \subseteq known'[m][g.from])
    BY <2>7, <2>9, ZenonT(40) DEF Learns
  <2>18. \A m \in Nodes : unsent'[m] \subseteq 1 .. own'[m] BY <2>1, Zenon DEF Written
  <2>19. Keeps(n, B) BY <2>7, <2>8, <2>16, <2>17, <2>18, Zenon DEF Keeps
  <2> QED BY <2>12, <2>13, <2>19, <1>KeepsIInv, Zenon

\* apply_held keeps it.
<1>ApplyHeldIInv.      ASSUME IInv, NEW n \in Nodes, ApplyHeld(n) PROVE IInv'
  <2> USE <1>ApplyHeldIInv
  <2>1. Typed /\ Placed BY Zenon DEF IInv
  <2>2. /\ key[n] /\ held[n] # <<>> /\ OpenHeld(n, Head(held[n])) /\ held' = [held EXCEPT ![n] = Tail(@)]
        /\ UNCHANGED <<own, unsent, log, lo, cursor, page, pos, seen, key, lost, aged, faults>>
    BY Zenon DEF ApplyHeld
  <2>3. /\ faults' \in 0 .. MaxFaults /\ unsent' \in [Nodes -> SUBSET (1 .. MaxSeq)]
        /\ page' \in [Nodes -> [Chans -> Nat]] /\ pos' \in [Nodes -> [Chans -> Nat]]
    BY <2>1, <2>2, Zenon DEF Typed
  <2>4. \A m \in Nodes, c \in Chans :
          cursor[m][c] <= pos'[m][c] /\ pos'[m][c] <= page'[m][c] /\ page'[m][c] <= Len(log[c])
    BY <2>1, <2>2, Zenon DEF Placed
  <2> QED BY <2>2, <2>3, <2>4, <1>HeldIInv, Zenon

\* So does a crash in it.
<1>CrashInApplyHeldIInv.      ASSUME IInv, NEW n \in Nodes, CrashInApplyHeld(n) PROVE IInv'
  <2> USE <1>CrashInApplyHeldIInv
  <2>1. Typed /\ Placed BY Zenon DEF IInv
  <2>2. key[n] /\ held[n] # <<>> /\ OpenHeld(n, Head(held[n])) /\ Restart(n) /\ UNCHANGED <<seen, lost, aged>> /\ held' = held
    BY Zenon DEF CrashInApplyHeld, Restart
  <2>3. /\ faults' \in 0 .. MaxFaults
        /\ unsent' \in [Nodes -> SUBSET (1 .. MaxSeq)] /\ \A m \in Nodes : unsent'[m] \subseteq unsent[m]
        /\ pos' \in [Nodes -> [Chans -> Nat]] /\ page' \in [Nodes -> [Chans -> Nat]]
        /\ \A m \in Nodes, c \in Chans :
              cursor[m][c] <= pos'[m][c] /\ pos'[m][c] <= page'[m][c] /\ page'[m][c] <= Len(log[c])
        /\ UNCHANGED <<own, log, lo, cursor, key, aged>>
    BY <2>1, <2>2, RestartIs, Zenon
  <2> QED BY <2>2, <2>3, <1>HeldIInv, Zenon

\* Dropping the frame parked longest for its age keeps it.
<1>HeldPruneIInv.      ASSUME IInv, NEW n \in Nodes, HeldPrune(n) PROVE IInv'
  <2> USE <1>HeldPruneIInv
  <2>1. Typed /\ Placed /\ Written BY Zenon DEF IInv
  <2>2. PICK f : f = Head(held[n]) BY Zenon
  <2>3. /\ held[n] # <<>> /\ held' = [held EXCEPT ![n] = Tail(held[n])]
        /\ aged' = [aged EXCEPT ![n] = aged[n] \cup {f}] /\ faults < MaxFaults /\ faults' = faults + 1
        /\ UNCHANGED <<own, known, unsent, outbox, sent, log, lo, cursor, page, pos, seen, key, lost>>
    BY <2>2, Zenon DEF HeldPrune
  <2>4. /\ held \in [Nodes -> Seq(Frames)] /\ held[n] \in Seq(Frames) /\ aged \in [Nodes -> SUBSET Frames]
        /\ faults \in 0 .. MaxFaults /\ MaxFaults \in Nat
    BY <2>1, ConstAssumption, Zenon DEF Typed, ConstAssumption
  <2>5. Tail(held[n]) \in Seq(Frames) /\ f \in Frames /\ Elements(held[n]) = Elements(Tail(held[n])) \cup {f}
    BY <2>2, <2>3, <2>4, ElementsTail, Zenon
  <2>6. held'[n] = Tail(held[n]) /\ \A m \in Nodes \ {n} : held'[m] = held[m] BY <2>3, <2>4, Zenon
  <2>7. aged'[n] = aged[n] \cup {f} /\ \A m \in Nodes \ {n} : aged'[m] = aged[m] BY <2>3, <2>4, Zenon
  <2>8. held' \in [Nodes -> Seq(Frames)] /\ aged' \in [Nodes -> SUBSET Frames] BY <2>3, <2>4, <2>5, Zenon
  <2>9. faults' \in 0 .. MaxFaults BY <2>3, <2>4
  <2>10. Typed' BY <2>1, <2>3, <2>8, <2>9, Zenon DEF Typed
  <2>11. /\ \A m \in Nodes : Elements(held'[m]) \subseteq Elements(held[m])
         /\ \A m \in Nodes : \A g \in Elements(held[m]) : g \in Elements(held'[m]) \/ g \in aged'[m]
         /\ \A m \in Nodes : aged[m] \subseteq aged'[m] /\ aged'[m] \subseteq aged[m] \cup Elements(held[m])
    BY <2>5, <2>6, <2>7, ZenonT(40)
  <2>12. Placed' BY <2>1, <2>3, <2>11, ZenonT(40) DEF Placed
  <2>13. \A m \in Nodes : own[m] <= own'[m]
    <3>1. \A m \in Nodes : own[m] \in Nat BY <2>1 DEF Typed
    <3> QED BY <2>3, <3>1
  <2>14. Remembers BY <2>3, <2>11, <2>13, Zenon DEF Remembers
  <2>15. Queues(n, <<>>) /\ <<>> \in Seq(Payload) /\ Len(<<>>) = 0 BY <2>1, <2>3, QueuesNothing, SMTT(40)
  <2>16. \A m \in Nodes : Elements(held'[m]) \subseteq Around BY <2>11, PlacesAround, Zenon
  <2>17. Carries(n, <<>>) BY <2>1, <2>3, <2>14, <2>15, <2>16, <1>QueuesCarries, ZenonT(40)
  <2>18. Keeps(n, <<>>)
    <3>1. 1 .. Len(<<>>) = {} BY <2>15
    <3>2. \A m \in Nodes : unsent'[m] \subseteq 1 .. own'[m] BY <2>1, <2>3, Zenon DEF Written
    <3>3. \A m, a \in Nodes : known'[m][a] \subseteq 1 .. own'[a] BY <2>1, <2>3, Zenon DEF Written
    <3> QED BY <2>3, <2>11, <2>17, <3>1, <3>2, <3>3, Zenon DEF Keeps
  <2> QED BY <2>10, <2>12, <2>15, <2>18, <1>KeepsIInv, ZenonT(40)

\* A crash between seen_insert and open_and_apply keeps it: the frame is lost.
<1>CrashInIngestIInv.      ASSUME IInv, NEW n \in Nodes, NEW c \in Chans, CrashInIngest(n, c) PROVE IInv'
  <2> USE <1>CrashInIngestIInv
  <2>1. Typed /\ Placed /\ Written BY Zenon DEF IInv
  <2>2. PICK f : f = log[c][pos[n][c] + 1] BY Zenon
  <2>3. /\ pos[n][c] < page[n][c] /\ Restart(n) /\ held' = held /\ UNCHANGED <<known, outbox, sent>>
        /\ seen' = [seen EXCEPT ![n] = seen[n] \cup {<<f.from, f.id>>}]
        /\ lost' = [lost EXCEPT ![n] = lost[n] \cup {<<f.from, f.id>>}]
    BY <2>2, Zenon DEF CrashInIngest, Restart
  <2>4. f \in Around /\ f \in Frames BY <2>1, <2>2, <2>3, NextFrame, Zenon
  <2>5. <<f.from, f.id>> \in Ids BY <2>4, Zenon DEF Frames, Ids
  <2>6. seen \in [Nodes -> SUBSET Ids] /\ lost \in [Nodes -> SUBSET Ids] BY <2>1, Zenon DEF Typed
  <2>7. seen' \in [Nodes -> SUBSET Ids] /\ lost' \in [Nodes -> SUBSET Ids] BY <2>3, <2>5, <2>6, Zenon
  <2>8. /\ faults' \in 0 .. MaxFaults
        /\ unsent' \in [Nodes -> SUBSET (1 .. MaxSeq)] /\ \A m \in Nodes : unsent'[m] \subseteq unsent[m]
        /\ pos' \in [Nodes -> [Chans -> Nat]] /\ page' \in [Nodes -> [Chans -> Nat]]
        /\ \A m \in Nodes, d \in Chans :
              cursor[m][d] <= pos'[m][d] /\ pos'[m][d] <= page'[m][d] /\ page'[m][d] <= Len(log[d])
        /\ UNCHANGED <<own, log, lo, cursor, key, aged>>
    BY <2>1, <2>3, RestartIs, Zenon
  <2>9. Typed' BY <2>1, <2>3, <2>7, <2>8, Zenon DEF Typed
  <2>10. Placed' BY <2>1, <2>3, <2>8, Zenon DEF Placed
  <2>11. \A m \in Nodes : own[m] \in Nat BY <2>1 DEF Typed
  <2>12. \A m \in Nodes : seen[m] \subseteq seen'[m] /\ lost[m] \subseteq lost'[m]
          /\ seen'[m] \subseteq seen[m] \cup {<<g.from, g.id>> : g \in Around}
    BY <2>3, <2>4, <2>6, ZenonT(40)
  <2>13. Remembers
    <3>1. own' = own /\ known' = known /\ key' = key /\ aged' = aged BY <2>3, <2>8, Zenon
    <3>2. \A m \in Nodes : own[m] <= own'[m] BY <2>11, <3>1
    <3> QED BY <2>12, <3>1, <3>2, Zenon DEF Remembers
  <2>14. Queues(n, <<>>) /\ <<>> \in Seq(Payload) /\ Len(<<>>) = 0 BY <2>1, <2>3, QueuesNothing, SMTT(40)
  <2>15. Carries(n, <<>>) BY <2>1, <2>3, <2>8, <2>13, <2>14, PlacesAround, <1>QueuesCarries, ZenonT(40)
  <2>16. \A m \in Nodes : \A s \in seen'[m] \ lost'[m] : s \in seen[m] BY <2>3, <2>6, Zenon
  <2>17. \A m \in Nodes : unsent'[m] \subseteq 1 .. own'[m] BY <2>1, <2>8, Zenon DEF Written
  <2>18. \A m, a \in Nodes : known'[m][a] \subseteq 1 .. own'[a] BY <2>1, <2>3, <2>8, ZenonT(40) DEF Written
  <2>19. Keeps(n, <<>>)
    <3>1. 1 .. Len(<<>>) = {} BY <2>14
    <3> QED BY <2>3, <2>8, <2>15, <2>16, <2>17, <2>18, <3>1, Zenon DEF Keeps
  <2> QED BY <2>9, <2>10, <2>14, <2>19, <1>KeepsIInv, ZenonT(40)

\* ingest keeps the invariant.
<1>IngestIInv.      ASSUME IInv, NEW n \in Nodes, NEW c \in Chans, Ingest(n, c) PROVE IInv'
  <2> USE <1>IngestIInv
  <2>1. Typed /\ Placed /\ Named /\ Written BY Zenon DEF IInv
  <2>2. PICK f : f = log[c][pos[n][c] + 1] BY Zenon
  <2>3. UNCHANGED <<own, unsent, log, lo, page, key, lost, aged, faults>> BY Zenon DEF Ingest
  <2>4. /\ cursor' \in [Nodes -> [Chans -> Nat]] /\ pos' \in [Nodes -> [Chans -> Nat]]
        /\ \A m \in Nodes, d \in Chans : cursor'[m][d] <= pos'[m][d] /\ pos'[m][d] <= page[m][d]
        /\ pos[n][c] < page[n][c]
    BY <2>1, IngestMoves, Zenon
  <2>5. f \in Around /\ f \in Frames BY <2>1, <2>2, <2>4, NextFrame, Zenon
  <2>6. \A m \in Nodes : own[m] \in Nat BY <2>1 DEF Typed
  <2>7. CASE f.from = n \/ <<f.from, f.id>> \in seen[n]
    <3>1. UNCHANGED <<known, held, outbox, sent, seen>> BY <2>2, <2>7, Zenon DEF Ingest
    <3>2. Typed' BY <2>1, <2>3, <2>4, <3>1, Zenon DEF Typed
    <3>3. Placed' BY <2>1, <2>3, <2>4, <3>1, ZenonT(40) DEF Placed
    <3>4. \A m \in Nodes : own[m] <= own'[m] /\ unsent'[m] \subseteq 1 .. own'[m] BY <2>1, <2>3, <2>6, SMTT(40) DEF Written
    <3> QED BY <2>3, <3>1, <3>2, <3>3, <3>4, <1>QuietIInv, Zenon
  <2>8. CASE ~(f.from = n \/ <<f.from, f.id>> \in seen[n])
    <3>1. seen' = [seen EXCEPT ![n] = seen[n] \cup {<<f.from, f.id>>}] /\ OpenAndApply(n, f)
      BY <2>2, <2>8, Zenon DEF Ingest
    <3>2. PICK B \in Seq(Payload) : Opens(n, f, B) BY <2>3, <2>5, <2>8, <3>1, OpensIt, Zenon
    <3>3. <<f.from, f.id>> \in Ids BY <2>5, Zenon DEF Frames, Ids
    <3>4. seen \in [Nodes -> SUBSET Ids] BY <2>1, Zenon DEF Typed
    <3>5. seen' \in [Nodes -> SUBSET Ids] BY <3>1, <3>3, <3>4, Zenon
    <3>6. \A m \in Nodes : seen[m] \subseteq seen'[m] /\ seen'[m] \subseteq seen[m] \cup {<<g.from, g.id>> : g \in Around}
      BY <2>5, <3>1, <3>4, Zenon
    <3>7. /\ outbox' \in [Nodes -> Seq(Frames)] /\ sent' \in [Nodes -> Nat] /\ held' \in [Nodes -> Seq(Frames)]
          /\ known' \in [Nodes -> [Nodes -> SUBSET (1 .. MaxSeq)]]
      BY <3>2, Zenon DEF Opens, Queues
    <3>8. Typed' BY <2>1, <2>3, <2>4, <3>5, <3>7, ZenonT(40) DEF Typed
    <3>9. Queues(n, B) BY <3>2, Zenon DEF Opens
    <3>10. \A m \in Nodes : \A g \in Elements(outbox'[m]) : g.from = m BY <2>1, <3>9, <1>QueuesPlaced, Zenon
    <3>11. \A m \in Nodes : \A g \in Elements(held'[m]) :
              g.body.kind = "changes" /\ g.from # m /\ g \in Around
      <4> SUFFICES ASSUME NEW m \in Nodes, NEW g \in Elements(held'[m])
                   PROVE  g.body.kind = "changes" /\ g.from # m /\ g \in Around
        BY Zenon
      <4>1. g \in Elements(held[m]) \/ (m = n /\ g = f /\ f.body.kind = "changes") BY <3>2, Zenon DEF Opens
      <4>2. CASE g \in Elements(held[m]) BY <2>1, <4>2, PlacesAround, Zenon DEF Placed
      <4>3. CASE m = n /\ g = f /\ f.body.kind = "changes" BY <2>5, <2>8, <4>3, Zenon
      <4> QED BY <4>1, <4>2, <4>3, Zenon
    <3>12. Placed' BY <2>1, <2>3, <2>4, <3>10, <3>11, Zenon DEF Placed
    <3>13. \A m, a \in Nodes : known[m][a] \subseteq known'[m][a] BY <3>2, ZenonT(40) DEF Opens
    <3>14. Remembers
      <4>1. \A m \in Nodes : own[m] <= own'[m]
        <5>1. own' = own BY <2>3, Zenon
        <5> QED BY <2>6, <5>1
      <4>2. \A m \in Nodes : (key[m] => key'[m]) /\ lost[m] \subseteq lost'[m] /\ aged[m] \subseteq aged'[m]
        BY <2>3, Zenon
      <4> QED BY <3>6, <3>13, <4>1, <4>2, Zenon DEF Remembers
    <3>15. Carries(n, B) BY <2>1, <2>3, <3>9, <3>11, <3>14, <1>QueuesCarries, Zenon
    <3>16. \A m \in Nodes : \A g \in Elements(held[m]) : g \in Elements(held'[m]) BY <3>2, Zenon DEF Opens
    <3>17. ASSUME NEW m \in Nodes, NEW g \in Around, g.body.kind = "changes", g.from # m,
                  <<g.from, g.id>> \notin seen[m], <<g.from, g.id>> \in seen'[m]
           PROVE  g \in Elements(held'[m]) \/ (key'[m] /\ g.body.seqs \subseteq known'[m][g.from])
      <4>1. m = n /\ <<g.from, g.id>> = <<f.from, f.id>> BY <3>1, <3>4, <3>17, Zenon
      <4>2. g.from = f.from /\ g.id = f.id BY <4>1, Zenon
      <4>3. g = f BY <2>1, <2>5, <4>2, Zenon DEF Named
      <4>4. f \in Elements(held'[n]) \/ (key[n] /\ f.body.seqs \subseteq known'[n][f.from])
        BY <3>2, <3>17, <4>3, Zenon DEF Opens
      <4> QED BY <2>3, <4>1, <4>3, <4>4, Zenon
    <3>18. \A m \in Nodes : unsent'[m] \subseteq 1 .. own'[m] BY <2>1, <2>3, Zenon DEF Written
    <3>19. (\A i \in 1 .. Len(B) : Means(n, B[i])') /\ \A m, a \in Nodes : known'[m][a] \subseteq 1 .. own'[a]
      BY <2>3, <3>2, Zenon DEF Opens
    <3>20. Keeps(n, B) BY <2>3, <3>15, <3>16, <3>17, <3>18, <3>19, Zenon DEF Keeps
    <3> QED BY <3>8, <3>12, <3>20, <1>KeepsIInv, Zenon
  <2> QED BY <2>7, <2>8, Zenon

<1> SUFFICES ASSUME IInv, [Next]_vars PROVE IInv' BY Zenon
<1>1. CASE UNCHANGED vars
  <2>1. UNCHANGED <<own, known, unsent, outbox, sent, log, lo, cursor, page, pos, seen, key, held, lost, aged, faults>>
    BY <1>1, Zenon DEF vars
  <2>2. Typed' BY <2>1, Zenon DEF IInv, Typed
  <2>3. Placed' BY <2>1, Zenon DEF IInv, Placed
  <2>4. Around' = Around BY <2>1, Zenon DEF Around
  <2>5. Named' BY <2>1, <2>4, Zenon DEF IInv, Named
  <2>6. Written' BY <2>1, <2>4, Zenon DEF IInv, Written, Means
  <2>7. Opened' BY <2>1, <2>4, Zenon DEF IInv, Opened
  <2> QED BY <2>2, <2>3, <2>5, <2>6, <2>7, Zenon DEF IInv
<1>2. ASSUME NEW n \in Nodes, Commit(n) PROVE IInv' BY <1>2, <1>CommitIInv, Zenon
<1>3. ASSUME NEW n \in Nodes, NEW k \in unsent[n], TapDrop(n, k) \/ OnFrame(n, k) PROVE IInv'
  BY <1>3, <1>TapDropIInv, <1>OnFrameIInv, Zenon
<1>4. ASSUME NEW n \in Nodes, DrainOnce(n) \/ DrainUnconfirmed(n) \/ DrainRefused(n) PROVE IInv'
  <2>1. faults \in 0 .. MaxFaults /\ MaxFaults \in Nat BY ConstAssumption, ZenonT(40) DEF IInv, Typed, ConstAssumption
  <2>2. faults' \in 0 .. MaxFaults BY <1>4, <2>1 DEF DrainOnce, DrainUnconfirmed, DrainRefused
  <2>3. outbox[n] # <<>> /\ UNCHANGED <<own, known, unsent, sent, lo, cursor, page, pos, seen, key, held, lost, aged>>
    BY <1>4, Zenon DEF DrainOnce, DrainUnconfirmed, DrainRefused
  <2>4. /\ \/ log' = [log EXCEPT ![ChanOf(Head(outbox[n]))] = Append(@, Head(outbox[n]))]
           \/ log' = log
        /\ \/ outbox' = [outbox EXCEPT ![n] = Tail(@)]
           \/ outbox' = outbox
    BY <1>4, Zenon DEF DrainOnce, DrainUnconfirmed, DrainRefused
  <2> QED BY <2>2, <2>3, <2>4, <1>DrainIInv, Zenon
<1>5. ASSUME NEW n \in Nodes, NEW c \in Chans,
             Fetch(n, c) \/ Gone(n, c) \/ Ingest(n, c) \/ CrashInIngest(n, c)
      PROVE  IInv'
  BY <1>5, <1>FetchIInv, <1>GoneIInv, <1>IngestIInv, <1>CrashInIngestIInv, Zenon
<1>6. ASSUME NEW n \in Nodes, TakeKey(n) \/ ApplyHeld(n) \/ HeldPrune(n) \/ Crash(n) \/ CrashInApplyHeld(n)
      PROVE  IInv'
  BY <1>6, <1>TakeKeyIInv, <1>ApplyHeldIInv, <1>HeldPruneIInv, <1>CrashIInv, <1>CrashInApplyHeldIInv, Zenon
<1>7. ASSUME NEW c \in Chans, Prune(c) PROVE IInv'
  <2>1. PICK f : f \in Elements(log[c])
    <3>1. Typed BY Zenon DEF IInv
    <3>2. lo[c] \in Nat /\ log[c] \in Seq(Frames) /\ lo[c] < Len(log[c]) BY <1>7, <3>1, Zenon DEF Prune, Typed
    <3>3. 1 \in DOMAIN log[c] BY <3>2
    <3> QED BY <3>3, Zenon DEF Elements
  <2>2. f.from \in Nodes
    <3>1. Typed BY Zenon DEF IInv
    <3>2. log[c] \in Seq(Frames) BY <3>1, Zenon DEF Typed
    <3>3. f \in Frames BY <2>1, <3>2 DEF Elements
    <3> QED BY <3>3, Zenon DEF Frames
  <2> QED BY <1>7, <2>2, <1>PruneIInv, Zenon
<1> QED BY <1>1, <1>2, <1>3, <1>4, <1>5, <1>6, <1>7, Zenon DEF Next

-----------------------------------------------------------------------------
(* What is skipped is asked for *)

\* A step that loses no request and no answer: what is queued stays queued or reaches
\* the hub, a request that is read is answered, a batch that is read is applied.
Delivers ==
    /\ \A m \in Nodes : \A f \in Elements(outbox[m]) :
        f.body.kind # "changes" => f \in Elements(outbox'[m]) \cup Elements(log'[Mesh])
    /\ Elements(log[Mesh]) \subseteq Elements(log'[Mesh])
    /\ \A m \in Nodes : \A f \in Around :
        f.body.to = m /\ <<f.from, f.id>> \in seen'[m] \ seen[m] =>
            /\ f.body.kind = "batch" => f.body.seqs \subseteq known'[m][f.from]
            /\ f.body.kind = "request" =>
                \A k \in 1 .. own[m] : k > f.body.after =>
                    \E g \in Elements(outbox'[m]) :
                        /\ g.body.kind = "batch" /\ g.from = m /\ g.body.to = f.from /\ k \in g.body.seqs
                        /\ <<g.from, g.id>> \notin seen'[f.from]

\* What the hub and the nodes have written down stays.
Lasting ==
    /\ Delivers
    /\ \A c \in Chans : \A i \in 1 .. Len(log[c]) : log'[c][i] = log[c][i]
    /\ \A m \in Nodes : seen[m] \subseteq seen'[m]
    /\ \A m, a \in Nodes : known[m][a] \subseteq known'[m][a]

\* A step that drops a frame for its age, or brings the key to a node that dropped one,
\* sees to its change.
Regains ==
    \A m \in Nodes : \A f \in aged'[m] : (f \in aged[m] /\ (key'[m] => key[m])) \/ Regained(m, f)'

\* While no request and no answer is lost, every step keeps everything asked for.
LEMMA NextAsked == ASSUME ControlLoss = {} PROVE IInv /\ Asked /\ [Next]_vars => Asked'
\* A change on its way is still on its way, or has arrived.
<1>ComingStays.
    ASSUME Delivers, NEW n \in Nodes, NEW a \in Nodes, NEW k \in 1 .. own[a], Coming(n, a, k)
    PROVE  Coming(n, a, k)' \/ k \in known'[n][a]
  <2> USE <1>ComingStays
  <2>0. Mesh \in Chans BY Zenon DEF Chans
  <2>1. ASSUME NEW f \in Elements(outbox[n]) \cup Elements(log[Mesh]),
               f.body.kind = "request", f.from = n, f.body.to = a, f.body.after < k, <<f.from, f.id>> \notin seen[a]
        PROVE  Coming(n, a, k)'
    <3>1. f \in Elements(outbox'[n]) \cup Elements(log'[Mesh]) BY <2>1 DEF Delivers
    <3>2. CASE <<f.from, f.id>> \notin seen'[a] BY <2>1, <3>1, <3>2, Zenon DEF Coming
    <3>3. CASE <<f.from, f.id>> \in seen'[a]
      <4>1. f \in Around BY <2>0, PlacesAround, Zenon
      <4>2. \A i \in 1 .. own[a] : i > f.body.after =>
              \E g \in Elements(outbox'[a]) :
                  /\ g.body.kind = "batch" /\ g.from = a /\ g.body.to = f.from /\ i \in g.body.seqs
                  /\ <<g.from, g.id>> \notin seen'[f.from]
        BY <2>1, <3>3, <4>1, ZenonT(40) DEF Delivers
      <4>3. k > f.body.after BY <2>1, Zenon
      <4>4. PICK g \in Elements(outbox'[a]) :
                  /\ g.body.kind = "batch" /\ g.from = a /\ g.body.to = f.from /\ k \in g.body.seqs
                  /\ <<g.from, g.id>> \notin seen'[f.from]
        BY <4>2, <4>3, Zenon
      <4> QED BY <2>1, <4>4, Zenon DEF Coming
    <3> QED BY <3>2, <3>3, Zenon
  <2>2. ASSUME NEW f \in Elements(outbox[a]) \cup Elements(log[Mesh]),
               f.body.kind = "batch", f.from = a, f.body.to = n, k \in f.body.seqs, <<f.from, f.id>> \notin seen[n]
        PROVE  Coming(n, a, k)' \/ k \in known'[n][a]
    <3>1. f \in Elements(outbox'[a]) \cup Elements(log'[Mesh]) BY <2>2 DEF Delivers
    <3>2. CASE <<f.from, f.id>> \notin seen'[n] BY <2>2, <3>1, <3>2, Zenon DEF Coming
    <3>3. CASE <<f.from, f.id>> \in seen'[n]
      <4>1. f \in Around BY <2>0, PlacesAround, Zenon
      <4>2. f.body.seqs \subseteq known'[n][f.from] BY <2>2, <3>3, <4>1, ZenonT(40) DEF Delivers
      <4> QED BY <2>2, <4>2, Zenon
    <3> QED BY <3>2, <3>3, Zenon
  <2> QED BY <2>1, <2>2, Zenon DEF Coming

\* A change of a hole was written, and so was one a frame carries.
<1>HolesAreWritten.
    ASSUME Typed, Written, NEW n \in Nodes, NEW a \in Nodes, NEW k \in 1 .. MaxSeq, Hole(n, a, k)
    PROVE  k \in 1 .. own[a]
  <2> USE <1>HolesAreWritten
  <2>1. PICK j \in known[n][a] : j > k BY Zenon DEF Hole
  <2>2. j \in 1 .. own[a] /\ own[a] \in Nat BY <2>1 DEF Written, Typed
  <2> QED BY <2>1, <2>2

<1>CarriedIsWritten.
    ASSUME Typed, Written, NEW f \in Around, f.body.kind = "changes", NEW k \in f.body.seqs
    PROVE  k \in 1 .. own[f.from] /\ f.body.seqs = {k}
  <2> USE <1>CarriedIsWritten
  <2>1. PICK j \in 1 .. own[f.from] : f.body.seqs = {j} BY Zenon DEF Written, Means
  <2> QED BY <2>1, Zenon

\* What a node has moved past stays accounted for.
<1>PastStays.
    ASSUME Typed, Written, Lasting, NEW n \in Nodes, NEW f \in Around, f.body.kind = "changes", Past(n, f)
    PROVE  Past(n, f)'
  <2> USE <1>PastStays
  <2>0. f.from \in Nodes BY AroundFrames, Zenon DEF Frames
  <2>1. CASE Settled(n, f) BY <2>1, Zenon DEF Settled, Past, Lasting
  <2>2. ASSUME NEW k \in f.body.seqs, k \in known[n][f.from] \/ Coming(n, f.from, k)
        PROVE  k \in known'[n][f.from] \/ Coming(n, f.from, k)'
    <3>1. CASE k \in known[n][f.from] BY <2>0, <3>1, Zenon DEF Lasting
    <3>2. CASE Coming(n, f.from, k)
      <4>1. k \in 1 .. own[f.from] BY <1>CarriedIsWritten, Zenon
      <4> QED BY <2>0, <3>2, <4>1, <1>ComingStays, Zenon DEF Lasting
    <3> QED BY <2>2, <3>1, <3>2, Zenon
  <2> QED BY <2>1, <2>2, Zenon DEF Past

\* What a step must show to keep every hole and every skipped change asked for.
<1>AskedStays.
    ASSUME IInv, Asked, Lasting, Regains, lo'[Mesh] = lo[Mesh],
           \A m, a \in Nodes : \A k \in 1 .. MaxSeq : Hole(m, a, k)' => Hole(m, a, k) \/ Coming(m, a, k)',
           \A m \in Nodes, c \in Chans : pos'[m][c] \in Nat /\ pos'[m][c] <= Len(log[c]),
           \A m \in Nodes : \A i \in 1 .. pos'[m][Mesh] :
                i <= pos[m][Mesh] \/ \A f : f = log[Mesh][i] => Settled(m, f)',
           \A m \in Nodes : \A i \in 1 .. pos'[m][Rec] :
                i <= pos[m][Rec] \/ \A f : f = log[Rec][i] => Past(m, f)'
    PROVE  Asked'
  <2> USE <1>AskedStays
  <2>0. Mesh \in Chans /\ Rec \in Chans BY Zenon DEF Chans
  <2>1. Typed /\ Written /\ Placed BY Zenon DEF IInv
  <2>2. \A m \in Nodes, c \in Chans : pos[m][c] \in Nat /\ pos[m][c] <= Len(log[c]) /\ log[c] \in Seq(Frames)
    <3> TAKE m \in Nodes, c \in Chans
    <3>1. pos[m][c] \in Nat /\ page[m][c] \in Nat /\ log[c] \in Seq(Frames) BY <2>1, Zenon DEF Typed
    <3>2. pos[m][c] <= page[m][c] /\ page[m][c] <= Len(log[c]) BY <2>1, ZenonT(40) DEF Placed
    <3> QED BY <3>1, <3>2
  <2>3. ASSUME NEW m \in Nodes, NEW c \in Chans, NEW i \in 1 .. pos'[m][c]
        PROVE  /\ log'[c][i] = log[c][i] /\ log[c][i] \in Around /\ ChanOf(log[c][i]) = c
               /\ i <= pos[m][c] => i \in 1 .. pos[m][c]
    <3>1. i \in 1 .. Len(log[c]) BY <2>2, SMTT(40)
    <3>2. log[c][i] \in Elements(log[c]) BY <2>2, <3>1 DEF Elements
    <3> QED BY <2>1, <2>2, <3>1, <3>2, PlacesAround, SMTT(40) DEF Lasting, Placed
  <2>4. ASSUME NEW m \in Nodes, NEW i \in 1 .. pos'[m][Mesh] PROVE Settled(m, log[Mesh][i])'
    <3>1. PICK f : f = log[Mesh][i] BY Zenon
    <3>2. f = log'[Mesh][i] BY <2>0, <2>3, <3>1, Zenon
    <3>3. Settled(m, f)'
      <4>1. CASE i <= pos[m][Mesh]
        <5>1. i \in 1 .. pos[m][Mesh] BY <2>0, <2>3, <4>1, Zenon
        <5>2. Settled(m, log[Mesh][i]) BY <5>1, Zenon DEF Asked
        <5> QED BY <3>1, <5>2, Zenon DEF Settled, Lasting
      <4>2. CASE ~(i <= pos[m][Mesh]) BY <3>1, <4>2, Zenon
      <4> QED BY <4>1, <4>2, Zenon
    <3> QED BY <3>2, <3>3, Zenon DEF Settled
  <2>5. ASSUME NEW m \in Nodes, NEW i \in 1 .. pos'[m][Rec] PROVE Past(m, log[Rec][i])'
    <3>1. PICK f : f = log[Rec][i] BY Zenon
    <3>2. f = log'[Rec][i] /\ f \in Around /\ ChanOf(f) = Rec BY <2>0, <2>3, <3>1, Zenon
    <3>3. f.body.kind = "changes" BY <3>2, Zenon DEF ChanOf, Rec, Mesh
    <3>4. Past(m, f)'
      <4>1. CASE i <= pos[m][Rec]
        <5>1. i \in 1 .. pos[m][Rec] BY <2>0, <2>3, <4>1, Zenon
        <5>2. Past(m, f) BY <3>1, <5>1, Zenon DEF Asked
        <5> QED BY <2>1, <3>2, <3>3, <5>2, <1>PastStays, Zenon
      <4>2. CASE ~(i <= pos[m][Rec]) BY <3>1, <4>2, Zenon
      <4> QED BY <4>1, <4>2, Zenon
    <3> QED BY <3>2, <3>4, Zenon DEF Past, Settled, Coming
  <2>6. ASSUME NEW m \in Nodes, NEW a \in Nodes, NEW k \in 1 .. MaxSeq, Hole(m, a, k)' PROVE Coming(m, a, k)'
    <3>1. CASE Hole(m, a, k)
      <4>1. k \in 1 .. own[a] BY <2>1, <3>1, <1>HolesAreWritten, Zenon
      <4>2. Coming(m, a, k) BY <3>1, Zenon DEF Asked
      <4>3. k \notin known'[m][a] BY <2>6, Zenon DEF Hole
      <4> QED BY <4>1, <4>2, <4>3, <1>ComingStays, Zenon DEF Lasting
    <3> QED BY <2>6, <3>1, Zenon
  <2>7. lo'[Mesh] = 0 BY Zenon DEF Asked
  <2>8. ASSUME NEW m \in Nodes, NEW f \in aged'[m] PROVE Regained(m, f)'
    <3>1. CASE f \in aged[m] /\ (key'[m] => key[m])
      <4> SUFFICES ASSUME key'[m], NEW k \in f.body.seqs PROVE k \in known'[m][f.from] \/ Coming(m, f.from, k)'
        BY Zenon DEF Regained
      <4>1. k \in known[m][f.from] \/ Coming(m, f.from, k) BY <3>1, Zenon DEF Asked, Regained
      <4>2. f \in Frames BY <2>1, <3>1, Zenon DEF Typed
      <4>3. f.from \in Nodes BY <4>2, Zenon DEF Frames
      <4>4. k \in 1 .. own[f.from] BY <2>1, <3>1, Zenon DEF Written
      <4> QED BY <4>1, <4>3, <4>4, <1>ComingStays, Zenon DEF Lasting
    <3> QED BY <3>1, Zenon DEF Regains
  <2> QED BY <2>4, <2>5, <2>6, <2>7, <2>8, Zenon DEF Asked

\* A step that drops nothing for its age and brings no key.
<1>SameRegains.
    ASSUME UNCHANGED <<aged, key>>
    PROVE  Regains
BY <1>SameRegains, Zenon DEF Regains

\* A step that only queues loses nothing.
<1>GrowLasting.
    ASSUME UNCHANGED <<log, seen>>, \A m \in Nodes : Elements(outbox[m]) \subseteq Elements(outbox'[m]),
           \A m, a \in Nodes : known[m][a] \subseteq known'[m][a]
    PROVE  Lasting
  <2> USE <1>GrowLasting
  <2>1. Delivers BY Zenon DEF Delivers
  <2> QED BY <2>1, Zenon DEF Lasting

\* A step that only queues, and reads nothing more.
<1>GrowAsked.
    ASSUME IInv, Asked, Regains, UNCHANGED <<known, log, seen>>, lo'[Mesh] = lo[Mesh],
           \A m \in Nodes : Elements(outbox[m]) \subseteq Elements(outbox'[m]),
           \A m \in Nodes, c \in Chans : pos'[m][c] \in Nat /\ pos'[m][c] <= pos[m][c]
    PROVE  Asked'
  <2> USE <1>GrowAsked
  <2>0. Mesh \in Chans /\ Rec \in Chans BY Zenon DEF Chans
  <2>1. Typed /\ Placed BY Zenon DEF IInv
  <2>2. Lasting BY <1>GrowLasting, Zenon
  <2>3. ASSUME NEW m \in Nodes, NEW c \in Chans PROVE pos'[m][c] <= Len(log[c])
    <3>1. pos[m][c] \in Nat /\ page[m][c] \in Nat /\ Len(log[c]) \in Nat BY <2>1 DEF Typed
    <3>2. pos[m][c] <= page[m][c] /\ page[m][c] <= Len(log[c]) BY <2>1, Zenon DEF Placed
    <3> QED BY <3>1, <3>2, SMTT(40)
  <2>4. \A m, a \in Nodes : \A k \in 1 .. MaxSeq : Hole(m, a, k)' => Hole(m, a, k) BY Zenon DEF Hole
  <2>5. \A m \in Nodes, c \in Chans : \A i \in 1 .. pos'[m][c] : i <= pos[m][c]
    <3> TAKE m \in Nodes, c \in Chans
    <3>1. pos[m][c] \in Nat /\ pos'[m][c] \in Nat /\ pos'[m][c] <= pos[m][c] BY <2>1, Zenon DEF Typed
    <3> QED BY <3>1
  <2> QED BY <2>0, <2>2, <2>3, <2>4, <2>5, <1>AskedStays, Zenon

\* Queueing keeps what is queued.
<1>QueuesGrows.
    ASSUME NEW n \in Nodes, NEW B, Queues(n, B)
    PROVE  \A m \in Nodes : Elements(outbox[m]) \subseteq Elements(outbox'[m])
BY <1>QueuesGrows, Zenon DEF Queues

\* drain_once takes a frame to the hub's log, or drops a Changes frame.
<1>DrainAsked.
    ASSUME IInv, Asked, NEW n \in Nodes, outbox[n] # <<>>,
           \/ log' = [log EXCEPT ![ChanOf(Head(outbox[n]))] = Append(@, Head(outbox[n]))]
           \/ log' = log /\ ChanOf(Head(outbox[n])) = Rec,
           \/ outbox' = [outbox EXCEPT ![n] = Tail(@)]
           \/ outbox' = outbox,
           UNCHANGED <<known, lo, pos, seen, aged, key>>
    PROVE  Asked'
  <2> USE <1>DrainAsked
  <2>0. Mesh \in Chans /\ Rec \in Chans BY Zenon DEF Chans
  <2>1. Typed /\ Placed BY Zenon DEF IInv
  <2>2. PICK f : f = Head(outbox[n]) BY Zenon
  <2>3. outbox \in [Nodes -> Seq(Frames)] /\ outbox[n] \in Seq(Frames) BY <2>1, Zenon DEF Typed
  <2>4. f \in Frames /\ Elements(outbox[n]) = Elements(Tail(outbox[n])) \cup {f} BY <2>2, <2>3, ElementsTail, Zenon
  <2>5. \A m \in Nodes : \A g \in Elements(outbox[m]) : g \in Elements(outbox'[m]) \/ g = f
    <3>1. CASE outbox' = outbox BY <3>1, Zenon
    <3>2. CASE outbox' = [outbox EXCEPT ![n] = Tail(@)]
      <4>1. outbox'[n] = Tail(outbox[n]) /\ \A m \in Nodes \ {n} : outbox'[m] = outbox[m] BY <2>3, <3>2, Zenon
      <4> QED BY <2>4, <4>1, Zenon
    <3> QED BY <3>1, <3>2, Zenon
  <2>6. /\ \A c \in Chans : Elements(log[c]) \subseteq Elements(log'[c]) /\ \A i \in 1 .. Len(log[c]) : log'[c][i] = log[c][i]
        /\ f \in Elements(log'[ChanOf(f)]) \/ ChanOf(f) = Rec
    <3>1. CASE log' = [log EXCEPT ![ChanOf(f)] = Append(@, f)] BY <2>1, <2>4, <3>1, PostIs, Zenon
    <3>2. CASE log' = log /\ ChanOf(f) = Rec BY <3>2, Zenon
    <3> QED BY <2>2, <3>1, <3>2, Zenon
  <2>7. f.body.kind # "changes" => f \in Elements(log'[Mesh]) BY <2>6, Zenon DEF ChanOf, Rec, Mesh
  <2>8. Delivers
    <3>1. \A m \in Nodes : \A g \in Elements(outbox[m]) :
              g.body.kind # "changes" => g \in Elements(outbox'[m]) \cup Elements(log'[Mesh])
      BY <2>5, <2>7, Zenon
    <3>2. Elements(log[Mesh]) \subseteq Elements(log'[Mesh]) BY <2>0, <2>6, Zenon
    <3> QED BY <3>1, <3>2, Zenon DEF Delivers
  <2>9. Lasting BY <2>6, <2>8, Zenon DEF Lasting
  <2>10. \A m, a \in Nodes : \A k \in 1 .. MaxSeq : Hole(m, a, k)' => Hole(m, a, k) BY Zenon DEF Hole
  <2>11. ASSUME NEW m \in Nodes, NEW c \in Chans
         PROVE  pos'[m][c] \in Nat /\ pos'[m][c] <= Len(log[c]) /\ \A i \in 1 .. pos'[m][c] : i <= pos[m][c]
    <3>1. pos[m][c] \in Nat /\ page[m][c] \in Nat /\ Len(log[c]) \in Nat BY <2>1 DEF Typed
    <3>2. pos[m][c] <= page[m][c] /\ page[m][c] <= Len(log[c]) BY <2>1, Zenon DEF Placed
    <3> QED BY <3>1, <3>2, SMTT(40)
  <2> QED BY <2>0, <2>9, <2>10, <2>11, <1>SameRegains, <1>AskedStays, Zenon

\* The request sealed for a gap is to be read.
<1>RequestComes.
    ASSUME Typed, Named, NEW n \in Nodes, NEW a \in Nodes \ {n}, NEW after, NEW B \in Seq(Payload),
           Queues(n, B), Remembers, NEW i \in 1 .. Len(B), B[i] = Request(a, after),
           NEW k, after < k
    PROVE  Coming(n, a, k)'
  <2> USE <1>RequestComes
  <2>1. PICK f : f = [from |-> n, id |-> sent[n] + i, body |-> B[i]] BY Zenon
  <2>2. f \in NewFrames(n, B) BY <2>1, Zenon DEF NewFrames
  <2>3. f \in Elements(outbox'[n]) BY <2>2, Zenon DEF Queues
  <2>4. <<f.from, f.id>> \notin seen'[a] BY <2>2, NewUnseen, Zenon
  <2>5. f.from = n /\ f.body.kind = "request" /\ f.body.to = a /\ f.body.after = after BY <2>1 DEF Request
  <2> QED BY <2>3, <2>4, <2>5, Zenon DEF Coming

\* Opening a Changes frame leaves no hole that is not asked for.
<1>OpenChangesHoles.
    ASSUME IInv, NEW n \in Nodes, NEW f \in Around, f.from # n, f.body.kind = "changes", OpenChanges(n, f),
           Remembers, NEW m \in Nodes, NEW a \in Nodes, NEW k \in 1 .. MaxSeq, Hole(m, a, k)'
    PROVE  Hole(m, a, k) \/ Coming(m, a, k)'
  <2> USE <1>OpenChangesHoles
  <2>1. Typed /\ Written /\ Named BY Zenon DEF IInv
  <2>2. f \in Frames /\ f.from \in Nodes BY <2>1, AroundFrames, Zenon DEF Frames
  <2>3. PICK after : after = ChangeLogMax(known[n][f.from]) BY Zenon
  <2>4. /\ Learns(n, f.from, f.body.seqs)
        /\ \/ Queues(n, <<>>) /\ \E j \in f.body.seqs : ~(j > after + 1)
           \/ Queues(n, <<Request(f.from, after)>>) /\ <<Request(f.from, after)>> \in Seq(Payload)
    BY <2>1, <2>2, <2>3, OpenChangesIs, Zenon
  <2>5. after \in 0 .. MaxSeq /\ (after = 0 \/ after \in known[n][f.from]) BY <2>1, <2>2, <2>3, LastHeld, Zenon
  <2>6. MaxSeq \in Nat BY ConstAssumption, Zenon DEF ConstAssumption
  <2>7. CASE m # n \/ a # f.from
    <3>1. known'[m][a] = known[m][a] BY <2>4, <2>7, Zenon DEF Learns
    <3> QED BY <3>1, Zenon DEF Hole
  <2>8. CASE m = n /\ a = f.from
    <3>1. PICK j \in known'[n][a] : j > k BY <2>8, Zenon DEF Hole
    <3>2. k \notin known'[n][a] /\ known'[n][a] = known[n][a] \cup f.body.seqs BY <2>4, <2>8, Zenon DEF Hole, Learns
    <3>3. CASE j \in known[n][a] BY <2>8, <3>1, <3>2, <3>3, Zenon DEF Hole
    <3>4. CASE j \in f.body.seqs
      <4>1. j \in 1 .. own[a] /\ f.body.seqs = {j} BY <2>1, <2>8, <3>4, <1>CarriedIsWritten, Zenon
      <4>2. CASE k <= after
        <5>1. after \in known[n][a] /\ after \in 0 .. MaxSeq BY <2>5, <2>6, <2>8, <4>2
        <5>2. after # k BY <3>2, <5>1, Zenon
        <5>3. after > k BY <2>6, <4>2, <5>1, <5>2, SMTT(40)
        <5> QED BY <2>8, <3>2, <5>1, <5>3, Zenon DEF Hole
      <4>3. CASE ~(k <= after)
        <5>1. j > after + 1 /\ after < k BY <2>5, <2>6, <3>1, <4>1, <4>3, SMTT(40)
        <5>2. Queues(n, <<Request(f.from, after)>>) /\ <<Request(f.from, after)>> \in Seq(Payload)
          BY <2>4, <4>1, <5>1, Zenon
        <5>3. PICK B \in Seq(Payload) : B = <<Request(f.from, after)>> BY <5>2, Zenon
        <5>4. Queues(n, B) /\ Len(B) = 1 /\ B[1] = Request(a, after) BY <2>8, <5>2, <5>3, Zenon
        <5>5. 1 \in 1 .. Len(B) /\ a \in Nodes \ {n} BY <2>8, <5>4
        <5> QED BY <2>1, <2>8, <5>1, <5>4, <5>5, <1>RequestComes, Zenon
      <4> QED BY <4>2, <4>3, Zenon
    <3> QED BY <3>1, <3>2, <3>3, <3>4, Zenon
  <2> QED BY <2>7, <2>8, Zenon

\* A batch opens no hole.
<1>BatchHoles.
    ASSUME IInv, NEW n \in Nodes, NEW f \in Around, f.body.kind = "batch", f.body.to = n,
           Learns(n, f.from, f.body.seqs),
           NEW m \in Nodes, NEW a \in Nodes, NEW k \in 1 .. MaxSeq, Hole(m, a, k)'
    PROVE  Hole(m, a, k)
  <2> USE <1>BatchHoles
  <2>1. Typed /\ Written BY Zenon DEF IInv
  <2>2. f \in Frames /\ f.from \in Nodes BY <2>1, AroundFrames, Zenon DEF Frames
  <2>3. CASE m # n \/ a # f.from
    <3>1. known'[m][a] = known[m][a] BY <2>3, Zenon DEF Learns
    <3> QED BY <3>1, Zenon DEF Hole
  <2>4. CASE m = n /\ a = f.from
    <3>1. PICK j \in known'[n][a] : j > k BY <2>4, Zenon DEF Hole
    <3>2. k \notin known'[n][a] /\ known'[n][a] = known[n][a] \cup f.body.seqs BY <2>4, Zenon DEF Hole, Learns
    <3>3. CASE j \in known[n][a] BY <2>4, <3>1, <3>2, <3>3, Zenon DEF Hole
    <3>4. CASE j \in f.body.seqs
      <4>1. Means(f.from, f.body) BY <2>1, ZenonT(40) DEF Written
      <4>2. j \in 1 .. own[a] /\ own[a] \in Nat BY <2>1, <2>4, <3>4, <4>1, SMTT(40) DEF Means, Typed
      <4>3. k \in 1 .. j BY <3>1, <4>2
      <4>4. k \in f.body.seqs \/ \E i \in known[n][a] : i >= k BY <2>4, <3>4, <4>1, <4>3, Zenon DEF Means
      <4>5. PICK i \in known[n][a] : i >= k BY <3>2, <4>4, Zenon
      <4>6. i # k /\ i \in 1 .. own[a] BY <2>1, <3>2, <4>5, Zenon DEF Written
      <4>7. i > k BY <4>2, <4>5, <4>6
      <4> QED BY <2>4, <3>2, <4>5, <4>7, Zenon DEF Hole
    <3> QED BY <3>1, <3>2, <3>3, <3>4, Zenon
  <2> QED BY <2>3, <2>4, Zenon

\* The one frame a step of n makes seen.
<1>NewlySeen.
    ASSUME Typed, Named, NEW n \in Nodes, NEW f \in Around, seen' = [seen EXCEPT ![n] = seen[n] \cup {<<f.from, f.id>>}],
           NEW m \in Nodes, NEW g \in Around, <<g.from, g.id>> \in seen'[m] \ seen[m]
    PROVE  m = n /\ g = f
  <2> USE <1>NewlySeen
  <2>1. seen \in [Nodes -> SUBSET Ids] BY Zenon DEF Typed
  <2>2. m = n /\ <<g.from, g.id>> = <<f.from, f.id>> BY <2>1, Zenon
  <2>3. g.from = f.from /\ g.id = f.id BY <2>2, Zenon
  <2> QED BY <2>2, <2>3, Zenon DEF Named

\* What was seen stays seen.
<1>SeesOne.
    ASSUME Typed, NEW n \in Nodes, NEW f \in Around, seen' = [seen EXCEPT ![n] = seen[n] \cup {<<f.from, f.id>>}]
    PROVE  /\ \A m \in Nodes : seen[m] \subseteq seen'[m] /\ seen'[m] \subseteq seen[m] \cup {<<g.from, g.id>> : g \in Around}
           /\ <<f.from, f.id>> \in seen'[n]
  <2> USE <1>SeesOne
  <2>1. seen \in [Nodes -> SUBSET Ids] BY Zenon DEF Typed
  <2> QED BY <2>1, Zenon

\* Asking a site for what follows the last change held of it leaves none of its changes
\* unasked for.
<1>AskComes.
    ASSUME IInv, Asked, Lasting, Remembers, NEW n \in Nodes, NEW B \in Seq(Payload), Queues(n, B),
           \A b \in Nodes \ {n} : \E i \in 1 .. Len(B) : B[i] = Request(b, ChangeLogMax(known[n][b])),
           NEW a \in Nodes \ {n}, NEW k \in 1 .. own[a]
    PROVE  k \in known'[n][a] \/ Coming(n, a, k)'
  <2> USE <1>AskComes
  <2>1. Typed /\ Named BY Zenon DEF IInv
  <2>2. own[a] \in 0 .. MaxSeq /\ MaxSeq \in Nat BY <2>1, ConstAssumption, Zenon DEF Typed, ConstAssumption
  <2>3. PICK after : after = ChangeLogMax(known[n][a]) BY Zenon
  <2>4. after \in 0 .. MaxSeq /\ (after = 0 \/ after \in known[n][a]) BY <2>1, <2>3, LastHeld, Zenon
  <2>5. CASE after < k
    <3>1. PICK j \in 1 .. Len(B) : B[j] = Request(a, after) BY <2>3, Zenon
    <3> QED BY <2>1, <2>5, <3>1, <1>RequestComes, Zenon
  <2>6. CASE ~(after < k) /\ k \notin known[n][a]
    <3>1. after \in known[n][a] /\ after > k
      <4>1. after # 0 BY <2>2, <2>6
      <4>2. after # k BY <2>4, <2>6, <4>1, Zenon
      <4> QED BY <2>2, <2>4, <2>6, <4>1, <4>2
    <3>2. Hole(n, a, k) BY <2>6, <3>1, Zenon DEF Hole
    <3>3. k \in 1 .. MaxSeq BY <2>2
    <3>4. Coming(n, a, k) BY <3>2, <3>3, Zenon DEF Asked
    <3> QED BY <3>4, <1>ComingStays, Zenon DEF Lasting
  <2> QED BY <2>5, <2>6, Zenon DEF Lasting

\* A 410 on the record channel: what is skipped is asked for.
<1>GoneAsked.      ASSUME IInv, Asked, NEW n \in Nodes, NEW c \in Chans, Gone(n, c) PROVE Asked'
  <2> USE <1>GoneAsked
  <2>0. Mesh \in Chans /\ Rec \in Chans BY Zenon DEF Chans
  <2>1. Typed /\ Placed /\ Written /\ Named BY Zenon DEF IInv
  <2>2. UNCHANGED <<own, known, unsent, log, lo, seen, key, held, lost, aged, faults>> /\ cursor[n][c] < lo[c]
    BY Zenon DEF Gone
  <2>3. c = Rec
    <3>1. cursor[n][Mesh] \in Nat BY <2>0, <2>1, Zenon DEF Typed
    <3>2. lo[Mesh] = 0 BY Zenon DEF Asked
    <3> QED BY <2>2, <3>1, <3>2 DEF Chans
  <2>4. AskAll(n) BY <2>3, Zenon DEF Gone, Resync
  <2>5. PICK B \in Seq(Payload) :
          /\ Queues(n, B)
          /\ \A a \in Nodes \ {n} : \E i \in 1 .. Len(B) : B[i] = Request(a, ChangeLogMax(known[n][a]))
    BY <2>1, <2>4, AskAllIs, Zenon
  <2>6. \A m \in Nodes : own[m] \in Nat BY <2>1, SMTT(40) DEF Typed
  <2>7. Remembers BY <2>2, <2>6 DEF Remembers
  <2>8. Lasting BY <2>2, <2>5, <1>GrowLasting, <1>QueuesGrows, ZenonT(40)
  <2>9. /\ pos' \in [Nodes -> [Chans -> Nat]]
        /\ \A m \in Nodes, d \in Chans : pos'[m][d] = IF m = n /\ d = c THEN lo[c] ELSE pos[m][d]
    BY <2>1, GoneIs, SMTT(40)
  <2>10. ASSUME NEW m \in Nodes, NEW d \in Chans PROVE pos'[m][d] \in Nat /\ pos'[m][d] <= Len(log[d])
    <3>1. pos[m][d] \in Nat /\ page[m][d] \in Nat /\ Len(log[d]) \in Nat /\ pos'[m][d] \in Nat BY <2>1, <2>9 DEF Typed
    <3>2. pos[m][d] <= page[m][d] /\ page[m][d] <= Len(log[d]) /\ lo[d] <= Len(log[d]) BY <2>1, Zenon DEF Placed
    <3>3. pos'[m][d] = pos[m][d] \/ pos'[m][d] = lo[d] BY <2>9, Zenon
    <3> QED BY <3>1, <3>2, <3>3, SMTT(40)
  <2>11. ASSUME NEW i \in 1 .. lo[Rec], NEW f, f = log[Rec][i] PROVE Past(n, f)'
    <3>1. lo[Rec] \in Nat /\ log[Rec] \in Seq(Frames) /\ lo[Rec] <= Len(log[Rec]) BY <2>0, <2>1, ZenonT(40) DEF Typed, Placed
    <3>2. i \in DOMAIN log[Rec] BY <3>1
    <3>3. f \in Elements(log[Rec]) BY <2>11, <3>2, Zenon DEF Elements
    <3>4. f \in Around /\ ChanOf(f) = Rec BY <2>0, <2>1, <3>3, PlacesAround, Zenon DEF Placed
    <3>5. f.body.kind = "changes" BY <3>4, Zenon DEF ChanOf, Rec, Mesh
    <3>6. CASE f.from = n BY <3>6, Zenon DEF Past, Settled
    <3>7. CASE f.from # n
      <4>1. PICK a : a = f.from BY Zenon
      <4>2. a \in Nodes \ {n} BY <2>1, <3>4, <3>7, <4>1, AroundFrames, Zenon DEF Frames
      <4>3. ASSUME NEW k \in f.body.seqs PROVE k \in known'[n][a] \/ Coming(n, a, k)'
        <5>1. k \in 1 .. own[a] BY <2>1, <3>4, <3>5, <4>1, <1>CarriedIsWritten, Zenon
        <5> QED BY <2>5, <2>7, <2>8, <4>2, <5>1, <1>AskComes, Zenon
      <4> QED BY <4>1, <4>3, Zenon DEF Past
    <3> QED BY <3>6, <3>7, Zenon
  <2>12. ASSUME NEW m \in Nodes, NEW d \in Chans, NEW i \in 1 .. pos'[m][d]
         PROVE  i <= pos[m][d] \/ (m = n /\ d = Rec /\ i \in 1 .. lo[Rec])
    <3>1. CASE m = n /\ d = c
      <4>1. pos'[m][d] = lo[Rec] BY <2>3, <2>9, <3>1, Zenon
      <4> QED BY <2>3, <3>1, <4>1, Zenon
    <3>2. CASE ~(m = n /\ d = c)
      <4>1. pos'[m][d] = pos[m][d] BY <2>9, <3>2, Zenon
      <4>2. pos[m][d] \in Nat BY <2>1, Zenon DEF Typed
      <4> QED BY <4>1, <4>2
    <3> QED BY <3>1, <3>2, Zenon
  <2>13. \A m, a \in Nodes : \A k \in 1 .. MaxSeq : Hole(m, a, k)' => Hole(m, a, k) BY <2>2, Zenon DEF Hole
  <2>14. Mesh # Rec BY Zenon DEF Mesh, Rec
  <2>15. \A m \in Nodes : \A i \in 1 .. pos'[m][Mesh] : i <= pos[m][Mesh] BY <2>0, <2>12, <2>14, Zenon
  <2>16. \A m \in Nodes : \A i \in 1 .. pos'[m][Rec] : i <= pos[m][Rec] \/ \A f : f = log[Rec][i] => Past(m, f)'
    BY <2>0, <2>11, <2>12, Zenon
  <2>17. Regains BY <2>2, <1>SameRegains, Zenon
  <2> QED BY <2>2, <2>8, <2>10, <2>13, <2>15, <2>16, <2>17, <1>AskedStays, ZenonT(40)

\* Opening a parked frame.
<1>HeldAsked.
    ASSUME IInv, Asked, NEW n \in Nodes, held[n] # <<>>, OpenHeld(n, Head(held[n])), UNCHANGED <<own, log, lo, seen, lost, aged, key>>,
           \A m \in Nodes, c \in Chans : pos'[m][c] \in Nat /\ pos'[m][c] <= pos[m][c]
    PROVE  Asked'
  <2> USE <1>HeldAsked
  <2>0. Mesh \in Chans /\ Rec \in Chans BY Zenon DEF Chans
  <2>1. Typed /\ Placed /\ Written /\ Named BY Zenon DEF IInv
  <2>2. PICK f : f = Head(held[n]) BY Zenon
  <2>3. held[n] \in Seq(Frames) BY <2>1, Zenon DEF Typed
  <2>4. f \in Elements(held[n]) BY <2>2, <2>3, ElementsTail
  <2>5. f \in Around /\ f.body.kind = "changes" /\ f.from # n BY <2>1, <2>4, PlacesAround, Zenon DEF Placed
  <2>6. OpenChanges(n, f) BY <2>2, Zenon DEF OpenHeld
  <2>7. PICK B \in Seq(Payload) : Queues(n, B) /\ Learns(n, f.from, f.body.seqs) /\ f.body.seqs \subseteq 1 .. own[f.from]
    BY <2>5, <2>6, OpenChangesSends, Zenon
  <2>8. f.from \in Nodes BY <2>1, <2>5, AroundFrames, Zenon DEF Frames
  <2>9. \A m, b \in Nodes : known[m][b] \subseteq known'[m][b] BY <2>1, <2>7, <2>8, LearnsWritten, ZenonT(40)
  <2>10. \A m \in Nodes : own[m] \in Nat BY <2>1, SMTT(40) DEF Typed
  <2>11. Remembers BY <2>9, <2>10 DEF Remembers
  <2>12. Lasting BY <2>7, <2>9, <1>GrowLasting, <1>QueuesGrows, Zenon
  <2>13. \A m, a \in Nodes : \A k \in 1 .. MaxSeq : Hole(m, a, k)' => Hole(m, a, k) \/ Coming(m, a, k)'
    BY <2>5, <2>6, <2>11, <1>OpenChangesHoles, Zenon
  <2>14. ASSUME NEW m \in Nodes, NEW c \in Chans
         PROVE  pos'[m][c] <= Len(log[c]) /\ \A i \in 1 .. pos'[m][c] : i <= pos[m][c]
    <3>1. pos[m][c] \in Nat /\ page[m][c] \in Nat /\ Len(log[c]) \in Nat BY <2>1 DEF Typed
    <3>2. pos[m][c] <= page[m][c] /\ page[m][c] <= Len(log[c]) BY <2>1, Zenon DEF Placed
    <3>3. pos'[m][c] \in Nat /\ pos'[m][c] <= pos[m][c] BY Zenon
    <3> QED BY <3>1, <3>2, <3>3, SMTT(40)
  <2>15. Regains BY <1>SameRegains, Zenon
  <2> QED BY <2>0, <2>12, <2>13, <2>14, <2>15, <1>AskedStays, Zenon

\* A crash after seen_insert, on the record channel, loses neither request nor answer.
<1>CrashInIngestAsked.      ASSUME IInv, Asked, NEW n \in Nodes, CrashInIngest(n, Rec) PROVE Asked'
  <2> USE <1>CrashInIngestAsked
  <2>0. Mesh \in Chans /\ Rec \in Chans BY Zenon DEF Chans
  <2>1. Typed /\ Placed /\ Written /\ Named BY Zenon DEF IInv
  <2>2. PICK f : f = log[Rec][pos[n][Rec] + 1] BY Zenon
  <2>3. /\ pos[n][Rec] < page[n][Rec] /\ Restart(n) /\ UNCHANGED <<known, outbox, sent>>
        /\ seen' = [seen EXCEPT ![n] = seen[n] \cup {<<f.from, f.id>>}]
    BY <2>2, Zenon DEF CrashInIngest
  <2>4. f \in Around /\ ChanOf(f) = Rec BY <2>0, <2>1, <2>2, <2>3, NextFrame, Zenon
  <2>5. f.body.kind = "changes" BY <2>4, Zenon DEF ChanOf, Rec, Mesh
  <2>6. UNCHANGED <<own, log, lo, aged, key>> BY <2>3, Zenon DEF Restart
  <2>7. \A m \in Nodes : \A g \in Around : <<g.from, g.id>> \in seen'[m] \ seen[m] => g.body.kind = "changes"
    BY <2>1, <2>3, <2>4, <2>5, <1>NewlySeen, Zenon
  <2>8. Delivers BY <2>3, <2>6, <2>7, Zenon DEF Delivers
  <2>9. Lasting BY <2>1, <2>3, <2>4, <2>6, <2>8, <1>SeesOne, Zenon DEF Lasting
  <2>10. \A m, a \in Nodes : \A k \in 1 .. MaxSeq : Hole(m, a, k)' => Hole(m, a, k) BY <2>3, Zenon DEF Hole
  <2>11. ASSUME NEW m \in Nodes, NEW c \in Chans
         PROVE  pos'[m][c] \in Nat /\ pos'[m][c] <= Len(log[c]) /\ \A i \in 1 .. pos'[m][c] : i <= pos[m][c]
    <3>1. pos[m][c] \in Nat /\ page[m][c] \in Nat /\ Len(log[c]) \in Nat BY <2>1 DEF Typed
    <3>2. pos[m][c] <= page[m][c] /\ page[m][c] <= Len(log[c]) BY <2>1, Zenon DEF Placed
    <3>3. pos' \in [Nodes -> [Chans -> Nat]] /\ pos'[m][c] <= pos[m][c] BY <2>1, <2>3, RestartIs, Zenon
    <3>4. pos'[m][c] \in Nat BY <3>3, Zenon
    <3> QED BY <3>1, <3>2, <3>3, <3>4, SMTT(40)
  <2>12. Regains BY <2>6, <1>SameRegains, Zenon
  <2> QED BY <2>0, <2>6, <2>9, <2>10, <2>11, <2>12, <1>AskedStays, Zenon

\* open_and_apply loses nothing: a request is answered, a batch is applied, and a hole
\* that opens is asked for.
<1>OpensAsked.
    ASSUME IInv, NEW n \in Nodes, NEW f \in Around, f.from # n, OpenAndApply(n, f), UNCHANGED <<own, log>>, Remembers,
           seen' = [seen EXCEPT ![n] = seen[n] \cup {<<f.from, f.id>>}]
    PROVE  /\ Lasting
           /\ \A m, a \in Nodes : \A k \in 1 .. MaxSeq : Hole(m, a, k)' => Hole(m, a, k) \/ Coming(m, a, k)'
  <2> USE <1>OpensAsked
  <2>1. Typed /\ Written /\ Named BY Zenon DEF IInv
  <2>2. f \in Frames /\ f.from \in Nodes /\ f.body \in Payload BY <2>1, AroundFrames, Zenon DEF Frames
  <2>3. PICK B \in Seq(Payload) : Opens(n, f, B) BY OpensIt, Zenon
  <2>4. /\ \A m \in Nodes : Elements(outbox[m]) \subseteq Elements(outbox'[m])
        /\ \A m, a \in Nodes : known[m][a] \subseteq known'[m][a]
    BY <2>3, <1>QueuesGrows, Zenon DEF Opens
  <2>5. SUFFICES ASSUME TRUE
                 PROVE  /\ f.body.to = n =>
                              /\ f.body.kind = "batch" => f.body.seqs \subseteq known'[n][f.from]
                              /\ f.body.kind = "request" =>
                                  \A k \in 1 .. own[n] : k > f.body.after =>
                                      \E g \in Elements(outbox'[n]) :
                                          /\ g.body.kind = "batch" /\ g.from = n /\ g.body.to = f.from /\ k \in g.body.seqs
                                          /\ <<g.from, g.id>> \notin seen'[f.from]
                        /\ \A m, a \in Nodes : \A k \in 1 .. MaxSeq : Hole(m, a, k)' => Hole(m, a, k) \/ Coming(m, a, k)'
    <3>1. \A m \in Nodes : \A g \in Around : <<g.from, g.id>> \in seen'[m] \ seen[m] => m = n /\ g = f
      BY <2>1, <1>NewlySeen, Zenon
    <3>2. Delivers BY <2>4, <2>5, <3>1, ZenonT(40) DEF Delivers
    <3>3. Lasting BY <2>1, <2>4, <3>2, <1>SeesOne, Zenon DEF Lasting
    <3> QED BY <2>5, <3>3, Zenon
  <2>6. CASE f.body.kind = "changes" /\ key[n] /\ OpenChanges(n, f)
    BY <2>6, <1>OpenChangesHoles, Zenon
  <2>7. CASE f.body.kind = "request" /\ f.body.to = n /\ Push(n, Answer(n, f.from, f.body.after)) /\ UNCHANGED known
    <3>1. PICK after : after = f.body.after BY Zenon
    <3>2. after \in Nat BY <2>2, <3>1, ConstAssumption DEF Payload, ConstAssumption
    <3>3. PICK ks : ks = {k \in 1 .. own[n] : k > after} BY Zenon
    <3>4. ASSUME NEW k \in 1 .. own[n], k > after
          PROVE  \E g \in Elements(outbox'[n]) :
                      /\ g.body.kind = "batch" /\ g.from = n /\ g.body.to = f.from /\ k \in g.body.seqs
                      /\ <<g.from, g.id>> \notin seen'[f.from]
      <4>1. k \in ks BY <3>3, <3>4, Zenon
      <4>2. PICK A : A = Answer(n, f.from, after) BY Zenon
      <4>3. A \in Seq(Payload) /\ A = <<Batch(f.from, ks)>> BY <2>1, <2>2, <3>2, <3>3, <4>1, <4>2, AnswerIs, Zenon
      <4>4. Queues(n, A) BY <2>1, <2>7, <3>1, <4>2, <4>3, PushIs, ZenonT(40)
      <4>5. PICK g : g \in NewFrames(n, A) /\ g.from = n /\ g.body = Batch(f.from, ks)
        <5>1. Len(A) = 1 /\ A[1] = Batch(f.from, ks) BY <4>3, Zenon
        <5>2. [from |-> n, id |-> sent[n] + 1, body |-> A[1]] \in NewFrames(n, A) BY <5>1 DEF NewFrames
        <5> QED BY <5>1, <5>2
      <4>6. g \in Elements(outbox'[n]) BY <4>4, <4>5, Zenon DEF Queues
      <4>7. <<g.from, g.id>> \notin seen'[f.from] BY <2>1, <2>2, <4>3, <4>5, NewUnseen, ZenonT(40)
      <4>8. g.body.kind = "batch" /\ g.body.to = f.from /\ k \in g.body.seqs BY <4>1, <4>5 DEF Batch
      <4> QED BY <4>5, <4>6, <4>7, <4>8, Zenon
    <3>5. \A m, a \in Nodes : \A k \in 1 .. MaxSeq : Hole(m, a, k)' => Hole(m, a, k) BY <2>7, Zenon DEF Hole
    <3> QED BY <2>7, <3>1, <3>4, <3>5, Zenon
  <2>8. CASE f.body.kind = "batch" /\ f.body.to = n /\ known' = [known EXCEPT ![n][f.from] = @ \cup f.body.seqs]
    <3>1. f.body.seqs \in SUBSET (1 .. MaxSeq) BY <2>2, Zenon DEF Payload
    <3>2. Learns(n, f.from, f.body.seqs) BY <2>1, <2>2, <2>8, <3>1, LearnsIs, Zenon
    <3>3. f.body.seqs \subseteq known'[n][f.from] BY <3>2, Zenon DEF Learns
    <3>4. \A m, a \in Nodes : \A k \in 1 .. MaxSeq : Hole(m, a, k)' => Hole(m, a, k) BY <2>8, <3>2, <1>BatchHoles, Zenon
    <3> QED BY <2>8, <3>3, <3>4, Zenon
  <2>9. CASE (f.body.kind = "changes" \/ f.body.to # n) /\ UNCHANGED known
    <3>1. \A m, a \in Nodes : \A k \in 1 .. MaxSeq : Hole(m, a, k)' => Hole(m, a, k) BY <2>9, Zenon DEF Hole
    <3> QED BY <2>9, <3>1, Zenon
  <2> QED BY <2>1, <2>2, <2>6, <2>7, <2>8, <2>9, OpenAndApplyIs, ZenonT(40)

\* ingest keeps everything asked for.
<1>IngestAsked.      ASSUME IInv, Asked, NEW n \in Nodes, NEW c \in Chans, Ingest(n, c) PROVE Asked'
  <2> USE <1>IngestAsked
  <2>0. Mesh \in Chans /\ Rec \in Chans BY Zenon DEF Chans
  <2>1. Typed /\ Placed /\ Written /\ Named BY Zenon DEF IInv
  <2>2. PICK f : f = log[c][pos[n][c] + 1] BY Zenon
  <2>3. UNCHANGED <<own, log, lo, page, key, lost, aged>> BY Zenon DEF Ingest
  <2>4. /\ pos' \in [Nodes -> [Chans -> Nat]] /\ pos[n][c] < page[n][c]
        /\ \A m \in Nodes, d \in Chans :
              /\ pos'[m][d] <= page[m][d]
              /\ pos'[m][d] = IF m = n /\ d = c THEN pos[n][c] + 1 ELSE pos[m][d]
    BY <2>1, IngestMoves
  <2>5. f \in Around BY <2>1, <2>2, <2>4, NextFrame, Zenon
  <2>6. \A m \in Nodes : own[m] \in Nat BY <2>1 DEF Typed
  <2>7. /\ Lasting /\ Settled(n, f)'
        /\ \A m, a \in Nodes : \A k \in 1 .. MaxSeq : Hole(m, a, k)' => Hole(m, a, k) \/ Coming(m, a, k)'
    <3>1. CASE f.from = n \/ <<f.from, f.id>> \in seen[n]
      <4>1. UNCHANGED <<known, held, outbox, sent, seen>> BY <2>2, <3>1, Zenon DEF Ingest
      <4>2. Lasting BY <2>3, <4>1, <1>GrowLasting, Zenon
      <4>3. Settled(n, f)' BY <3>1, <4>1, Zenon DEF Settled
      <4>4. \A m, a \in Nodes : \A k \in 1 .. MaxSeq : Hole(m, a, k)' => Hole(m, a, k) BY <4>1, Zenon DEF Hole
      <4> QED BY <4>2, <4>3, <4>4, Zenon
    <3>2. CASE ~(f.from = n \/ <<f.from, f.id>> \in seen[n])
      <4>1. seen' = [seen EXCEPT ![n] = seen[n] \cup {<<f.from, f.id>>}] /\ OpenAndApply(n, f)
        BY <2>2, <3>2, Zenon DEF Ingest
      <4>2. /\ \A m \in Nodes : seen[m] \subseteq seen'[m] /\ seen'[m] \subseteq seen[m] \cup {<<g.from, g.id>> : g \in Around}
            /\ <<f.from, f.id>> \in seen'[n]
        BY <2>1, <2>5, <4>1, <1>SeesOne, Zenon
      <4>3. PICK B \in Seq(Payload) : Opens(n, f, B) BY <2>3, <2>5, <3>2, <4>1, OpensIt, Zenon
      <4>4. \A m, a \in Nodes : known[m][a] \subseteq known'[m][a] BY <4>3, Zenon DEF Opens
      <4>5. Remembers
        <5>1. \A m \in Nodes : own[m] <= own'[m] BY <2>3, <2>6
        <5> QED BY <2>3, <4>2, <4>4, <5>1, Zenon DEF Remembers
      <4>6. Settled(n, f)' BY <4>2, Zenon DEF Settled
      <4> QED BY <2>3, <2>5, <3>2, <4>1, <4>5, <4>6, <1>OpensAsked, ZenonT(40)
    <3> QED BY <3>1, <3>2, Zenon
  <2>8. ASSUME NEW m \in Nodes, NEW d \in Chans
        PROVE  /\ pos'[m][d] \in Nat /\ pos'[m][d] <= Len(log[d])
               /\ \A i \in 1 .. pos'[m][d] : i <= pos[m][d] \/ (m = n /\ log[d][i] = f)
    <3>1. pos[m][d] \in Nat /\ page[m][d] \in Nat /\ Len(log[d]) \in Nat /\ pos'[m][d] \in Nat BY <2>1, <2>4 DEF Typed
    <3>2. page[m][d] <= Len(log[d]) /\ pos'[m][d] <= page[m][d] BY <2>1, <2>4, Zenon DEF Placed
    <3>3. CASE m = n /\ d = c
      <4>1. pos'[m][d] = pos[m][d] + 1 BY <2>4, <3>3, Zenon
      <4>2. \A i \in 1 .. pos'[m][d] : i <= pos[m][d] \/ i = pos[m][d] + 1 BY <3>1, <4>1
      <4>3. \A i \in 1 .. pos'[m][d] : i <= pos[m][d] \/ (m = n /\ log[d][i] = f) BY <2>2, <3>3, <4>2, Zenon
      <4> QED BY <3>1, <3>2, <4>3
    <3>4. CASE ~(m = n /\ d = c)
      <4>1. pos'[m][d] = pos[m][d] BY <2>4, <3>4, Zenon
      <4> QED BY <3>1, <3>2, <4>1
    <3> QED BY <3>3, <3>4, Zenon
  <2>9. \A m \in Nodes : \A i \in 1 .. pos'[m][Mesh] :
          i <= pos[m][Mesh] \/ \A g : g = log[Mesh][i] => Settled(m, g)'
    BY <2>0, <2>7, <2>8, Zenon
  <2>10. Past(n, f)' BY <2>7, Zenon DEF Past
  <2>11. \A m \in Nodes : \A i \in 1 .. pos'[m][Rec] :
          i <= pos[m][Rec] \/ \A g : g = log[Rec][i] => Past(m, g)'
    BY <2>0, <2>8, <2>10, Zenon
  <2>12. Regains BY <2>3, <1>SameRegains, Zenon
  <2> QED BY <2>3, <2>7, <2>8, <2>9, <2>11, <2>12, <1>AskedStays, ZenonT(40)

<1> SUFFICES ASSUME IInv, Asked, [Next]_vars PROVE Asked' BY Zenon
<1>0. Typed /\ Placed BY Zenon DEF IInv
<1>1. ASSUME UNCHANGED pos PROVE \A m \in Nodes, c \in Chans : pos'[m][c] \in Nat /\ pos'[m][c] <= pos[m][c]
  <2> TAKE m \in Nodes, c \in Chans
  <2>1. pos[m][c] \in Nat BY <1>0, Zenon DEF Typed
  <2> QED BY <1>1, <2>1
<1>2. ASSUME UNCHANGED <<known, outbox, log, seen, lo, pos>>, Regains PROVE Asked' BY <1>1, <1>2, <1>GrowAsked, Zenon
<1>3. CASE UNCHANGED vars BY <1>2, <1>SameRegains, <1>3, Zenon DEF vars
<1>4. ASSUME NEW n \in Nodes, Commit(n) PROVE Asked' BY <1>2, <1>SameRegains, <1>4, Zenon DEF Commit
<1>5. ASSUME NEW n \in Nodes, NEW k \in unsent[n], TapDrop(n, k) PROVE Asked' BY <1>2, <1>SameRegains, <1>5, Zenon DEF TapDrop
<1>6. ASSUME NEW n \in Nodes, NEW k \in unsent[n], OnFrame(n, k) PROVE Asked'
  <2>1. UNCHANGED <<known, log, seen, lo, pos, aged, key>> /\ Push(n, <<Changes(n, k)>>) BY <1>6, Zenon DEF OnFrame
  <2>2. k \in 1 .. MaxSeq BY <1>0, Zenon DEF Typed
  <2>3. PICK B : B = <<Changes(n, k)>> BY Zenon
  <2>4. B \in Seq(Payload) BY <1>0, <2>2, <2>3, PayloadsAre, SMTT(40)
  <2>5. Queues(n, B) BY <1>0, <2>1, <2>3, <2>4, PushIs, Zenon
  <2>6. Regains BY <2>1, <1>SameRegains, Zenon
  <2> QED BY <1>1, <2>1, <2>5, <2>6, <1>QueuesGrows, <1>GrowAsked, ZenonT(40)
<1>7. ASSUME NEW n \in Nodes, DrainOnce(n) \/ DrainUnconfirmed(n) \/ DrainRefused(n) PROVE Asked'
  <2>1. outbox[n] # <<>> /\ UNCHANGED <<known, lo, pos, seen, aged, key>>
    BY <1>7, Zenon DEF DrainOnce, DrainUnconfirmed, DrainRefused
  <2>2. /\ \/ log' = [log EXCEPT ![ChanOf(Head(outbox[n]))] = Append(@, Head(outbox[n]))]
           \/ log' = log /\ ChanOf(Head(outbox[n])) = Rec
        /\ \/ outbox' = [outbox EXCEPT ![n] = Tail(@)]
           \/ outbox' = outbox
    BY <1>7, Zenon DEF DrainOnce, DrainUnconfirmed, DrainRefused
  <2> QED BY <2>1, <2>2, <1>DrainAsked, Zenon
<1>8. ASSUME NEW n \in Nodes, NEW c \in Chans, Fetch(n, c) PROVE Asked' BY <1>2, <1>SameRegains, <1>8, Zenon DEF Fetch
<1>9. ASSUME NEW n \in Nodes, NEW c \in Chans, Gone(n, c) \/ Ingest(n, c) PROVE Asked'
  BY <1>9, <1>GoneAsked, <1>IngestAsked, Zenon
<1>10. ASSUME NEW n \in Nodes, NEW c \in Chans, CrashInIngest(n, c) PROVE Asked'
  <2>1. c = Rec BY <1>10, Zenon DEF CrashInIngest
  <2> QED BY <1>10, <2>1, <1>CrashInIngestAsked, Zenon
<1>11. ASSUME NEW n \in Nodes, TakeKey(n) PROVE Asked'
  <2>1. /\ UNCHANGED <<own, known, log, seen, lo, pos, held, lost, aged>> /\ AskAll(n)
        /\ key' = [key EXCEPT ![n] = TRUE]
    BY <1>11, Zenon DEF TakeKey
  <2>2. PICK B \in Seq(Payload) :
          /\ Queues(n, B)
          /\ \A a \in Nodes \ {n} : \E i \in 1 .. Len(B) : B[i] = Request(a, ChangeLogMax(known[n][a]))
    BY <1>0, <2>1, AskAllIs, Zenon
  <2>3. key \in [Nodes -> BOOLEAN] /\ Written BY Zenon DEF IInv, Typed
  <2>4. (\A m \in Nodes : key[m] => key'[m]) /\ \A m \in Nodes \ {n} : key'[m] = key[m] BY <2>1, <2>3, Zenon
  <2>5. \A m \in Nodes : own[m] \in Nat BY <1>0, SMTT(40) DEF Typed
  <2>6. Remembers
    <3>1. \A m \in Nodes : own[m] <= own'[m] BY <2>1, <2>5
    <3> QED BY <2>1, <2>4, <3>1, Zenon DEF Remembers
  <2>7. Lasting BY <2>1, <2>2, <1>GrowLasting, <1>QueuesGrows, ZenonT(40)
  <2>8. ASSUME NEW f \in aged[n] PROVE Regained(n, f)'
    <3>1. f \in Frames BY <1>0, Zenon DEF Typed
    <3>2. f.from \in Nodes \ {n} /\ f.body.seqs \subseteq 1 .. own[f.from] BY <2>3, <3>1, Zenon DEF Written, Frames
    <3>3. \A k \in f.body.seqs : k \in known'[n][f.from] \/ Coming(n, f.from, k)'
      BY <2>2, <2>6, <2>7, <3>2, <1>AskComes, Zenon
    <3> QED BY <3>3, Zenon DEF Regained
  <2>9. Regains BY <2>1, <2>4, <2>8, Zenon DEF Regains
  <2> QED BY <1>1, <2>1, <2>2, <2>9, <1>QueuesGrows, <1>GrowAsked, Zenon
<1>12. ASSUME NEW n \in Nodes, ApplyHeld(n) PROVE Asked'
  <2>1. /\ held[n] # <<>> /\ OpenHeld(n, Head(held[n])) /\ UNCHANGED <<own, log, lo, seen, lost, aged, key, pos>>
    BY <1>12, Zenon DEF ApplyHeld
  <2> QED BY <1>1, <2>1, <1>HeldAsked, Zenon
<1>13. ASSUME NEW n \in Nodes, HeldPrune(n) PROVE Asked'
  <2>1. UNCHANGED <<known, outbox, log, seen, lo, pos, key>> /\ ~key[n] BY <1>13, Zenon DEF HeldPrune
  <2>2. aged' = [aged EXCEPT ![n] = aged[n] \cup {Head(held[n])}] BY <1>13, Zenon DEF HeldPrune
  <2>3. aged \in [Nodes -> SUBSET Frames] BY <1>0, Zenon DEF Typed
  <2>4. \A m \in Nodes : m = n \/ aged'[m] = aged[m] BY <2>2, <2>3, Zenon
  <2>5. \A f : Regained(n, f)' BY <2>1, Zenon DEF Regained
  <2>6. Regains BY <2>1, <2>4, <2>5, Zenon DEF Regains
  <2> QED BY <1>2, <2>1, <2>6, Zenon
<1>14. ASSUME NEW n \in Nodes, Restart(n) PROVE \A m \in Nodes, c \in Chans : pos'[m][c] \in Nat /\ pos'[m][c] <= pos[m][c]
  <2>1. pos' \in [Nodes -> [Chans -> Nat]] /\ \A m \in Nodes, c \in Chans : pos'[m][c] <= pos[m][c]
    BY <1>0, <1>14, RestartIs, Zenon
  <2> QED BY <2>1, Zenon
<1>15. ASSUME NEW n \in Nodes, Crash(n) PROVE Asked'
  <2>1. Restart(n) /\ UNCHANGED <<known, outbox, log, seen, lo, aged, key>> BY <1>15, Zenon DEF Crash, Restart
  <2> QED BY <1>14, <2>1, <1>SameRegains, <1>GrowAsked, Zenon
<1>16. ASSUME NEW n \in Nodes, CrashInApplyHeld(n) PROVE Asked'
  <2>1. /\ held[n] # <<>> /\ OpenHeld(n, Head(held[n])) /\ UNCHANGED <<own, log, lo, seen, lost, aged, key>> /\ Restart(n)
    BY <1>16, Zenon DEF CrashInApplyHeld, Restart
  <2> QED BY <1>14, <2>1, <1>HeldAsked, Zenon
<1>17. ASSUME NEW c \in Chans, Prune(c) PROVE Asked'
  <2>1. c = Rec /\ lo' = [lo EXCEPT ![c] = @ + 1] /\ UNCHANGED <<known, outbox, log, seen, pos, aged, key>>
    BY <1>17, Zenon DEF Prune
  <2>2. lo \in [Chans -> Nat] /\ Mesh # Rec /\ Mesh \in Chans BY <1>0, Zenon DEF Typed, Mesh, Rec, Chans
  <2>3. lo'[Mesh] = lo[Mesh] BY <2>1, <2>2, Zenon
  <2> QED BY <1>1, <2>1, <2>3, <1>SameRegains, <1>GrowAsked, Zenon
<1> QED
  BY <1>3, <1>4, <1>5, <1>6, <1>7, <1>8, <1>9, <1>10, <1>11, <1>12, <1>13, <1>15, <1>16, <1>17, ZenonT(40) DEF Next

\* Nothing is read or lost to begin with.
LEMMA InitAsked == Init => Asked
<1> SUFFICES ASSUME Init PROVE Asked BY Zenon
<1>1. \A n \in Nodes : pos[n][Mesh] = 0 /\ pos[n][Rec] = 0 BY Zenon DEF Init, Zero, Chans
<1>2. lo[Mesh] = 0 BY Zenon DEF Init, Chans
<1>3. \A n, a \in Nodes : known[n][a] = {} BY Zenon DEF Init
<1>4. \A n, a \in Nodes : \A k \in 1 .. MaxSeq : ~Hole(n, a, k) BY <1>3, Zenon DEF Hole
<1>5. \A n \in Nodes : 1 .. pos[n][Mesh] = {} /\ 1 .. pos[n][Rec] = {} BY <1>1
<1>6. \A n \in Nodes : aged[n] = {} BY Zenon DEF Init
<1> QED BY <1>2, <1>4, <1>5, <1>6, Zenon DEF Asked

\* What is to be read is read: it lies beyond what its reader has read of a channel
\* that loses nothing.
LEMMA ComingIsComing ==
    ASSUME IInv, Asked, NEW n \in Nodes, NEW a \in Nodes, NEW k, Coming(n, a, k)
    PROVE  BackfillComing(n, a, k)
<1>1. Typed /\ Placed /\ Written BY Zenon DEF IInv
<1>2. ASSUME NEW m \in Nodes, NEW f \in Elements(log[Mesh]), f.from # m, <<f.from, f.id>> \notin seen[m]
      PROVE  f \in Unread(m, Mesh)
  <2>1. Mesh \in Chans /\ log[Mesh] \in Seq(Frames) /\ pos[m][Mesh] \in Nat BY <1>1, Zenon DEF Typed, Chans
  <2>2. PICK i \in 1 .. Len(log[Mesh]) : f = log[Mesh][i] BY <2>1 DEF Elements
  <2>3. ~(i \in 1 .. pos[m][Mesh]) BY <1>2, <2>2, Zenon DEF Asked, Settled
  <2>4. i \in pos[m][Mesh] + 1 .. Len(log[Mesh]) /\ i > 0 BY <2>1, <2>3
  <2>5. i \in ToRead(m, Mesh) BY <2>4, Zenon DEF ToRead, Asked
  <2> QED BY <1>2, <2>2, <2>5, Zenon DEF Unread
<1>3. \A f \in Elements(log[Mesh]) : Means(f.from, f.body)
  BY <1>1, PlacesAround, Zenon DEF Written, Chans
<1>4. ASSUME NEW f \in Elements(outbox[n]) \cup Elements(log[Mesh]),
             f.body.kind = "request", f.from = n, f.body.to = a, f.body.after < k, <<f.from, f.id>> \notin seen[a]
      PROVE  BackfillComing(n, a, k)
  <2>1. f \in Elements(log[Mesh]) => f.from # a BY <1>3, <1>4, Zenon DEF Means
  <2>2. f \in Queued(n) \cup Unread(a, Mesh) BY <1>2, <1>4, <2>1, Zenon DEF Queued
  <2> QED BY <1>4, <2>2, Zenon DEF BackfillComing
<1>5. ASSUME NEW f \in Elements(outbox[a]) \cup Elements(log[Mesh]),
             f.body.kind = "batch", f.from = a, f.body.to = n, k \in f.body.seqs, <<f.from, f.id>> \notin seen[n]
      PROVE  BackfillComing(n, a, k)
  <2>1. f \in Elements(log[Mesh]) => f.from # n BY <1>3, <1>5, Zenon DEF Means
  <2>2. f \in Queued(a) \cup Unread(n, Mesh) BY <1>2, <1>5, <2>1, Zenon DEF Queued
  <2> QED BY <1>5, <2>2, Zenon DEF BackfillComing
<1> QED BY <1>4, <1>5, Zenon DEF Coming

\* While no request and no answer is lost, a change whose frame the hub dropped before a
\* node read it is asked for by the time the node's cursor is past it.
THEOREM SkippedAreAsked == ASSUME ControlLoss = {} PROVE Spec => []SkippedChangesAreAsked
<1>1. IInv /\ Asked => SkippedChangesAreAsked
  <2> SUFFICES ASSUME IInv, Asked, NEW n \in Nodes, NEW i \in 1 .. cursor[n][Rec], NEW k \in log[Rec][i].body.seqs,
                      log[Rec][i].from # n, <<log[Rec][i].from, log[Rec][i].id>> \notin seen[n],
                      k \notin known[n][log[Rec][i].from]
               PROVE  BackfillComing(n, log[Rec][i].from, k)
    BY Zenon DEF SkippedChangesAreAsked
  <2>1. Typed /\ Placed /\ Rec \in Chans BY ZenonT(40) DEF IInv, Chans
  <2>2. cursor[n][Rec] \in Nat /\ pos[n][Rec] \in Nat /\ page[n][Rec] \in Nat /\ log[Rec] \in Seq(Frames) BY <2>1 DEF Typed
  <2>3. cursor[n][Rec] <= pos[n][Rec] /\ pos[n][Rec] <= page[n][Rec] /\ page[n][Rec] <= Len(log[Rec]) BY <2>1, Zenon DEF Placed
  <2>4. i \in 1 .. pos[n][Rec] /\ i \in DOMAIN log[Rec] BY <2>2, <2>3
  <2>5. Past(n, log[Rec][i]) BY <2>4, Zenon DEF Asked
  <2>6. Coming(n, log[Rec][i].from, k) BY <2>5, Zenon DEF Past, Settled
  <2>7. log[Rec][i] \in Frames BY <2>2, <2>4
  <2>8. log[Rec][i].from \in Nodes BY <2>7, Zenon DEF Frames
  <2> QED BY <2>6, <2>8, ComingIsComing, Zenon
<1> QED BY <1>1, InitIInv, NextIInv, InitAsked, NextAsked, PTL DEF Spec

\* A frame a node has seen is opened or still parked, or was dropped for its age and its
\* change is known or asked for once the key is here; the queues, logs and cursors are
\* well formed.  Requests and answers are not lost; anything else may be lost, repeated
\* or interrupted.
THEOREM HeldAreOpened == ASSUME ControlLoss = {} PROVE Spec => []HeldFramesAreOpened
<1>1. IInv /\ Asked => HeldFramesAreOpened
  <2> SUFFICES ASSUME IInv, Asked PROVE HeldFramesAreOpened BY Zenon
  <2>1. Typed /\ Placed /\ Opened BY Zenon DEF IInv
  <2>2. TypeOK
    <3>1. ASSUME NEW n \in Nodes, NEW i \in DOMAIN outbox[n]
          PROVE  outbox[n][i].from = n /\ outbox[n][i].body \in Payload
      <4>1. outbox[n][i] \in Elements(outbox[n]) BY Zenon DEF Elements
      <4>2. outbox[n] \in Seq(Frames) BY <2>1, Zenon DEF Typed
      <4>3. outbox[n][i] \in Frames BY <4>2
      <4> QED BY <2>1, <4>1, <4>3, Zenon DEF Placed, Frames
    <3>2. \A c \in Chans : lo[c] \in 0 .. Len(log[c])
      <4>1. \A c \in Chans : lo[c] \in Nat /\ Len(log[c]) \in Nat BY <2>1 DEF Typed
      <4> QED BY <2>1, <4>1 DEF Placed
    <3>3. \A n \in Nodes, c \in Chans :
            cursor[n][c] <= pos[n][c] /\ pos[n][c] <= page[n][c] /\ page[n][c] <= Len(log[c])
      BY <2>1, Zenon DEF Placed
    <3> QED BY <2>1, <3>1, <3>2, <3>3, Zenon DEF TypeOK, Typed
  <2>3. ASSUME NEW n \in Nodes, NEW i \in 1 .. Len(log[Rec]), log[Rec][i].from # n,
               <<log[Rec][i].from, log[Rec][i].id>> \in seen[n] \ lost[n]
        PROVE  \/ key[n] /\ log[Rec][i].body.seqs \subseteq known[n][log[Rec][i].from]
               \/ \E j \in DOMAIN held[n] : held[n][j] = log[Rec][i]
               \/ /\ log[Rec][i] \in aged[n]
                  /\ key[n] => \A k \in log[Rec][i].body.seqs :
                        k \in known[n][log[Rec][i].from] \/ BackfillComing(n, log[Rec][i].from, k)
    <3>1. PICK f : f = log[Rec][i] BY Zenon
    <3>2. Rec \in Chans /\ log[Rec] \in Seq(Frames) BY <2>1, Zenon DEF Typed, Chans
    <3>3. f \in Elements(log[Rec]) BY <3>1, <3>2 DEF Elements
    <3>4. f \in Around BY <3>2, <3>3, PlacesAround, Zenon
    <3>5. ChanOf(f) = Rec BY <2>1, <3>2, <3>3, Zenon DEF Placed
    <3>6. f.body.kind = "changes" BY <3>5, Zenon DEF ChanOf, Rec, Mesh
    <3>7. (key[n] /\ f.body.seqs \subseteq known[n][f.from]) \/ f \in Elements(held[n]) \/ f \in aged[n]
      BY <2>1, <2>3, <3>1, <3>4, <3>6, Zenon DEF Opened
    <3>8. f \in Elements(held[n]) => \E j \in DOMAIN held[n] : held[n][j] = f BY Zenon DEF Elements
    <3>9. ASSUME f \in aged[n], key[n], NEW k \in f.body.seqs
          PROVE  k \in known[n][f.from] \/ BackfillComing(n, f.from, k)
      <4>1. k \in known[n][f.from] \/ Coming(n, f.from, k) BY <3>9, Zenon DEF Asked, Regained
      <4>2. f.from \in Nodes BY <2>1, <3>4, AroundFrames, Zenon DEF Frames
      <4> QED BY <4>1, <4>2, ComingIsComing, Zenon
    <3> QED BY <3>1, <3>7, <3>8, <3>9, Zenon
  <2> QED BY <2>2, <2>3, Zenon DEF HeldFramesAreOpened
<1> QED BY <1>1, InitIInv, NextIInv, InitAsked, NextAsked, PTL DEF Spec

===============================================================================
