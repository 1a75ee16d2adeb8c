--------------------------- MODULE FsFramesProofs ---------------------------
(***************************************************************************)
(* Proofs about FsFrames: an acknowledged frame is never overwritten, and  *)
(* without interrupted appends the files implement FrameLog; and, at the   *)
(* end, about Revokes.                                                     *)
(***************************************************************************)
EXTENDS FsFrames, Revokes, FiniteSetTheorems, TLAPS

\* Max and Min of a non-empty interval of integers.
LEMMA IntervalBounds ==
    ASSUME NEW a \in Int, NEW b \in Int, a <= b
    PROVE  Max(a .. b) = b /\ Min(a .. b) = a
<1>1. b \in a .. b /\ \A x \in a .. b : b >= x
  OBVIOUS
<1>2. a \in a .. b /\ \A x \in a .. b : a <= x
  OBVIOUS
<1>3. \A x \in a .. b : (\A y \in a .. b : x >= y) => x = b
  OBVIOUS
<1>4. \A x \in a .. b : (\A y \in a .. b : x <= y) => x = a
  OBVIOUS
<1> QED BY <1>1, <1>2, <1>3, <1>4, Zenon DEF Max, Min

-----------------------------------------------------------------------------
(* The inductive invariant *)

\* .seq is above every acknowledged frame, no file is above .seq, and an
\* append under way has written the seq the cache names.
CacheAhead ==
    /\ \A p \in acked : p[1] < seqFile
    /\ \A s \in DOMAIN files : seqFile # 0 => s <= seqFile
    /\ writing # NoAppend /\ seqFile # 0 => writing = seqFile

\* The files are those of an interval of sequence numbers that reaches the
\* cached one, or the one before it.
Interval(lo, hi) ==
    /\ DOMAIN files = lo .. hi
    /\ lo <= hi /\ seqFile # 0 => seqFile - 1 <= hi
    /\ writing # NoAppend => writing = hi

Contiguous == \E lo \in 1 .. MaxFrames + 1, hi \in 0 .. MaxFrames : Interval(lo, hi)

StoreInv == TypeOK /\ CacheAhead /\ Contiguous /\ AckedIsStored

\* A new store is empty.
LEMMA StoreInvInit == Init => StoreInv
<1> SUFFICES ASSUME Init PROVE StoreInv
  BY Zenon
<1>1. Interval(1, 0)
  BY DEF Init, Interval
<1>2. Contiguous
  BY <1>1, BoundAssumption DEF Contiguous
<1> QED BY <1>2, BoundAssumption DEF Init, StoreInv, TypeOK, CacheAhead, AckedIsStored

\* next_seq names a sequence number above every file when it scans, and the
\* cached one otherwise.
LEMMA NextSeqType ==
    ASSUME StoreInv, NEW lo \in 1 .. MaxFrames + 1, NEW hi \in 0 .. MaxFrames, Interval(lo, hi)
    PROVE  /\ NextSeq \in 1 .. MaxFrames + 1
           /\ seqFile # 0 => NextSeq = seqFile
           /\ seqFile = 0 /\ lo <= hi => NextSeq = hi + 1
           /\ seqFile = 0 /\ ~(lo <= hi) => NextSeq = 1
<1>1. CASE seqFile # 0
  BY <1>1, BoundAssumption DEF NextSeq, StoreInv, TypeOK
<1>2. CASE seqFile = 0 /\ lo <= hi
  <2>1. DOMAIN files # {} /\ Max(DOMAIN files) = hi
    BY <1>2, IntervalBounds DEF Interval
  <2> QED BY <1>2, <2>1, BoundAssumption DEF NextSeq
<1>3. CASE seqFile = 0 /\ ~(lo <= hi)
  <2>1. DOMAIN files = {}
    BY <1>3 DEF Interval
  <2> QED BY <1>3, <2>1, BoundAssumption DEF NextSeq
<1> QED BY <1>1, <1>2, <1>3, Zenon

\* Page.oldest, from the interval of the files.
LEMMA OldestType ==
    ASSUME StoreInv, NEW lo \in 1 .. MaxFrames + 1, NEW hi \in 0 .. MaxFrames, Interval(lo, hi)
    PROVE  /\ Oldest \in 0 .. MaxFrames + 1
           /\ lo <= hi => Oldest = lo
           /\ ~(lo <= hi) /\ NextSeq > 1 => Oldest = NextSeq
           /\ ~(lo <= hi) /\ ~(NextSeq > 1) => Oldest = 0
<1>1. CASE lo <= hi
  <2>1. DOMAIN files # {} /\ Min(DOMAIN files) = lo
    BY <1>1, IntervalBounds DEF Interval
  <2> QED BY <1>1, <2>1, BoundAssumption DEF Oldest
<1>2. CASE ~(lo <= hi)
  <2>1. DOMAIN files = {}
    BY <1>2 DEF Interval
  <2> QED BY <1>2, <2>1, NextSeqType, BoundAssumption DEF Oldest
<1> QED BY <1>1, <1>2, Zenon

\* The page a reader is given is an interval of at most PageLimit frames.
LEMMA PageInterval ==
    ASSUME StoreInv, NEW lo \in 1 .. MaxFrames + 1, NEW hi \in 0 .. MaxFrames, Interval(lo, hi),
           NEW r \in Readers
    PROVE  LET a == IF cursor[r] + 1 < lo THEN lo ELSE cursor[r] + 1
           IN \A s \in DOMAIN files : InPage(r, s) <=> s \in a .. a + PageLimit - 1
<1> DEFINE a == IF cursor[r] + 1 < lo THEN lo ELSE cursor[r] + 1
<1>1. cursor[r] \in Nat /\ a \in Nat /\ PageLimit \in Nat \ {0}
  BY BoundAssumption DEF StoreInv, TypeOK
<1> SUFFICES ASSUME NEW s \in DOMAIN files
             PROVE  InPage(r, s) <=> s \in a .. a + PageLimit - 1
  BY Zenon
<1>2. s \in lo .. hi /\ s \in Int
  BY DEF Interval
<1>3. {t \in DOMAIN files : cursor[r] < t /\ t <= s} = a .. s
  BY <1>1, <1>2 DEF Interval
<1>5. s > cursor[r] <=> a <= s
  BY <1>1, <1>2
<1> HIDE DEF a
<1>4. Cardinality(a .. s) = IF a > s THEN 0 ELSE s - a + 1
  <2>1. a \in Int /\ s \in Int
    BY <1>1, <1>2
  <2> QED BY <2>1, FS_Interval, Zenon
<1>6. Cardinality(a .. s) <= PageLimit /\ a <= s <=> s \in a .. a + PageLimit - 1
  BY <1>1, <1>2, <1>4
<1> QED BY <1>3, <1>5, <1>6, Zenon DEF InPage

\* Every step preserves the invariant, one case per action.
LEMMA StoreInvNext == StoreInv /\ [Next]_vars => StoreInv'
<1> SUFFICES ASSUME StoreInv, [Next]_vars PROVE StoreInv'
  BY Zenon
<1>1. PICK lo \in 1 .. MaxFrames + 1, hi \in 0 .. MaxFrames : Interval(lo, hi)
  BY Zenon DEF StoreInv, Contiguous
<1>2. ASSUME NEW e \in Envelopes, AppendFrame(e) PROVE StoreInv'
  <2>0. PICK n \in 1 .. MaxFrames : n = NextSeq
    BY <1>1, <1>2, NextSeqType, BoundAssumption DEF AppendFrame
  <2>1. /\ n \in 1 .. MaxFrames
        /\ seqFile # 0 => n = seqFile
        /\ seqFile = 0 /\ lo <= hi => n = hi + 1
        /\ seqFile = 0 /\ ~(lo <= hi) => n = 1
    BY <1>1, <2>0, NextSeqType, Zenon
  <2>2. /\ files' = [s \in DOMAIN files \cup {n} |-> IF s = n THEN e ELSE files[s]]
        /\ writing = NoAppend /\ writing' = n
        /\ UNCHANGED <<seqFile, cursor, got, gone, acked, crashes>>
    BY <1>2, <2>0, Zenon DEF AppendFrame, readerVars
  <2>3. DOMAIN files' = DOMAIN files \cup {n} /\ files'[n] = e
        /\ \A s \in DOMAIN files : s # n => files'[s] = files[s]
    BY <2>2, Zenon
  <2>4. TypeOK'
    BY <2>1, <2>2, <2>3, Zenon DEF StoreInv, TypeOK
  <2>5. CacheAhead'
    BY <2>1, <2>2, <2>3 DEF StoreInv, CacheAhead
  <2>6. Contiguous'
    <3>1. CASE lo <= hi
      <4>1. n = hi + 1 \/ n = hi
        <5>1. hi \in DOMAIN files
          BY <1>1, <3>1 DEF Interval
        <5>2. seqFile # 0 => hi <= seqFile /\ seqFile - 1 <= hi
          BY <1>1, <3>1, <5>1, Zenon DEF StoreInv, CacheAhead, Interval
        <5> QED BY <2>1, <3>1, <5>2
      <4>2. Interval(lo, n)'
        BY <1>1, <2>1, <2>2, <2>3, <3>1, <4>1 DEF Interval
      <4> QED BY <2>1, <4>2 DEF Contiguous
    <3>2. CASE ~(lo <= hi)
      <4>1. DOMAIN files = {}
        BY <1>1, <3>2 DEF Interval
      <4>2. Interval(n, n)'
        BY <2>1, <2>2, <2>3, <4>1 DEF Interval
      <4> QED BY <2>1, <4>2, BoundAssumption DEF Contiguous
    <3> QED BY <3>1, <3>2, Zenon
  <2>7. AckedIsStored'
    <3> SUFFICES ASSUME NEW p \in acked
                 PROVE  \/ p[1] \in DOMAIN files' /\ files'[p[1]] = p[2]
                        \/ \A s \in DOMAIN files' : s > p[1]
      BY <2>2, Zenon DEF AckedIsStored
    <3>1. p[1] < n /\ p[1] \in Nat
      BY <2>1 DEF StoreInv, CacheAhead, TypeOK
    <3> QED BY <2>1, <2>3, <3>1 DEF StoreInv, AckedIsStored
  <2> QED BY <2>4, <2>5, <2>6, <2>7, Zenon DEF StoreInv
<1>3. ASSUME AppendSeq PROVE StoreInv'
  <2>1. /\ writing # NoAppend /\ seqFile' = writing + 1 /\ writing' = NoAppend
        /\ acked' = acked \cup {<<writing, files[writing]>>}
        /\ UNCHANGED <<files, cursor, got, gone, crashes>>
    BY <1>3, Zenon DEF AppendSeq, readerVars, SeqAfter
  <2>2. writing \in DOMAIN files /\ writing = hi /\ writing \in 1 .. MaxFrames
    BY <1>1, <2>1, Zenon DEF StoreInv, TypeOK, Interval
  <2>3. TypeOK'
    BY <2>1, <2>2, BoundAssumption DEF StoreInv, TypeOK
  <2>4. CacheAhead'
    <3>1. \A p \in acked : p[1] < writing + 1 /\ p[1] \in Nat
      BY <2>1, <2>2 DEF StoreInv, CacheAhead, TypeOK
    <3>2. \A s \in DOMAIN files : s <= writing + 1
      BY <1>1, <2>2 DEF Interval
    <3> QED BY <2>1, <2>2, <3>1, <3>2 DEF CacheAhead
  <2>5. Interval(lo, hi)'
    BY <1>1, <2>1, <2>2 DEF Interval
  <2>6. AckedIsStored'
    BY <2>1, <2>2 DEF StoreInv, AckedIsStored
  <2> QED BY <2>3, <2>4, <2>5, <2>6, Zenon DEF StoreInv, Contiguous
<1>4. ASSUME Interrupt PROVE StoreInv'
  <2>1. /\ writing' = NoAppend /\ crashes' = crashes + 1 /\ crashes < MaxCrashes
        /\ UNCHANGED <<files, seqFile, cursor, got, gone, acked>>
    BY <1>4, Zenon DEF Interrupt, readerVars
  <2>2. Interval(lo, hi)'
    BY <1>1, <2>1, Zenon DEF Interval
  <2> QED BY <2>1, <2>2, BoundAssumption
          DEF StoreInv, TypeOK, CacheAhead, AckedIsStored, Contiguous
<1>5. ASSUME NEW keep \in 1 .. MaxFrames + 1, Prune(keep) PROVE StoreInv'
  <2>1. /\ writing = NoAppend
        /\ files' = [s \in {t \in DOMAIN files : t >= keep} |-> files[s]]
        /\ UNCHANGED <<seqFile, writing, cursor, got, gone, acked, crashes>>
    BY <1>5, Zenon DEF Prune, Keep, readerVars
  <2>2. DOMAIN files' = {t \in DOMAIN files : t >= keep}
        /\ \A s \in DOMAIN files' : files'[s] = files[s]
    BY <2>1, Zenon
  <2> DEFINE low == IF keep > lo THEN keep ELSE lo
  <2>3. Interval(low, hi)' /\ low \in 1 .. MaxFrames + 1
    BY <1>1, <2>1, <2>2, SMTT(40) DEF Interval
  <2>4. AckedIsStored'
    BY <2>1, <2>2, <1>1 DEF StoreInv, AckedIsStored, TypeOK, Interval
  <2>5. TypeOK' /\ CacheAhead'
    BY <2>1, <2>2, Zenon DEF StoreInv, TypeOK, CacheAhead
  <2> QED BY <2>3, <2>4, <2>5, Zenon DEF StoreInv, Contiguous
<1>6. ASSUME NEW r \in Readers, Read(r) PROVE StoreInv'
  <2> DEFINE pg == {s \in DOMAIN files : InPage(r, s)}
             a == IF cursor[r] + 1 < lo THEN lo ELSE cursor[r] + 1
             b == IF a + PageLimit - 1 < hi THEN a + PageLimit - 1 ELSE hi
  <2>1. /\ pg # {}
        /\ got' = [got EXCEPT ![r] = @ \cup {<<s, files[s]>> : s \in pg}]
        /\ cursor' = [cursor EXCEPT ![r] = Max(pg)]
        /\ UNCHANGED <<files, seqFile, writing, gone, acked, crashes>>
    BY <1>6, Zenon DEF Read
  <2>2. a \in Nat /\ b \in Int /\ a >= lo
    BY <1>1, BoundAssumption DEF StoreInv, TypeOK
  <2>3. pg = a .. b
    <3>1. \A s \in DOMAIN files : InPage(r, s) <=> s \in a .. a + PageLimit - 1
      BY <1>1, PageInterval, Zenon
    <3> QED BY <1>1, <2>2, <3>1, BoundAssumption DEF Interval
  <2>4. pg \subseteq DOMAIN files
    BY Zenon
  <2> HIDE DEF pg, a, b
  <2>5. a <= b /\ Max(pg) = b /\ b \in pg
    BY <2>1, <2>2, <2>3, IntervalBounds, SMTT(40)
  <2>6. TypeOK'
    BY <2>1, <2>4, <2>5 DEF StoreInv, TypeOK
  <2>7. Interval(lo, hi)'
    BY <1>1, <2>1, Zenon DEF Interval
  <2> QED BY <2>1, <2>6, <2>7, Zenon DEF StoreInv, CacheAhead, AckedIsStored, Contiguous
<1>7. ASSUME NEW r \in Readers, Gone(r) PROVE StoreInv'
  <2>1. /\ Oldest > 0 /\ cursor[r] + 1 < Oldest
        /\ gone' = [gone EXCEPT ![r] = @ \cup (cursor[r] + 1 .. Oldest - 1)]
        /\ cursor' = [cursor EXCEPT ![r] = Oldest - 1]
        /\ UNCHANGED <<files, seqFile, writing, got, acked, crashes>>
    BY <1>7, Zenon DEF Gone, Behind
  <2>2. Oldest \in 0 .. MaxFrames + 1
    BY <1>1, OldestType, Zenon
  <2>3. Oldest - 1 \in 0 .. MaxFrames /\ cursor[r] + 1 .. Oldest - 1 \subseteq 1 .. MaxFrames
    <3>1. cursor[r] \in Nat
      BY DEF StoreInv, TypeOK
    <3> HIDE DEF StoreInv
    <3> QED BY <2>1, <2>2, <3>1, BoundAssumption
  <2>4. TypeOK'
    BY <2>1, <2>3, Zenon DEF StoreInv, TypeOK
  <2>5. Interval(lo, hi)'
    BY <1>1, <2>1, Zenon DEF Interval
  <2> QED BY <2>1, <2>4, <2>5, Zenon DEF StoreInv, CacheAhead, AckedIsStored, Contiguous
<1>8. CASE UNCHANGED vars
  <2>1. Interval(lo, hi)'
    BY <1>1, <1>8, Zenon DEF Interval, vars
  <2> QED BY <1>8, <2>1, Zenon DEF vars, StoreInv, TypeOK, CacheAhead, AckedIsStored, Contiguous
<1> QED BY <1>2, <1>3, <1>4, <1>5, <1>6, <1>7, <1>8, Zenon DEF Next

\* The invariant holds in every reachable state, whatever is interrupted.
THEOREM StoreInvariant == Spec => []StoreInv
BY StoreInvInit, StoreInvNext, PTL DEF Spec

\* Type correctness of the store and its readers.
THEOREM StoreTypeCorrect == Spec => []TypeOK
<1>1. StoreInv => TypeOK
  BY Zenon DEF StoreInv
<1> QED BY StoreInvariant, <1>1, PTL

\* An acknowledged frame is never overwritten and is dropped only by
\* retention, even when appends are interrupted between their two writes.
THEOREM AckedStaysStored == Spec => []AckedIsStored
<1>1. StoreInv => AckedIsStored
  BY Zenon DEF StoreInv
<1> QED BY StoreInvariant, <1>1, PTL

-----------------------------------------------------------------------------
(* Without interrupted appends the files implement FrameLog *)

\* The seq of the append under way, or of the next one.
Upcoming == IF seqFile = 0 THEN 1 ELSE seqFile

\* No file is left over from an interrupted append, and no reader is past it.
Settled ==
    /\ \A s \in DOMAIN files : s # writing => s < Upcoming
    /\ writing # NoAppend => writing = Upcoming
    /\ \A r \in Readers : cursor[r] < Upcoming

WholeInv == StoreInv /\ Settled /\ AckedNeverSkipped

\* In a settled store next_seq is the upcoming sequence number and the frames
\* before it are an interval.
LEMMA SettledShape ==
    ASSUME StoreInv, Settled
    PROVE  /\ Upcoming \in 1 .. MaxFrames + 1
           /\ writing = NoAppend => NextSeq = Upcoming
           /\ \E lo \in 1 .. MaxFrames + 1 : Visible = lo .. Upcoming - 1
<1>1. PICK lo \in 1 .. MaxFrames + 1, hi \in 0 .. MaxFrames : Interval(lo, hi)
  BY Zenon DEF StoreInv, Contiguous
<1>2. Upcoming \in 1 .. MaxFrames + 1
  BY BoundAssumption DEF StoreInv, TypeOK, Upcoming
<1>3. ASSUME writing = NoAppend PROVE NextSeq = Upcoming
  <2>1. seqFile = 0 => ~(lo <= hi)
    <3> SUFFICES ASSUME seqFile = 0, lo <= hi PROVE FALSE
      BY Zenon
    <3>1. hi \in DOMAIN files
      BY <1>1 DEF Interval
    <3>2. hi # writing
      BY <1>3, NoAppendAssumption
    <3> QED BY <3>1, <3>2 DEF Settled, Upcoming
  <2> QED BY <1>1, <2>1, NextSeqType, Zenon DEF Upcoming
<1>4. \E l \in 1 .. MaxFrames + 1 : Visible = l .. Upcoming - 1
  <2>1. CASE ~(lo <= hi)
    <3>1. Visible = {}
      BY <1>1, <2>1 DEF Interval, Visible
    <3>2. Upcoming .. Upcoming - 1 = {}
      BY <1>2
    <3> QED BY <1>2, <3>1, <3>2, Zenon
  <2>2. CASE lo <= hi /\ writing = NoAppend
    <3>1. hi \in DOMAIN files /\ hi # writing
      BY <1>1, <2>2, NoAppendAssumption DEF Interval
    <3>2. hi < Upcoming /\ seqFile # 0
      BY <2>2, <3>1 DEF Settled, Upcoming
    <3>3. hi = Upcoming - 1
      BY <1>1, <1>2, <2>2, <3>2 DEF Interval, Upcoming, StoreInv, TypeOK
    <3>4. Visible = lo .. hi
      BY <1>1, <2>2, NoAppendAssumption DEF Interval, Visible
    <3> QED BY <3>3, <3>4, Zenon
  <2>3. CASE lo <= hi /\ writing # NoAppend
    <3>1. writing = hi /\ writing = Upcoming
      BY <1>1, <2>3, Zenon DEF Interval, Settled
    <3>2. Visible = lo .. hi - 1
      BY <1>1, <3>1 DEF Interval, Visible
    <3> QED BY <3>1, <3>2, Zenon
  <2> QED BY <2>1, <2>2, <2>3, Zenon
<1> QED BY <1>2, <1>3, <1>4, Zenon

\* What a reader that is not behind is given: the frames from its cursor on.
LEMMA ReadShape ==
    ASSUME StoreInv, Settled, NEW r \in Readers, Read(r)
    PROVE  \E b \in DOMAIN files :
              /\ b \in cursor[r] + 1 .. cursor[r] + PageLimit
              /\ b < Upcoming
              /\ Max({s \in DOMAIN files : InPage(r, s)}) = b
              /\ {s \in DOMAIN files : InPage(r, s)} = cursor[r] + 1 .. b
<1> DEFINE pg == {s \in DOMAIN files : InPage(r, s)}
           a == IF cursor[r] + 1 < Oldest THEN Oldest ELSE cursor[r] + 1
<1>1. PICK lo \in 1 .. MaxFrames + 1, hi \in 0 .. MaxFrames : Interval(lo, hi)
  BY Zenon DEF StoreInv, Contiguous
<1>2. /\ writing = NoAppend /\ ~Behind(r) /\ pg # {}
  BY Zenon DEF Read
<1>3. lo <= hi
  BY <1>1, <1>2 DEF Interval
<1>4. Oldest = lo
  BY <1>1, <1>3, OldestType, Zenon
<1>5. cursor[r] \in Nat /\ cursor[r] + 1 >= lo
  BY <1>2, <1>4 DEF Behind, StoreInv, TypeOK
<1>6. \A s \in DOMAIN files : InPage(r, s) <=> s \in cursor[r] + 1 .. cursor[r] + PageLimit
  BY <1>1, <1>5, PageInterval, BoundAssumption
<1> DEFINE b == IF cursor[r] + PageLimit < hi THEN cursor[r] + PageLimit ELSE hi
<1>7. pg = cursor[r] + 1 .. b /\ b \in Int
  BY <1>1, <1>5, <1>6, BoundAssumption DEF Interval
<1>8. b <= cursor[r] + PageLimit
  BY <1>5, BoundAssumption
<1> HIDE DEF b, pg
<1>1a. cursor[r] + 1 <= b /\ b \in pg
  BY <1>2, <1>5, <1>7
<1>10. Max(pg) = b
  BY <1>5, <1>7, <1>1a, IntervalBounds
<1>11. b \in DOMAIN files /\ b < Upcoming
  BY <1>2, <1>1a, NoAppendAssumption DEF pg, Settled, StoreInv, TypeOK
<1> QED BY <1>5, <1>7, <1>8, <1>1a, <1>10, <1>11, BoundAssumption, SMTT(40) DEF pg

\* The initial store is settled.
LEMMA WholeInvInit == Init => WholeInv
BY StoreInvInit DEF Init, WholeInv, Settled, Upcoming, AckedNeverSkipped

\* Every step keeps it so while no append is interrupted.
LEMMA WholeInvNext ==
    ASSUME WholeInv, [Next]_vars, crashes' = 0
    PROVE  WholeInv'
<1> SUFFICES Settled' /\ AckedNeverSkipped'
  BY StoreInvNext, Zenon DEF WholeInv
<1>0. /\ StoreInv /\ Settled /\ StoreInv'
      /\ Upcoming \in 1 .. MaxFrames + 1
      /\ writing = NoAppend => NextSeq = Upcoming
  BY StoreInvNext, SettledShape, Zenon DEF WholeInv
<1>2. ASSUME NEW e \in Envelopes, AppendFrame(e) PROVE Settled' /\ AckedNeverSkipped'
  <2>1. /\ DOMAIN files' = DOMAIN files \cup {Upcoming}
        /\ writing = NoAppend /\ writing' = Upcoming /\ Upcoming' = Upcoming
        /\ UNCHANGED <<cursor, got, gone, acked>>
    BY <1>0, <1>2, Zenon DEF AppendFrame, readerVars, Upcoming
  <2>2. Settled'
    BY <1>0, <2>1, NoAppendAssumption DEF Settled, StoreInv, TypeOK
  <2> QED BY <2>1, <2>2, Zenon DEF WholeInv, AckedNeverSkipped
<1>3. ASSUME AppendSeq PROVE Settled' /\ AckedNeverSkipped'
  <2>1. /\ writing = Upcoming /\ seqFile' = Upcoming + 1 /\ writing' = NoAppend
        /\ acked' = acked \cup {<<Upcoming, files[Upcoming]>>}
        /\ UNCHANGED <<files, cursor, got, gone>>
    BY <1>0, <1>3, Zenon DEF AppendSeq, readerVars, SeqAfter, Settled
  <2>2. Upcoming' = Upcoming + 1
    BY <1>0, <2>1, SMTT(40) DEF Upcoming
  <2>3. \A r \in Readers : cursor[r] \in Nat /\ cursor[r] < Upcoming
    BY <1>0 DEF StoreInv, TypeOK, Settled
  <2>4. Settled'
    BY <1>0, <2>1, <2>2, <2>3, SMTT(40) DEF Settled, StoreInv, TypeOK
  <2>5. AckedNeverSkipped'
    BY <1>0, <2>1, <2>3, SMTT(40) DEF WholeInv, AckedNeverSkipped
  <2> QED BY <2>4, <2>5, Zenon
<1>4. ASSUME Interrupt PROVE FALSE
  BY <1>0, <1>4 DEF Interrupt, StoreInv, TypeOK
<1>5. ASSUME NEW keep \in 1 .. MaxFrames + 1, Prune(keep) PROVE Settled' /\ AckedNeverSkipped'
  <2>1. /\ DOMAIN files' \subseteq DOMAIN files
        /\ UNCHANGED <<seqFile, writing, cursor, got, gone, acked>>
    BY <1>5, Zenon DEF Prune, Keep, readerVars
  <2> QED BY <2>1, Zenon DEF WholeInv, Settled, AckedNeverSkipped, Upcoming
<1>6. ASSUME NEW r \in Readers, Read(r) PROVE Settled' /\ AckedNeverSkipped'
  <2> DEFINE pg == {s \in DOMAIN files : InPage(r, s)}
  <2>1. PICK b \in DOMAIN files :
              /\ b \in cursor[r] + 1 .. cursor[r] + PageLimit
              /\ b < Upcoming
              /\ Max(pg) = b
              /\ pg = cursor[r] + 1 .. b
    BY <1>0, <1>6, ReadShape, Zenon
  <2>2. /\ got' = [got EXCEPT ![r] = @ \cup {<<s, files[s]>> : s \in pg}]
        /\ cursor' = [cursor EXCEPT ![r] = b]
        /\ UNCHANGED <<files, seqFile, writing, gone, acked>>
    BY <1>6, <2>1, Zenon DEF Read
  <2> HIDE DEF pg
  <2>3. Settled'
    BY <1>0, <2>1, <2>2, Zenon DEF Settled, Upcoming, StoreInv, TypeOK
  <2>4. ASSUME NEW q \in Readers, NEW p \in acked, p[1] <= cursor'[q]
        PROVE  p \in got'[q] \/ p[1] \in gone[q]
    <3>1. CASE q # r \/ p[1] <= cursor[r]
      BY <1>0, <2>2, <2>4, <3>1, Zenon DEF WholeInv, AckedNeverSkipped, StoreInv, TypeOK
    <3>2. CASE q = r /\ ~(p[1] <= cursor[r])
      <4>1. p = <<p[1], p[2]>> /\ p[1] \in Nat /\ cursor[r] \in Nat
        BY <1>0, SMTT(40) DEF StoreInv, TypeOK
      <4>2. p[1] \in pg
        BY <1>0, <2>1, <2>2, <2>4, <3>2, <4>1, SMTT(40) DEF StoreInv, TypeOK
      <4>3. p[1] \in DOMAIN files
        BY <4>2, Zenon DEF pg
      <4>4. files[p[1]] = p[2]
        BY <1>0, <4>1, <4>3 DEF StoreInv, AckedIsStored
      <4> QED BY <1>0, <2>2, <3>2, <4>1, <4>2, <4>4, Zenon DEF StoreInv, TypeOK
    <3> QED BY <3>1, <3>2, Zenon
  <2> QED BY <2>2, <2>3, <2>4, Zenon DEF AckedNeverSkipped
<1>7. ASSUME NEW r \in Readers, Gone(r) PROVE Settled' /\ AckedNeverSkipped'
  <2>1. /\ writing = NoAppend
        /\ Oldest > 0 /\ cursor[r] + 1 < Oldest
        /\ gone' = [gone EXCEPT ![r] = @ \cup (cursor[r] + 1 .. Oldest - 1)]
        /\ cursor' = [cursor EXCEPT ![r] = Oldest - 1]
        /\ UNCHANGED <<files, seqFile, writing, got, acked>>
    BY <1>7, Zenon DEF Gone, Behind
  <2>2. Oldest \in Nat /\ Oldest <= Upcoming
    <3>1. PICK lo \in 1 .. MaxFrames + 1, hi \in 0 .. MaxFrames : Interval(lo, hi)
      BY <1>0, Zenon DEF StoreInv, Contiguous
    <3>2. CASE lo <= hi
      <4>1. lo \in DOMAIN files /\ lo # writing /\ Oldest = lo
        BY <1>0, <2>1, <3>1, <3>2, OldestType, NoAppendAssumption, SMTT(40) DEF Interval
      <4> QED BY <1>0, <4>1 DEF Settled
    <3>3. CASE ~(lo <= hi)
      BY <1>0, <2>1, <3>1, <3>3, OldestType, SMTT(40)
    <3> QED BY <3>2, <3>3, Zenon
  <2>3. Settled'
    BY <1>0, <2>1, <2>2, SMTT(40) DEF Settled, Upcoming, StoreInv, TypeOK
  <2>4. ASSUME NEW q \in Readers, NEW p \in acked, p[1] <= cursor'[q]
        PROVE  p \in got[q] \/ p[1] \in gone'[q]
    BY <1>0, <2>1, <2>2, <2>4 DEF WholeInv, AckedNeverSkipped, StoreInv, TypeOK
  <2> QED BY <2>1, <2>3, <2>4, Zenon DEF AckedNeverSkipped
<1>8. CASE UNCHANGED vars
  BY <1>8, Zenon DEF vars, WholeInv, Settled, AckedNeverSkipped, Upcoming
<1> QED BY <1>2, <1>3, <1>4, <1>5, <1>6, <1>7, <1>8, Zenon DEF Next

\* Before the first interrupted append the store is settled.
UntilCrash == StoreInv /\ (crashes = 0 => WholeInv)

\* Interrupted appends are only ever added to.
LEMMA UntilCrashNext == UntilCrash /\ [Next]_vars => UntilCrash'
<1> SUFFICES ASSUME UntilCrash, [Next]_vars, crashes' = 0 PROVE WholeInv'
  BY StoreInvNext, Zenon DEF UntilCrash
<1>1. crashes \in Nat
  BY DEF UntilCrash, StoreInv, TypeOK
<1>2. crashes' = crashes \/ crashes' = crashes + 1
  BY Zenon DEF Next, AppendFrame, AppendSeq, Interrupt, Prune, Read, Gone, vars
<1> QED BY <1>1, <1>2, WholeInvNext DEF UntilCrash

\* Until an append is interrupted, no reader's cursor passes an acknowledged
\* frame it has neither been given nor been told is gone (get_frames, append).
THEOREM NothingSkipped == Spec => []AckedNotSkipped
<1>1. Init => UntilCrash
  BY WholeInvInit, Zenon DEF UntilCrash, WholeInv
<1>2. UntilCrash => AckedNotSkipped
  BY Zenon DEF UntilCrash, WholeInv, AckedNotSkipped
<1> QED BY <1>1, <1>2, UntilCrashNext, PTL DEF Spec

\* Every step of the disk store is a step of FrameLog, or changes nothing a
\* reader can see: writing the frame's file is invisible, writing .seq is
\* FrameLog's Append.
LEMMA StepRefines ==
    ASSUME WholeInv, [Next]_vars, crashes' = 0
    PROVE  [Log!Next]_(Log!vars)
<1> DEFINE fr == [s \in Visible |-> files[s]]
           nx == IF writing # NoAppend THEN writing ELSE NextSeq
<1>0. /\ StoreInv /\ Settled
      /\ Upcoming \in 1 .. MaxFrames + 1
      /\ writing = NoAppend => NextSeq = Upcoming
      /\ nx = Upcoming
  BY SettledShape, Zenon DEF WholeInv, Settled
<1>1. StoreInv' /\ Settled' /\ nx' = Upcoming'
  <2>1. WholeInv'
    BY WholeInvNext, Zenon
  <2>2. StoreInv' /\ Settled'
    BY <2>1, Zenon DEF WholeInv
  <2>3. (writing = NoAppend => NextSeq = Upcoming)'
    BY <2>2, SettledShape, PTL
  <2> QED BY <2>2, <2>3, Zenon DEF Settled
<1>1a. NoAppend \notin DOMAIN files
  BY <1>0, NoAppendAssumption DEF StoreInv, TypeOK
<1>2. ASSUME NEW e \in Envelopes, AppendFrame(e) PROVE UNCHANGED Log!vars
  <2>1. /\ files' = [s \in DOMAIN files \cup {Upcoming} |->
                        IF s = Upcoming THEN e ELSE files[s]]
        /\ writing = NoAppend /\ writing' = Upcoming /\ Upcoming' = Upcoming
        /\ UNCHANGED <<cursor, got, gone>>
    BY <1>0, <1>2, Zenon DEF AppendFrame, readerVars, Upcoming
  <2>2. Upcoming \notin DOMAIN files /\ NoAppend \notin DOMAIN files
    BY <1>0, <2>1, NoAppendAssumption DEF Settled, StoreInv, TypeOK
  <2>3. Visible' = Visible /\ Visible = DOMAIN files
    BY <2>1, <2>2, Zenon DEF Visible
  <2>4. fr' = fr
    BY <2>1, <2>2, <2>3, Zenon
  <2> HIDE DEF fr, nx
  <2>5. nx' = nx
    BY <1>0, <1>1, <2>1, Zenon
  <2> QED BY <2>1, <2>4, <2>5, Zenon DEF Log!vars, fr, nx
<1>3. ASSUME AppendSeq PROVE Log!Next
  <2>1. /\ writing = Upcoming /\ writing' = NoAppend /\ seqFile' = Upcoming + 1
        /\ UNCHANGED <<files, cursor, got, gone>>
    BY <1>0, <1>3, Zenon DEF AppendSeq, readerVars, SeqAfter, Settled
  <2>2. Upcoming' = Upcoming + 1
    BY <1>0, <2>1, SMTT(40) DEF Upcoming
  <2>3. Upcoming \in DOMAIN files /\ files[Upcoming] \in Envelopes /\ NoAppend \notin DOMAIN files
    BY <1>0, <1>3, <2>1, NoAppendAssumption DEF AppendSeq, StoreInv, TypeOK
  <2>4. Visible' = DOMAIN files /\ Visible = DOMAIN files \ {Upcoming}
    BY <2>1, <2>3, Zenon DEF Visible
  <2>5. fr' = [s \in Visible \cup {Upcoming} |-> IF s = Upcoming THEN files[Upcoming] ELSE fr[s]]
    BY <2>1, <2>3, <2>4, Zenon
  <2>6. DOMAIN fr = Visible
    BY Zenon
  <2> HIDE DEF fr, nx
  <2>7. PICK e \in Envelopes : e = files[Upcoming]
    BY <2>3, Zenon
  <2>8. Log!Append(e)
    BY <1>0, <1>1, <2>1, <2>2, <2>5, <2>6, <2>7, Zenon DEF Log!Append, fr, nx
  <2> QED BY <2>8, Zenon DEF Log!Next
<1>4. ASSUME Interrupt PROVE FALSE
  BY <1>0, <1>4 DEF Interrupt, StoreInv, TypeOK
<1>5. ASSUME NEW keep \in 1 .. MaxFrames + 1, Prune(keep) PROVE Log!Next \/ UNCHANGED Log!vars
  <2>1. /\ writing = NoAppend
        /\ files' = [s \in {t \in DOMAIN files : t >= keep} |-> files[s]]
        /\ UNCHANGED <<seqFile, writing, cursor, got, gone>>
    BY <1>5, Zenon DEF Prune, Keep, readerVars
  <2>2. Visible = DOMAIN files /\ Visible' = {t \in Visible : t >= keep}
    <3>1. Visible = DOMAIN files
      BY <1>1a, <2>1, Zenon DEF Visible
    <3>2. DOMAIN files' = {t \in DOMAIN files : t >= keep} /\ writing' = NoAppend
      BY <2>1, Zenon
    <3> QED BY <1>1a, <3>1, <3>2, Zenon DEF Visible
  <2>3. nx' = nx
    BY <1>0, <1>1, <2>1, Zenon DEF Upcoming
  <2>4. PICK lo \in 1 .. MaxFrames + 1 : Visible = lo .. Upcoming - 1
    BY <1>0, SettledShape, Zenon
  <2>5. fr' = [s \in {t \in Visible : t >= keep} |-> fr[s]] /\ DOMAIN fr = Visible
    BY <2>1, <2>2, Zenon
  <2> HIDE DEF fr, nx
  <2>6. CASE keep \in Visible
    <3>1. Log!Prune(keep)
      BY <2>1, <2>3, <2>5, Zenon DEF Log!Prune, fr, nx
    <3> QED BY <2>5, <2>6, <3>1, Zenon DEF Log!Next, fr
  <2>7. CASE keep >= Upcoming
    <3>1. {t \in Visible : t >= keep} = {t \in Visible : t >= nx}
      BY <1>0, <2>4, <2>7
    <3>2. PICK n : n = nx
      BY Zenon
    <3>3. Log!Prune(n)
      BY <2>1, <2>3, <2>5, <3>1, <3>2, Zenon DEF Log!Prune, fr, nx
    <3> QED BY <3>2, <3>3, Zenon DEF Log!Next, nx, fr
  <2>8. CASE keep < lo
    <3>1. {t \in Visible : t >= keep} = Visible
      BY <1>0, <2>4, <2>8
    <3>2. fr' = fr
      BY <2>5, <3>1, Zenon DEF fr
    <3> QED BY <2>1, <2>3, <3>2, Zenon DEF Log!vars, fr, nx
  <2> QED BY <1>0, <2>4, <2>6, <2>7, <2>8, SMTT(40)
<1>6. ASSUME NEW r \in Readers, Read(r) PROVE Log!Next
  <2> DEFINE pg == {s \in DOMAIN files : InPage(r, s)}
  <2>1. PICK b \in DOMAIN files :
              /\ b \in cursor[r] + 1 .. cursor[r] + PageLimit
              /\ b < Upcoming
              /\ Max(pg) = b
              /\ pg = cursor[r] + 1 .. b
    BY <1>0, <1>6, ReadShape, Zenon
  <2>2. /\ writing = NoAppend /\ ~Behind(r)
        /\ got' = [got EXCEPT ![r] = @ \cup {<<s, files[s]>> : s \in pg}]
        /\ cursor' = [cursor EXCEPT ![r] = b]
        /\ UNCHANGED <<files, seqFile, writing, gone>>
    BY <1>6, <2>1, Zenon DEF Read
  <2>3. Visible = DOMAIN files /\ Visible' = Visible
    BY <1>1a, <2>2, Zenon DEF Visible
  <2>4. fr' = fr /\ nx' = nx /\ DOMAIN fr = DOMAIN files
    BY <1>0, <1>1, <2>2, <2>3, Zenon DEF Upcoming
  <2>5. pg = {t \in DOMAIN fr : t > cursor[r] /\ t <= b} /\ \A s \in pg : fr[s] = files[s]
    <3>1. pg \subseteq DOMAIN files
      BY Zenon
    <3>2. cursor[r] \in Nat /\ DOMAIN files \subseteq Nat
      BY <1>0, SMTT(40) DEF StoreInv, TypeOK
    <3> HIDE DEF pg
    <3> QED BY <2>1, <2>3, <2>4, <3>1, <3>2
  <2>6. \A o \in DOMAIN fr \cup {0, nx} : Log!IsOldest(o) => o <= cursor[r] + 1
    <3> SUFFICES ASSUME NEW o \in DOMAIN fr \cup {0, nx}, Log!IsOldest(o)
                 PROVE  o <= cursor[r] + 1
      BY Zenon
    <3>1. PICK lo \in 1 .. MaxFrames + 1, hi \in 0 .. MaxFrames : Interval(lo, hi)
      BY <1>0, Zenon DEF StoreInv, Contiguous
    <3>2. lo <= hi /\ DOMAIN files = lo .. hi
      BY <2>1, <3>1 DEF Interval
    <3>3. Oldest = lo
      BY <1>0, <3>1, <3>2, OldestType, Zenon
    <3>4. o = lo
      <4>1. DOMAIN fr # {} /\ lo \in DOMAIN fr
        BY <2>4, <3>2
      <4>2. o \in DOMAIN fr /\ \A s \in DOMAIN fr : o <= s
        BY <4>1, Zenon DEF Log!IsOldest
      <4> QED BY <2>4, <3>2, <4>1, <4>2, SMTT(40)
    <3> QED BY <1>0, <2>2, <3>3, <3>4 DEF Behind, StoreInv, TypeOK
  <2> HIDE DEF fr, nx, pg
  <2>7. Log!Read(r, b)
    <3>1. got' = [got EXCEPT ![r] = @ \cup {<<s, fr[s]>> :
                            s \in {t \in DOMAIN fr : t > cursor[r] /\ t <= b}}]
      BY <2>2, <2>5, Zenon
    <3> QED BY <2>1, <2>2, <2>4, <2>6, <3>1, Zenon DEF Log!Read, fr, nx
  <2> QED BY <2>1, <2>4, <2>7, Zenon DEF Log!Next, fr
<1>7. ASSUME NEW r \in Readers, Gone(r) PROVE Log!Next
  <2>1. /\ writing = NoAppend
        /\ Oldest > 0 /\ cursor[r] + 1 < Oldest
        /\ gone' = [gone EXCEPT ![r] = @ \cup (cursor[r] + 1 .. Oldest - 1)]
        /\ cursor' = [cursor EXCEPT ![r] = Oldest - 1]
        /\ UNCHANGED <<files, seqFile, writing, got>>
    BY <1>7, Zenon DEF Gone, Behind
  <2>2. Visible = DOMAIN files /\ Visible' = Visible
    BY <1>1a, <2>1, Zenon DEF Visible
  <2>3. fr' = fr /\ nx' = nx /\ DOMAIN fr = DOMAIN files
    BY <1>0, <1>1, <2>1, <2>2, Zenon DEF Upcoming
  <2>4. Log!IsOldest(Oldest) /\ Oldest \in DOMAIN fr \cup {nx}
    <3>1. PICK lo \in 1 .. MaxFrames + 1, hi \in 0 .. MaxFrames : Interval(lo, hi)
      BY <1>0, Zenon DEF StoreInv, Contiguous
    <3>2. CASE lo <= hi
      <4>1. Oldest = lo /\ DOMAIN fr = lo .. hi
        BY <1>0, <2>3, <3>1, <3>2, OldestType, Zenon DEF Interval
      <4> HIDE DEF fr, nx
      <4>2. lo \in DOMAIN fr /\ \A s \in DOMAIN fr : lo <= s
        BY <3>2, <4>1
      <4> QED BY <4>1, <4>2, Zenon DEF Log!IsOldest, fr
    <3>3. CASE ~(lo <= hi)
      <4>1. DOMAIN fr = {}
        BY <2>3, <3>1, <3>3, SMTT(40) DEF Interval
      <4>2. Oldest = NextSeq /\ NextSeq > 1
        BY <1>0, <2>1, <3>1, <3>3, OldestType
      <4>3. nx = NextSeq
        BY <1>0, <2>1, Zenon
      <4> HIDE DEF fr, nx
      <4> QED BY <4>1, <4>2, <4>3, Zenon DEF Log!IsOldest, fr, nx
    <3> QED BY <3>2, <3>3, Zenon
  <2> HIDE DEF fr, nx
  <2>5. Log!Gone(r, Oldest)
    BY <2>1, <2>3, <2>4, Zenon DEF Log!Gone, fr, nx
  <2> QED BY <2>4, <2>5, Zenon DEF Log!Next, fr, nx
<1>8. CASE UNCHANGED vars
  BY <1>8, Zenon DEF vars, Log!vars, Visible, NextSeq
<1> QED BY <1>2, <1>3, <1>4, <1>5, <1>6, <1>7, <1>8, Zenon DEF Next

\* An empty store is an empty FrameLog.
LEMMA InitRefines == Init => Log!Init
<1> SUFFICES ASSUME Init PROVE Log!Init
  BY Zenon
<1>1. Visible = {} /\ NextSeq = 1 /\ writing = NoAppend
  BY Zenon DEF Init, Visible, NextSeq
<1> QED BY <1>1, Zenon DEF Init, Log!Init

\* Until an append is interrupted the disk store implements FrameLog, the
\* promise MemoryFrames keeps by construction.
THEOREM FsFramesImplementsFrameLog == Spec => ImplementsFrameLog
<1>1. Init => UntilCrash
  BY WholeInvInit, Zenon DEF UntilCrash, WholeInv
<1>2. UntilCrash /\ UntilCrash' /\ [Next]_vars
         => [crashes' = 0 => [Log!Next]_(Log!vars)]_vars
  <2> SUFFICES ASSUME UntilCrash, [Next]_vars, crashes' = 0
               PROVE  [Log!Next]_(Log!vars)
    BY Zenon
  <2>1. crashes = 0
    <3>1. crashes \in Nat
      BY DEF UntilCrash, StoreInv, TypeOK
    <3>2. crashes' = crashes \/ crashes' = crashes + 1
      BY Zenon DEF Next, AppendFrame, AppendSeq, Interrupt, Prune, Read, Gone, vars
    <3> QED BY <3>1, <3>2, SMTT(40)
  <2> QED BY <2>1, StepRefines, Zenon DEF UntilCrash
<1> QED BY <1>1, <1>2, InitRefines, UntilCrashNext, PTL DEF Spec, ImplementsFrameLog

\* A store none of whose appends is ever interrupted implements FrameLog.
THEOREM UninterruptedImplementsFrameLog ==
    ASSUME MaxCrashes = 0
    PROVE  Spec => Log!Spec
<1>1. WholeInv /\ [Next]_vars => crashes' = 0
  <2> SUFFICES ASSUME WholeInv, [Next]_vars PROVE crashes' = 0
    BY Zenon
  <2>1. StoreInv'
    BY StoreInvNext, Zenon DEF WholeInv
  <2> QED BY <2>1 DEF StoreInv, TypeOK
<1>2. WholeInv /\ [Next]_vars => WholeInv'
  BY <1>1, WholeInvNext, Zenon
<1>3. WholeInv /\ [Next]_vars => [Log!Next]_(Log!vars)
  BY <1>1, StepRefines, Zenon
<1> QED BY <1>2, <1>3, InitRefines, WholeInvInit, PTL DEF Spec, Log!Spec

-----------------------------------------------------------------------------
(* The delivery of a credential revoke, beside the frames' own state: module  *)
(* Revokes, for every number of attempts, copies in flight and faults and any *)
(* finite set of tasks.                                                       *)

\* The tasks that have read the row to need a send and have yet to count it.
BusyIn(jobs) == {k \in Tasks : jobs[k] \in {"queue", "mark"}}

\* n sends are counted and every busy task may add one.  A task becomes busy when it
\* has seen fewer than MaxAttempts, so the others are all that can go past that; the
\* HTTP handler looks at no count, but is idle until it has saved the removal.
Within(n, jobs, rem) ==
    /\ n + Cardinality(BusyIn(jobs)) <= MaxAttempts + Cardinality(Tasks) - 1
    /\ rem \in {"no", "saving"} =>
            /\ jobs["http"] = "idle"
            /\ n + Cardinality(BusyIn(jobs)) <= MaxAttempts + Cardinality(Tasks) - 2

\* A receipt is written once the peer has acted.
ReceiptIsTruth == (receipts > 0 => applied) /\ (st = "confirmed" => applied)

IInv == RevokeTypeOK /\ Within(tries, job, removal) /\ ReceiptIsTruth

-----------------------------------------------------------------------------
(* Counting busy tasks *)

\* There are finitely many tasks.
LEMMA TasksFinite ==
    /\ IsFiniteSet(Tasks) /\ Cardinality(Tasks) \in Nat
    /\ {"http", "pull"} \subseteq Tasks
<1>2. IsFiniteSet(Loops) BY ConstAssumption, Zenon DEF ConstAssumption
<1>3. Tasks = (Loops \cup {"http"}) \cup {"pull"} BY Zenon DEF Tasks
<1>4. IsFiniteSet(Tasks) BY <1>2, <1>3, FS_AddElement, Zenon
<1> QED BY <1>3, <1>4, FS_CardinalityType, Zenon

\* No more tasks are busy than there are, and one fewer while the HTTP handler is not.
LEMMA BusyCount ==
    ASSUME NEW j
    PROVE  /\ IsFiniteSet(BusyIn(j)) /\ Cardinality(BusyIn(j)) \in Nat
           /\ Cardinality(BusyIn(j)) <= Cardinality(Tasks)
           /\ j["http"] = "idle" => Cardinality(BusyIn(j)) <= Cardinality(Tasks) - 1
<1>1. BusyIn(j) \in SUBSET Tasks BY Zenon DEF BusyIn
<1>2. IsFiniteSet(BusyIn(j)) /\ Cardinality(BusyIn(j)) <= Cardinality(Tasks)
  BY <1>1, TasksFinite, FS_Subset, Zenon
<1>3. ASSUME j["http"] = "idle" PROVE Cardinality(BusyIn(j)) <= Cardinality(Tasks) - 1
  <2>1. BusyIn(j) \in SUBSET (Tasks \ {"http"}) BY <1>3, Zenon DEF BusyIn
  <2>2. IsFiniteSet(Tasks \ {"http"}) /\ Cardinality(Tasks \ {"http"}) = Cardinality(Tasks) - 1
    BY TasksFinite, FS_RemoveElement, Zenon
  <2>3. Cardinality(BusyIn(j)) <= Cardinality(Tasks \ {"http"})
    BY <2>1, <2>2, FS_Subset, Zenon
  <2> QED BY <2>2, <2>3, Zenon
<1> QED BY <1>2, <1>3, FS_CardinalityType, Zenon

\* A task that goes idle, or gives up, is busy no more; one that was counts one less.
LEMMA GoesIdle ==
    ASSUME NEW j \in [Tasks -> Jobs], NEW k \in Tasks, NEW v \in Jobs, v \notin {"queue", "mark"}
    PROVE  LET jj == [j EXCEPT ![k] = v]
           IN /\ Cardinality(BusyIn(jj)) <= Cardinality(BusyIn(j))
              /\ k \in BusyIn(j) => Cardinality(BusyIn(jj)) = Cardinality(BusyIn(j)) - 1
<1> DEFINE jj == [j EXCEPT ![k] = v]
<1>1. BusyIn(jj) = BusyIn(j) \ {k} BY Zenon DEF BusyIn
<1>2. IsFiniteSet(BusyIn(j)) /\ Cardinality(BusyIn(j)) \in Nat BY BusyCount, Zenon
<1>3. Cardinality(BusyIn(j) \ {k}) = IF k \in BusyIn(j) THEN Cardinality(BusyIn(j)) - 1 ELSE Cardinality(BusyIn(j))
  BY <1>2, FS_RemoveElement, Zenon
<1> HIDE DEF jj
<1>4. /\ Cardinality(BusyIn(jj)) <= Cardinality(BusyIn(j))
      /\ k \in BusyIn(j) => Cardinality(BusyIn(jj)) = Cardinality(BusyIn(j)) - 1
  BY <1>1, <1>2, <1>3, SMTT(40)
<1> QED BY <1>4, Zenon DEF jj

\* A task that has queued its revoke is as busy as before.
LEMMA StaysBusy ==
    ASSUME NEW j \in [Tasks -> Jobs], NEW k \in BusyIn(j), NEW n, NEW r, Within(n, j, r),
           j[k] # "idle"
    PROVE  Within(n, [j EXCEPT ![k] = "mark"], r)
<1>1. BusyIn([j EXCEPT ![k] = "mark"]) = BusyIn(j) BY Zenon DEF BusyIn
<1>2. r \in {"no", "saving"} => k # "http" BY Zenon DEF Within
<1>3. k \in Tasks BY Zenon DEF BusyIn
<1> QED BY <1>1, <1>2, <1>3, TasksFinite, Zenon DEF Within

\* A task that is done has counted at most one send more.
LEMMA DoneOnce ==
    ASSUME NEW j \in [Tasks -> Jobs], NEW k \in Tasks, NEW n \in Nat, NEW r, Within(n, j, r)
    PROVE  /\ Within(n, [j EXCEPT ![k] = "idle"], r)
           /\ k \in BusyIn(j) => Within(n + 1, [j EXCEPT ![k] = "idle"], r)
<1> DEFINE jj == [j EXCEPT ![k] = "idle"]
<1>1. /\ Cardinality(BusyIn(jj)) <= Cardinality(BusyIn(j))
      /\ k \in BusyIn(j) => Cardinality(BusyIn(jj)) = Cardinality(BusyIn(j)) - 1
  BY GoesIdle, Zenon DEF Jobs
<1>2. Cardinality(BusyIn(jj)) \in Nat /\ Cardinality(BusyIn(j)) \in Nat BY BusyCount, Zenon
<1>3. j["http"] = "idle" => jj["http"] = "idle" BY TasksFinite, Zenon
<1> HIDE DEF jj
<1>4. Within(n, jj, r)
  BY ConstAssumption, <1>1, <1>2, <1>3, TasksFinite, SMTT(40) DEF Within, ConstAssumption
<1>5. k \in BusyIn(j) => Within(n + 1, jj, r)
  BY ConstAssumption, <1>1, <1>2, <1>3, TasksFinite, SMTT(40) DEF Within, ConstAssumption
<1> QED BY <1>4, <1>5, Zenon DEF jj

\* A loop that means to send has read fewer than MaxAttempts.
LEMMA Judged ==
    ASSUME NEW s, NEW m \in Nat, NEW b
    PROVE  /\ Judge(s, m, b) \in {"idle", "abandon", "queue"}
           /\ Judge(s, m, b) = "queue" => m < MaxAttempts
BY ConstAssumption DEF Judge, ConstAssumption

\* What a loop reads the row to need: a send only while fewer than MaxAttempts are
\* counted, after a row that was given up is counted afresh.
LEMMA JudgedWithin ==
    ASSUME NEW j \in [Tasks -> Jobs], NEW k \in Tasks \ {"http"}, NEW n \in Nat, NEW m \in Nat, m <= n,
           NEW v \in {"idle", "abandon", "queue"}, v = "queue" => m < MaxAttempts,
           NEW r, Within(n, j, r), j[k] = "idle"
    PROVE  /\ [j EXCEPT ![k] = v] \in [Tasks -> Jobs]
           /\ Within(m, [j EXCEPT ![k] = v], r)
           /\ Within(m, j, r)
<1> DEFINE jj == [j EXCEPT ![k] = v]
<1>1. v \in {"idle", "abandon", "queue"} /\ (v = "queue" => m < MaxAttempts) BY Zenon
<1>2. jj \in [Tasks -> Jobs] /\ jj["http"] = j["http"]
  BY <1>1, TasksFinite, Zenon DEF Jobs
<1>3. v # "queue" => Cardinality(BusyIn(jj)) <= Cardinality(BusyIn(j))
  BY <1>1, GoesIdle, Zenon DEF Jobs
<1> HIDE DEF jj
<1>4. /\ Cardinality(BusyIn(jj)) \in Nat /\ Cardinality(BusyIn(j)) \in Nat
      /\ Cardinality(BusyIn(jj)) <= Cardinality(Tasks)
      /\ j["http"] = "idle" => Cardinality(BusyIn(jj)) <= Cardinality(Tasks) - 1
  BY <1>2, BusyCount, Zenon
<1>5. MaxAttempts \in Nat \ {0} /\ Cardinality(Tasks) \in Nat /\ m \in Nat /\ m <= n
  BY ConstAssumption, TasksFinite, Zenon DEF ConstAssumption
<1>6. Within(m, jj, r)
  BY <1>1, <1>2, <1>3, <1>4, <1>5, SMTT(40) DEF Within
<1>7. Within(m, j, r)
  BY <1>4, <1>5, SMTT(40) DEF Within
<1> QED BY <1>2, <1>6, <1>7, Zenon DEF jj

\* Sends stay within TypeOK's bound.
LEMMA SendsTyped ==
    ASSUME NEW j, NEW n \in Nat, NEW r, Within(n, j, r)
    PROVE  n \in 0 .. MaxAttempts + Cardinality(Tasks) - 1
BY ConstAssumption, BusyCount, TasksFinite DEF Within, ConstAssumption

-----------------------------------------------------------------------------
(* The inductive invariant *)

\* Types of what the steps count and pass on.
LEMMA Typed ==
    ASSUME IInv
    PROVE  /\ tries \in Nat /\ job \in [Tasks -> Jobs] /\ MaxFaults \in Nat /\ faults \in 0 .. MaxFaults
           /\ MaxInFlight \in Nat /\ toPeer \in 0 .. MaxInFlight /\ receipts \in 0 .. MaxInFlight
           /\ OneMore(toPeer) \in 0 .. MaxInFlight /\ OneMore(receipts) \in 0 .. MaxInFlight
           /\ Within(tries, job, removal)
<1>1. /\ MaxFaults \in Nat /\ MaxInFlight \in Nat
      /\ MaxAttempts \in Nat /\ Cardinality(Tasks) \in Nat
  BY ConstAssumption, TasksFinite, Zenon DEF ConstAssumption
<1>2. toPeer \in 0 .. MaxInFlight /\ receipts \in 0 .. MaxInFlight /\ faults \in 0 .. MaxFaults
      /\ tries \in 0 .. MaxAttempts + Cardinality(Tasks) - 1 /\ job \in [Tasks -> Jobs]
  BY Zenon DEF IInv, RevokeTypeOK
<1>3. tries \in Nat BY <1>1, <1>2
<1>4. OneMore(toPeer) \in 0 .. MaxInFlight /\ OneMore(receipts) \in 0 .. MaxInFlight
  BY <1>1, <1>2 DEF OneMore
<1> QED BY <1>1, <1>2, <1>3, <1>4, Zenon DEF IInv

\* A fault is counted up to its bound.
LEMMA FaultCounted ==
    ASSUME IInv, Fault
    PROVE  faults' \in 0 .. MaxFaults
BY Typed DEF Fault

\* Reading the oldest hello on its way ...
LEMMA FirstRead ==
    ASSUME NEW S, NEW q \in Seq(S), q # <<>>
    PROVE  Tail(q) \in Seq(S) /\ Len(Tail(q)) = Len(q) - 1 /\ Head(q) \in S /\ Len(q) \in Nat
OBVIOUS

\* ... and putting one more behind the others.
LEMMA OneAdded ==
    ASSUME NEW S, NEW q \in Seq(S), NEW e \in S
    PROVE  Append(q, e) \in Seq(S) /\ Len(Append(q, e)) = Len(q) + 1 /\ Len(q) \in Nat
OBVIOUS

\* Nothing is recorded before the removal.
LEMMA InitIInv == RevokeInit => IInv
<1> SUFFICES ASSUME RevokeInit PROVE IInv BY Zenon
<1>1. /\ MaxAttempts \in Nat \ {0} /\ MaxInFlight \in Nat /\ MaxFaults \in Nat /\ StartsOld \in BOOLEAN
      /\ Cardinality(Tasks) \in Nat
  BY ConstAssumption, TasksFinite, Zenon DEF ConstAssumption
<1>2. job \in [Tasks -> Jobs] /\ job["http"] = "idle" /\ BusyIn(job) = {}
  BY TasksFinite, Zenon DEF RevokeInit, Jobs, BusyIn
<1>3. Within(tries, job, removal)
  <2>1. Cardinality(BusyIn(job)) = 0 /\ Cardinality(Tasks) >= 1
    BY <1>1, <1>2, FS_EmptySet, BusyCount
  <2>2. tries = 0 BY Zenon DEF RevokeInit
  <2> QED BY <1>1, <1>2, <2>1, <2>2, SMTT(40) DEF Within
<1>4. tries \in 0 .. MaxAttempts + Cardinality(Tasks) - 1
  BY <1>3, SendsTyped, Zenon DEF RevokeInit
<1>5. /\ toPeer \in 0 .. MaxInFlight /\ receipts \in 0 .. MaxInFlight /\ faults \in 0 .. MaxFaults
      /\ hellos \in Seq(BOOLEAN) /\ Len(hellos) <= MaxInFlight
  BY <1>1 DEF RevokeInit
<1>6. /\ reads \in BOOLEAN /\ known \in BOOLEAN /\ applied \in BOOLEAN
      /\ up \in BOOLEAN /\ heard \in BOOLEAN /\ reach \in BOOLEAN
      /\ removal \in {"no", "saving", "saved", "failed"} /\ st \in Status
  BY <1>1, Zenon DEF RevokeInit, Status
<1>7. RevokeTypeOK BY <1>2, <1>4, <1>5, <1>6, Zenon DEF RevokeTypeOK
<1>8. ReceiptIsTruth BY DEF RevokeInit, ReceiptIsTruth
<1> QED BY <1>3, <1>7, <1>8, Zenon DEF IInv

\* The removal is recorded, saved, or taken back.
LEMMA RemovalKeeps ==
    ASSUME IInv, Create \/ Dispatch \/ SaveFails \/ Cancel
    PROVE  IInv'
<1>1. CASE Create
  <2>1. Within(tries', job', removal')
    BY <1>1, Typed, Zenon DEF Create, Within
  <2>2. RevokeTypeOK' BY <1>1, Zenon DEF Create, IInv, RevokeTypeOK, Status, peer, presence
  <2>3. ReceiptIsTruth' BY <1>1, Zenon DEF Create, IInv, ReceiptIsTruth, peer
  <2> QED BY <2>1, <2>2, <2>3, Zenon DEF IInv
<1>2. CASE Dispatch
  <2> DEFINE v == IF st \in {"none", "confirmed"} THEN "idle" ELSE "queue"
  <2>1. /\ removal = "saving" /\ removal' = "saved" /\ tries' = tries /\ st' = st
        /\ job' = [job EXCEPT !["http"] = v]
    BY <1>2, Zenon DEF Dispatch, row
  <2>2. v \in Jobs BY Zenon DEF Jobs
  <2> HIDE DEF v
  <2>3. job' \in [Tasks -> Jobs] BY <2>1, <2>2, Typed, Zenon
  <2>4. Within(tries', job', removal')
    <3>1. tries + Cardinality(BusyIn(job)) <= MaxAttempts + Cardinality(Tasks) - 2
      BY <2>1, Typed, Zenon DEF Within
    <3>2. Cardinality(BusyIn(job')) <= Cardinality(BusyIn(job)) + 1 /\ Cardinality(BusyIn(job')) \in Nat
      <4>1. BusyIn(job') \in SUBSET (BusyIn(job) \cup {"http"})
        BY <2>1, Typed, Zenon DEF BusyIn
      <4>2. /\ IsFiniteSet(BusyIn(job) \cup {"http"})
            /\ Cardinality(BusyIn(job) \cup {"http"}) <= Cardinality(BusyIn(job)) + 1
        <5>1. IsFiniteSet(BusyIn(job)) /\ Cardinality(BusyIn(job)) \in Nat BY BusyCount, Zenon
        <5>2. /\ IsFiniteSet(BusyIn(job) \cup {"http"})
              /\ Cardinality(BusyIn(job) \cup {"http"}) =
                    IF "http" \in BusyIn(job) THEN Cardinality(BusyIn(job)) ELSE Cardinality(BusyIn(job)) + 1
          BY <5>1, FS_AddElement, Zenon
        <5> QED BY <5>1, <5>2
      <4>3. Cardinality(BusyIn(job')) <= Cardinality(BusyIn(job) \cup {"http"})
        BY <4>1, <4>2, FS_Subset, Zenon
      <4>4. Cardinality(BusyIn(job) \cup {"http"}) \in Nat
        BY <4>2, FS_CardinalityType, Zenon
      <4> QED BY <4>2, <4>3, <4>4, BusyCount, SMTT(40)
    <3> QED BY ConstAssumption, <2>1, <3>1, <3>2, Typed, BusyCount, TasksFinite, SMTT(40) DEF Within, ConstAssumption
  <2>5. RevokeTypeOK' BY <1>2, <2>3, Zenon DEF Dispatch, IInv, RevokeTypeOK, row, peer, presence
  <2>6. ReceiptIsTruth' BY <1>2, Zenon DEF Dispatch, IInv, ReceiptIsTruth, row, peer
  <2> QED BY <2>4, <2>5, <2>6, Zenon DEF IInv
<1>3. CASE SaveFails \/ Cancel
  <2>1. /\ tries' = 0 /\ st' = "none" /\ job' = job /\ Fault
        /\ removal' = removal \/ removal' = "failed"
        /\ UNCHANGED <<toPeer, receipts, hellos, reads, applied, known, up, heard, reach>>
    BY <1>3, Zenon DEF SaveFails, Cancel, peer, presence
  <2>2. Within(0, job, removal)
    BY ConstAssumption, Typed, BusyCount, TasksFinite DEF Within, ConstAssumption
  <2>3. Within(tries', job', removal')
    BY <2>1, <2>2, Zenon DEF Within
  <2>4. tries' \in 0 .. MaxAttempts + Cardinality(Tasks) - 1
    BY <2>1, <2>3, SendsTyped, Zenon
  <2>5. faults' \in 0 .. MaxFaults BY <2>1, FaultCounted, Zenon
  <2>6. RevokeTypeOK' BY <2>1, <2>4, <2>5, Zenon DEF IInv, RevokeTypeOK, Status
  <2>7. ReceiptIsTruth' BY <2>1, Zenon DEF IInv, ReceiptIsTruth
  <2> QED BY <2>3, <2>6, <2>7, Zenon DEF IInv
<1> QED BY <1>1, <1>2, <1>3, Zenon

\* A task reads the row, queues, marks or gives up.
LEMMA DeliveryKeeps ==
    ASSUME IInv, NEW k \in Tasks,
           Reconcile(k) \/ HubUp(k) \/ Enqueue(k) \/ MarkSent(k) \/ EnqueueFails(k) \/ Abandon(k)
    PROVE  IInv'
<1> SUFFICES /\ tries' \in Nat /\ Within(tries', job', removal')
             /\ job' \in [Tasks -> Jobs] /\ st' \in Status /\ (st' = "confirmed" => st = "confirmed")
             /\ toPeer' \in 0 .. MaxInFlight /\ faults' \in 0 .. MaxFaults /\ up' \in BOOLEAN
             /\ UNCHANGED <<removal, receipts, hellos, reads, applied, known, heard, reach>>
  <2>1. tries' \in 0 .. MaxAttempts + Cardinality(Tasks) - 1 BY SendsTyped, Zenon
  <2>2. RevokeTypeOK' BY <2>1, Zenon DEF IInv, RevokeTypeOK
  <2>3. ReceiptIsTruth' BY Zenon DEF IInv, ReceiptIsTruth
  <2> QED BY <2>2, <2>3, Zenon DEF IInv
<1>0. st \in Status /\ up \in BOOLEAN BY Zenon DEF IInv, RevokeTypeOK
<1>1. CASE Reconcile(k) \/ HubUp(k)
  <2>1. PICK b : /\ k \in Tasks \ {"http"} /\ job[k] = "idle" /\ job' = [job EXCEPT ![k] = Judge(st, tries, b)]
                 /\ UNCHANGED <<removal, st, tries, toPeer, receipts, hellos, reads, applied, known, heard, reach, faults>>
                 /\ up' \in {up, TRUE}
    BY <1>1, Zenon DEF Reconcile, HubUp, row, peer, presence
  <2>2. job' \in [Tasks -> Jobs] /\ Within(tries, job', removal)
    <3> DEFINE v == Judge(st, tries, b)
    <3>1. v \in {"idle", "abandon", "queue"} /\ (v = "queue" => tries < MaxAttempts)
      BY Typed, Judged, Zenon
    <3> HIDE DEF v
    <3>2. job' = [job EXCEPT ![k] = v] BY <2>1, Zenon DEF v
    <3>3. tries \in Nat /\ tries <= tries /\ job \in [Tasks -> Jobs] /\ Within(tries, job, removal)
      BY Typed
    <3>4. k \in Tasks \ {"http"} /\ job[k] = "idle" BY <2>1, Zenon
    <3>5. [job EXCEPT ![k] = v] \in [Tasks -> Jobs] /\ Within(tries, [job EXCEPT ![k] = v], removal)
      BY <3>1, <3>3, <3>4, JudgedWithin, Zenon
    <3> QED BY <3>2, <3>5, Zenon
  <2> QED BY <1>0, <2>1, <2>2, Typed, Zenon
<1>2. CASE Enqueue(k)
  <2>1. /\ job[k] = "queue" /\ job' = [job EXCEPT ![k] = "mark"] /\ toPeer' = OneMore(toPeer)
        /\ UNCHANGED <<removal, st, tries, receipts, hellos, reads, applied, known, up, heard, reach, faults>>
    BY <1>2, Zenon DEF Enqueue, row, peer, presence
  <2>2. job' \in [Tasks -> Jobs] BY <2>1, Typed, Zenon DEF Jobs
  <2>3. k \in BusyIn(job) BY <2>1, Zenon DEF BusyIn
  <2>4. Within(tries, job', removal)
    BY <2>1, <2>3, Typed, StaysBusy, Zenon
  <2> QED BY <1>0, <2>1, <2>2, <2>4, Typed, Zenon
<1>3. CASE MarkSent(k) \/ EnqueueFails(k)
  <2>1. /\ job' = [job EXCEPT ![k] = "idle"] /\ k \in BusyIn(job)
        /\ UNCHANGED <<removal, toPeer, receipts, hellos, reads, applied, known, up, heard, reach>>
    BY <1>3, Zenon DEF MarkSent, EnqueueFails, BusyIn, peer, presence
  <2>2. (tries' = tries /\ st' = st) \/ (tries' = tries + 1 /\ st' \in {"sent", "offline"})
    BY <1>3, Zenon DEF MarkSent, EnqueueFails, Mark, row
  <2>3. faults' \in 0 .. MaxFaults
    BY <1>3, Typed, FaultCounted, Zenon DEF MarkSent, EnqueueFails
  <2>4. job' \in [Tasks -> Jobs] BY <2>1, Typed, Zenon DEF Jobs
  <2>5. Within(tries, job', removal) /\ Within(tries + 1, job', removal)
    BY <2>1, Typed, DoneOnce, Zenon
  <2>6. tries' \in Nat /\ Within(tries', job', removal')
    BY <2>1, <2>2, <2>5, Typed
  <2>7. st' \in Status /\ (st' = "confirmed" => st = "confirmed") BY <1>0, <2>2, Zenon DEF Status
  <2> QED BY <1>0, <2>1, <2>3, <2>4, <2>6, <2>7, Typed, Zenon
<1>4. CASE Abandon(k)
  <2>1. /\ job' = [job EXCEPT ![k] = "idle"] /\ st' \in {"abandoned", st}
        /\ UNCHANGED <<removal, tries, toPeer, receipts, hellos, reads, applied, known, up, heard, reach, faults>>
    BY <1>4, Zenon DEF Abandon, peer, presence
  <2>2. job' \in [Tasks -> Jobs] BY <2>1, Typed, Zenon DEF Jobs
  <2>3. Within(tries, job', removal) BY <2>1, Typed, DoneOnce, Zenon
  <2> QED BY <1>0, <2>1, <2>2, <2>3, Typed, Zenon DEF Status
<1> QED BY <1>1, <1>2, <1>3, <1>4, Zenon

\* The node restarts, the hub is down, the peer goes quiet, comes back or says hello: a row given up
\* is counted afresh and read again.
LEMMA PresenceKeeps ==
    ASSUME IInv, Restart \/ HubDown \/ FallsSilent \/ GoesQuiet \/ ComesBack \/ ReceiveHello
    PROVE  IInv'
<1> SUFFICES /\ tries' \in Nat /\ Within(tries', job', removal')
             /\ job' \in [Tasks -> Jobs] /\ st' \in Status /\ (st' = "confirmed" => st = "confirmed")
             /\ removal' \in {"no", "saving", "saved", "failed"}
             /\ hellos' \in Seq(BOOLEAN) /\ Len(hellos') <= MaxInFlight
             /\ known' \in BOOLEAN /\ faults' \in 0 .. MaxFaults
             /\ up' \in BOOLEAN /\ heard' \in BOOLEAN /\ reach' \in BOOLEAN
             /\ UNCHANGED <<toPeer, receipts, reads, applied>>
  <2>1. tries' \in 0 .. MaxAttempts + Cardinality(Tasks) - 1 BY SendsTyped, Zenon
  <2>2. RevokeTypeOK' BY <2>1, Zenon DEF IInv, RevokeTypeOK
  <2>3. ReceiptIsTruth' BY Zenon DEF IInv, ReceiptIsTruth
  <2> QED BY <2>2, <2>3, Zenon DEF IInv
<1>0. /\ st \in Status /\ removal \in {"no", "saving", "saved", "failed"}
      /\ hellos \in Seq(BOOLEAN) /\ Len(hellos) <= MaxInFlight
      /\ known \in BOOLEAN /\ up \in BOOLEAN /\ heard \in BOOLEAN /\ reach \in BOOLEAN
  BY Zenon DEF IInv, RevokeTypeOK
<1>1. CASE Restart
  <2>1. /\ job' = [k \in Tasks |-> "idle"] /\ Fault
        /\ removal' \in {"failed", removal} /\ up' = FALSE
        /\ UNCHANGED <<st, tries, toPeer, receipts, hellos, reads, applied, known, heard, reach>>
    BY <1>1, Zenon DEF Restart, row, peer
  <2>2. BusyIn(job') = {} /\ job' \in [Tasks -> Jobs] /\ job'["http"] = "idle"
    BY <2>1, TasksFinite, Zenon DEF BusyIn, Jobs
  <2>3. Cardinality(BusyIn(job')) <= Cardinality(BusyIn(job)) /\ Cardinality(BusyIn(job')) = 0
    BY <2>2, BusyCount, FS_EmptySet, SMTT(40)
  <2>4. Within(tries, job', removal')
    BY ConstAssumption, <2>1, <2>2, <2>3, Typed, BusyCount, TasksFinite, SMTT(40) DEF Within, ConstAssumption
  <2>5. faults' \in 0 .. MaxFaults BY <2>1, FaultCounted, Zenon
  <2> QED BY <1>0, <2>1, <2>2, <2>4, <2>5, Typed, Zenon
<1>2. CASE HubDown \/ FallsSilent \/ GoesQuiet
  <2>1. /\ Fault \/ faults' = faults
        /\ up' \in {up, FALSE} /\ heard' \in {heard, FALSE} /\ reach' \in {reach, FALSE}
        /\ UNCHANGED <<removal, st, tries, job, toPeer, receipts, hellos, reads, applied, known>>
    BY <1>2, Zenon DEF HubDown, FallsSilent, GoesQuiet, row, peer
  <2>2. faults' \in 0 .. MaxFaults BY <2>1, Typed, FaultCounted, Zenon
  <2> QED BY <1>0, <2>1, <2>2, Typed, Zenon
<1>3. ASSUME NEW k \in Tasks \ {"http"}, NEW again, NEW returning, job[k] = "idle",
             Rearm(k, again, returning), removal' = removal
      PROVE  /\ tries' \in Nat /\ Within(tries', job', removal')
             /\ job' \in [Tasks -> Jobs] /\ st' \in Status /\ (st' = "confirmed" => st = "confirmed")
  <2>1. /\ tries' \in {tries, 0} /\ st' \in {st, "pending"}
        /\ job' = job \/ job' = [job EXCEPT ![k] = Judge(st', tries', TRUE)]
    BY <1>3, Zenon DEF Rearm
  <2>2. tries' \in Nat /\ st' \in Status /\ (st' = "confirmed" => st = "confirmed")
    BY <1>0, <2>1, Typed, SMTT(40) DEF Status
  <2> DEFINE v == Judge(st', tries', TRUE)
  <2>3. v \in {"idle", "abandon", "queue"} /\ (v = "queue" => tries' < MaxAttempts)
    BY <2>2, Judged, Zenon
  <2>4. job' = job \/ job' = [job EXCEPT ![k] = v] BY <2>1, Zenon
  <2> HIDE DEF v
  <2>5. /\ [job EXCEPT ![k] = v] \in [Tasks -> Jobs]
        /\ Within(tries', [job EXCEPT ![k] = v], removal)
        /\ Within(tries', job, removal)
    <3>1. /\ tries \in Nat /\ tries' \in Nat /\ tries' <= tries
          /\ job \in [Tasks -> Jobs] /\ Within(tries, job, removal)
      BY <2>1, Typed
    <3> QED BY <1>3, <2>3, <3>1, JudgedWithin, Zenon
  <2> QED BY <1>3, <2>2, <2>4, <2>5, Typed, Zenon
<1>4. CASE ComesBack
  <2>1. /\ "tick" \in Tasks \ {"http"} /\ job["tick"] = "idle" /\ reach' = TRUE /\ Rearm("tick", TRUE, TRUE)
        /\ UNCHANGED <<removal, toPeer, receipts, hellos, reads, applied, known, up, heard, faults>>
    BY <1>4, Zenon DEF ComesBack, peer, Tasks
  <2> QED BY <1>0, <1>3, <2>1, Typed, Zenon
<1>5. CASE ReceiveHello
  <2>1. /\ job["pull"] = "idle" /\ hellos # <<>> /\ hellos' = Tail(hellos) /\ known' = Head(hellos)
        /\ heard' = TRUE /\ reach' = TRUE /\ Rearm("pull", ~reach \/ known # Head(hellos), ~reach)
        /\ UNCHANGED <<removal, toPeer, receipts, reads, applied, up, faults>>
    BY <1>5, Zenon DEF ReceiveHello, peer
  <2>2. hellos' \in Seq(BOOLEAN) /\ Len(hellos') <= MaxInFlight /\ known' \in BOOLEAN
    <3>1. /\ Tail(hellos) \in Seq(BOOLEAN) /\ Len(Tail(hellos)) = Len(hellos) - 1
          /\ Head(hellos) \in BOOLEAN /\ Len(hellos) \in Nat
      BY <1>0, <2>1, FirstRead, Zenon
    <3> QED BY <1>0, <2>1, <3>1, Typed, SMTT(40)
  <2>3. "pull" \in Tasks \ {"http"} BY TasksFinite, Zenon
  <2> QED BY <1>0, <1>3, <2>1, <2>2, <2>3, Typed, Zenon
<1> QED BY <1>1, <1>2, <1>4, <1>5, Zenon

\* The peer reads, upgrades and says hello, the hub loses frames, and a receipt
\* settles the row: none of them sends.
LEMMA PeerKeeps ==
    ASSUME IInv,
           \/ ReceiveReceipt \/ ReceiveRevoke \/ RevokeNotSaved \/ Upgrade \/ Hello \/ Lose
    PROVE  IInv'
<1> SUFFICES /\ UNCHANGED <<removal, tries, job, known, up, heard, reach>>
             /\ st' \in {st, "confirmed"} /\ (st' = "confirmed" => applied')
             /\ toPeer' \in 0 .. MaxInFlight /\ receipts' \in 0 .. MaxInFlight
             /\ (receipts' > 0 => applied')
             /\ hellos' \in Seq(BOOLEAN) /\ Len(hellos') <= MaxInFlight
             /\ reads' \in BOOLEAN /\ applied' \in BOOLEAN /\ faults' \in 0 .. MaxFaults
  <2>1. st' \in Status BY Zenon DEF IInv, RevokeTypeOK, Status
  <2>2. RevokeTypeOK' BY <2>1, Zenon DEF IInv, RevokeTypeOK
  <2>3. ReceiptIsTruth' BY Zenon DEF ReceiptIsTruth
  <2> QED BY <2>2, <2>3, Zenon DEF IInv
<1>0. /\ hellos \in Seq(BOOLEAN) /\ Len(hellos) <= MaxInFlight
      /\ reads \in BOOLEAN /\ applied \in BOOLEAN
      /\ (receipts > 0 => applied) /\ (st = "confirmed" => applied)
  BY Zenon DEF IInv, RevokeTypeOK, ReceiptIsTruth
<1>1. CASE ReceiveReceipt
  BY <1>0, <1>1, Typed DEF ReceiveReceipt, peer, presence
<1>2. CASE ReceiveRevoke
  <2>0. /\ toPeer \in 0 .. MaxInFlight /\ MaxInFlight \in Nat /\ receipts \in 0 .. MaxInFlight
        /\ OneMore(receipts) \in 0 .. MaxInFlight /\ faults \in 0 .. MaxFaults
    BY Typed, Zenon
  <2>1. /\ toPeer > 0 /\ toPeer' = toPeer - 1 /\ applied' = (applied \/ reads)
        /\ receipts' = IF reads THEN OneMore(receipts) ELSE receipts
        /\ UNCHANGED <<removal, st, tries, job, hellos, reads, known, up, heard, reach, faults>>
    BY <1>2, Zenon DEF ReceiveRevoke, row, presence
  <2>2. applied' \in BOOLEAN /\ (applied => applied') /\ (reads => applied')
    BY <1>0, <2>1, Zenon
  <2>3. toPeer' \in 0 .. MaxInFlight BY <2>1, <2>0
  <2>4. receipts' \in 0 .. MaxInFlight BY <2>1, <2>0, Zenon
  <2>5. receipts' > 0 => applied' BY <1>0, <2>1, <2>2, Zenon
  <2>6. st' = st /\ (st' = "confirmed" => applied') BY <1>0, <2>1, <2>2, Zenon
  <2> QED BY <1>0, <2>0, <2>1, <2>2, <2>3, <2>4, <2>5, <2>6, ZenonT(40)
<1>3. CASE RevokeNotSaved
  <2>0. toPeer \in 0 .. MaxInFlight /\ MaxInFlight \in Nat /\ receipts \in 0 .. MaxInFlight BY Typed, Zenon
  <2>1. /\ toPeer > 0 /\ toPeer' = toPeer - 1 /\ Fault
        /\ UNCHANGED <<removal, st, tries, job, receipts, hellos, reads, applied, known, up, heard, reach>>
    BY <1>3, Zenon DEF RevokeNotSaved, row, peer, presence
  <2>2. toPeer' \in 0 .. MaxInFlight BY <2>0, <2>1
  <2>3. faults' \in 0 .. MaxFaults BY <2>1, Typed, FaultCounted, Zenon
  <2>4. receipts' = receipts /\ applied' = applied /\ st' = st /\ hellos' = hellos /\ reads' = reads BY <2>1, Zenon
  <2> QED BY <1>0, <2>0, <2>1, <2>2, <2>3, <2>4, SMTT(40)
<1>4. CASE Upgrade
  BY <1>0, <1>4, Typed, Zenon DEF Upgrade, row, presence
<1>5. CASE Hello
  <2>1. /\ Len(hellos) < MaxInFlight /\ hellos' = Append(hellos, reads)
        /\ UNCHANGED <<removal, st, tries, job, toPeer, receipts, reads, applied, known, up, heard, reach, faults>>
    BY <1>5, Zenon DEF Hello, row, peer, presence
  <2>2. hellos' \in Seq(BOOLEAN) /\ Len(hellos') = Len(hellos) + 1 /\ Len(hellos) \in Nat
    BY <1>0, <2>1, OneAdded
  <2> QED BY <1>0, <2>1, <2>2, Typed, SMTT(40)
<1>6. CASE Lose
  <2>1. Fault /\ UNCHANGED <<removal, st, tries, job, reads, applied, known, up, heard, reach>>
    BY <1>6, Zenon DEF Lose, row, peer, presence
  <2>2. /\ toPeer' \in 0 .. MaxInFlight /\ receipts' \in 0 .. MaxInFlight /\ (receipts' > 0 => receipts > 0)
    BY <1>6, Typed, SMTT(40) DEF Lose
  <2>3. hellos' \in Seq(BOOLEAN) /\ Len(hellos') <= MaxInFlight
    <3>1. hellos # <<>> => /\ Tail(hellos) \in Seq(BOOLEAN) /\ Len(Tail(hellos)) = Len(hellos) - 1
                           /\ Len(hellos) \in Nat
      BY <1>0, FirstRead, Zenon
    <3>2. hellos' = hellos \/ (hellos # <<>> /\ hellos' = Tail(hellos))
      BY <1>6, Zenon DEF Lose
    <3>3. CASE hellos' = hellos BY <1>0, <3>3, Zenon
    <3>4. CASE hellos # <<>> /\ hellos' = Tail(hellos)
      BY <1>0, <3>1, <3>4, Typed, SMTT(40)
    <3> QED BY <3>2, <3>3, <3>4, Zenon
  <2> QED BY <1>0, <2>1, <2>2, <2>3, FaultCounted, Zenon
<1> QED BY <1>1, <1>2, <1>3, <1>4, <1>5, <1>6, Zenon

\* Every step keeps the invariant.
LEMMA NextIInv == IInv /\ [RevokeNext]_revokeVars => IInv'
<1> SUFFICES ASSUME IInv, [RevokeNext]_revokeVars PROVE IInv' BY Zenon
<1>1. CASE UNCHANGED revokeVars
  BY <1>1, Zenon DEF revokeVars, IInv, RevokeTypeOK, Within, BusyIn, ReceiptIsTruth
<1>2. CASE Create \/ Dispatch \/ SaveFails \/ Cancel
  BY <1>2, RemovalKeeps, Zenon
<1>3. ASSUME NEW k \in Tasks,
             Reconcile(k) \/ HubUp(k) \/ Enqueue(k) \/ MarkSent(k) \/ EnqueueFails(k) \/ Abandon(k)
      PROVE  IInv'
  BY <1>3, DeliveryKeeps, Zenon
<1>4. CASE Restart \/ HubDown \/ FallsSilent \/ GoesQuiet \/ ComesBack \/ ReceiveHello
  BY <1>4, PresenceKeeps, Zenon
<1>5. CASE ReceiveReceipt \/ ReceiveRevoke \/ RevokeNotSaved \/ Upgrade \/ Hello \/ Lose
  BY <1>5, PeerKeeps, Zenon
<1> QED BY <1>1, <1>2, <1>3, <1>4, <1>5, Zenon DEF RevokeNext

\* A revoke recorded as confirmed was acted on by the peer, for any number of sends,
\* losses, restarts and refused writes; and however reads, sends and re-arming
\* interleave, the sends go past REVOKE_MAX_ATTEMPTS by at most one for each other
\* task (confirm_credential_revoke, reconcile_credential_revokes).
THEOREM ConfirmedIsApplied == RevokeSpec => []ConfirmedWasApplied
<1>1. IInv => ConfirmedWasApplied
  BY Zenon DEF IInv, ReceiptIsTruth, ConfirmedWasApplied
<1> QED BY InitIInv, NextIInv, <1>1, PTL DEF RevokeSpec
=============================================================================
