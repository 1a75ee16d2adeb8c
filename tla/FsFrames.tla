------------------------------ MODULE FsFrames ------------------------------
(***************************************************************************)
(* The hub's frame store on disk (FsFrames of hub/src/store.rs): one file  *)
(* per frame and a file .seq that caches the next sequence, written one    *)
(* after the other under the store's lock.  The process may stop, or the   *)
(* second write may fail, between the two; the lock is then free again.    *)
(* One channel; FrameLog is what its readers are promised.                 *)
(***************************************************************************)
EXTENDS Integers, FiniteSetsExt

CONSTANTS
    Envelopes,
    Readers,
    PageLimit,
    MaxFrames,    \* bound: the largest sequence number
    MaxCrashes,   \* bound: appends interrupted between the two writes
    NoAppend      \* no append is under way

ASSUME BoundAssumption == PageLimit \in Nat \ {0} /\ MaxFrames \in Nat /\ MaxCrashes \in Nat
ASSUME NoAppendAssumption == NoAppend \notin Nat

VARIABLES
    files,      \* {root}/frames/{channel}/{seq}: seq -> envelope
    seqFile,    \* .seq, 0 when absent
    writing,    \* the seq an append holding the lock has written, or NoAppend
    cursor, got, gone,    \* the readers, as in FrameLog
    acked,      \* history: the <<seq, envelope>> of appends that returned
    crashes

vars == <<files, seqFile, writing, cursor, got, gone, acked, crashes>>
readerVars == <<cursor, got, gone>>

TypeOK ==
    /\ DOMAIN files \subseteq 1 .. MaxFrames
    /\ \A s \in DOMAIN files : files[s] \in Envelopes
    /\ seqFile \in 0 .. MaxFrames + 1
    /\ writing \in DOMAIN files \cup {NoAppend}
    /\ cursor \in [Readers -> 0 .. MaxFrames]
    /\ got \in [Readers -> SUBSET ((1 .. MaxFrames) \X Envelopes)]
    /\ gone \in [Readers -> SUBSET (1 .. MaxFrames)]
    /\ acked \subseteq (1 .. MaxFrames) \X Envelopes
    /\ crashes \in 0 .. MaxCrashes

Init ==
    /\ files = [s \in {} |-> CHOOSE e \in Envelopes : TRUE]
    /\ seqFile = 0
    /\ writing = NoAppend
    /\ cursor = [r \in Readers |-> 0]
    /\ got = [r \in Readers |-> {}]
    /\ gone = [r \in Readers |-> {}]
    /\ acked = {}
    /\ crashes = 0

\* next_seq: the cache, or a scan of the directory when it is absent.
NextSeq ==
    CASE seqFile # 0 -> seqFile
      [] seqFile = 0 /\ DOMAIN files # {} -> Max(DOMAIN files) + 1
      [] OTHER -> 1

\* append, first half: the frame's file, written and renamed into place.
AppendFrame(e) ==
    /\ writing = NoAppend /\ NextSeq <= MaxFrames
    /\ files' = [s \in DOMAIN files \cup {NextSeq} |-> IF s = NextSeq THEN e ELSE files[s]]
    /\ writing' = NextSeq
    /\ UNCHANGED <<seqFile, readerVars, acked, crashes>>

\* append, second half: .seq; the caller is told the seq.
SeqNotAdvanced(s) == s

SeqAfter(s) == s + 1

AppendSeq ==
    /\ writing # NoAppend
    /\ seqFile' = SeqAfter(writing)
    /\ acked' = acked \cup {<<writing, files[writing]>>}
    /\ writing' = NoAppend
    /\ UNCHANGED <<files, readerVars, crashes>>

\* The hub stops, or writing .seq fails, between the two halves.
Interrupt ==
    /\ writing # NoAppend /\ crashes < MaxCrashes
    /\ writing' = NoAppend
    /\ crashes' = crashes + 1
    /\ UNCHANGED <<files, seqFile, readerVars, acked>>

\* prune: oldest first, by age or until the channel is within its size.
KeepOld(keep) == {t \in DOMAIN files : t < keep}

Keep(keep) == {t \in DOMAIN files : t >= keep}

Prune(keep) ==
    /\ writing = NoAppend
    /\ files' = [s \in Keep(keep) |-> files[s]]
    /\ UNCHANGED <<seqFile, writing, readerVars, acked, crashes>>

\* Page.oldest: the lowest seq on disk, latest + 1 when all were pruned, 0
\* when there never was a frame.
Oldest ==
    CASE DOMAIN files # {} -> Min(DOMAIN files)
      [] DOMAIN files = {} /\ NextSeq > 1 -> NextSeq
      [] OTHER -> 0

\* get_frames: frames the reader was waiting for have been dropped.
BehindByTwo(r) == Oldest > 0 /\ cursor[r] + 2 < Oldest

Behind(r) == Oldest > 0 /\ cursor[r] + 1 < Oldest

\* read and get_frames: at most PageLimit frames after the cursor.
InPage(r, s) ==
    /\ s \in DOMAIN files /\ s > cursor[r]
    /\ Cardinality({t \in DOMAIN files : cursor[r] < t /\ t <= s}) <= PageLimit

Read(r) ==
    LET pg == {s \in DOMAIN files : InPage(r, s)}
    IN /\ writing = NoAppend
       /\ ~Behind(r)
       /\ pg # {}
       /\ got' = [got EXCEPT ![r] = @ \cup {<<s, files[s]>> : s \in pg}]
       /\ cursor' = [cursor EXCEPT ![r] = Max(pg)]
       /\ UNCHANGED <<files, seqFile, writing, gone, acked, crashes>>

\* get_frames answers 410 and pull_channel jumps to the oldest frame.
Gone(r) ==
    /\ writing = NoAppend
    /\ Behind(r)
    /\ gone' = [gone EXCEPT ![r] = @ \cup (cursor[r] + 1 .. Oldest - 1)]
    /\ cursor' = [cursor EXCEPT ![r] = Oldest - 1]
    /\ UNCHANGED <<files, seqFile, writing, got, acked, crashes>>

Next ==
    \/ \E e \in Envelopes : AppendFrame(e)
    \/ AppendSeq
    \/ Interrupt
    \/ \E keep \in 1 .. MaxFrames + 1 : Prune(keep)
    \/ \E r \in Readers : Read(r) \/ Gone(r)

Spec == Init /\ [][Next]_vars

-----------------------------------------------------------------------------
(* Properties *)

\* A frame whose append was acknowledged is on disk under its seq, unless
\* retention has dropped it and everything before it: later appends never
\* overwrite it, whatever append was interrupted before or after.
AckedIsStored ==
    \A p \in acked :
        \/ p[1] \in DOMAIN files /\ files[p[1]] = p[2]
        \/ \A s \in DOMAIN files : s > p[1]

\* "A hub outage therefore costs latency, never state" (node/src/mesh/
\* client.rs): a reader whose cursor has passed an acknowledged frame has
\* been given that frame, or has been told that it is gone.
AckedNeverSkipped ==
    \A r \in Readers : \A p \in acked :
        p[1] <= cursor[r] => p \in got[r] \/ p[1] \in gone[r]

\* The same, until an append is interrupted between its two writes.
AckedNotSkipped == crashes = 0 => AckedNeverSkipped

\* The frame an append under way has written is not a frame yet.
Visible == DOMAIN files \ {writing}

Log == INSTANCE FrameLog WITH
    frames <- [s \in Visible |-> files[s]],
    next   <- IF writing # NoAppend THEN writing ELSE NextSeq

\* Until an append is interrupted the files are a FrameLog: .seq and the frame
\* files move together, .seq is never behind, and 410 is answered exactly
\* when frames the reader has not been given were dropped.
ImplementsFrameLog ==
    Log!Init /\ [][crashes' = 0 => [Log!Next]_(Log!vars)]_vars
=============================================================================
