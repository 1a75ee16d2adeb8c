------------------------------ MODULE FrameLog ------------------------------
(***************************************************************************)
(* What the hub's FrameStore promises the readers of one channel (the      *)
(* trait and MemoryFrames of hub/src/store.rs, read through get_frames of  *)
(* hub/src/routes.rs): frames are numbered 1, 2, ... as they are appended; *)
(* retention drops the oldest; a reader is given the frames after its      *)
(* cursor in order, or is told (410) that the ones it is waiting for are   *)
(* gone.                                                                   *)
(***************************************************************************)
EXTENDS Integers

CONSTANTS
    Envelopes,
    Readers,
    PageLimit   \* frames in one page

VARIABLES
    frames,     \* seq -> envelope, of the frames still retained
    next,       \* the seq the next append gets
    cursor,     \* cursor[r]: the last seq reader r has been given
    got,        \* got[r]: the <<seq, envelope>> pairs r has been given
    gone        \* gone[r]: the seqs r has been told are gone

vars == <<frames, next, cursor, got, gone>>

Init ==
    /\ frames = [s \in {} |-> CHOOSE e \in Envelopes : TRUE]
    /\ next = 1
    /\ cursor = [r \in Readers |-> 0]
    /\ got = [r \in Readers |-> {}]
    /\ gone = [r \in Readers |-> {}]

\* MemoryFrames::append
Append(e) ==
    /\ frames' = [s \in DOMAIN frames \cup {next} |-> IF s = next THEN e ELSE frames[s]]
    /\ next' = next + 1
    /\ UNCHANGED <<cursor, got, gone>>

\* MemoryFrames::prune: by age or size, always oldest first.
Prune(keep) ==
    /\ frames' = [s \in {t \in DOMAIN frames : t >= keep} |-> frames[s]]
    /\ UNCHANGED <<next, cursor, got, gone>>

\* Lowest seq retained: next when everything has been dropped, 0 when there
\* never was a frame.
IsOldest(o) ==
    IF DOMAIN frames = {} THEN o = IF next > 1 THEN next ELSE 0
    ELSE o \in DOMAIN frames /\ \A s \in DOMAIN frames : o <= s

\* get_frames: the page after the cursor, up to seq last.
Read(r, last) ==
    /\ \A o \in DOMAIN frames \cup {0, next} : IsOldest(o) => o <= cursor[r] + 1
    /\ last \in cursor[r] + 1 .. cursor[r] + PageLimit
    /\ got' = [got EXCEPT ![r] = @ \cup {<<s, frames[s]>> :
                            s \in {t \in DOMAIN frames : t > cursor[r] /\ t <= last}}]
    /\ cursor' = [cursor EXCEPT ![r] = last]
    /\ UNCHANGED <<frames, next, gone>>

\* get_frames answers 410: the reader moves to the oldest frame.
Gone(r, o) ==
    /\ IsOldest(o) /\ cursor[r] + 1 < o
    /\ gone' = [gone EXCEPT ![r] = @ \cup (cursor[r] + 1 .. o - 1)]
    /\ cursor' = [cursor EXCEPT ![r] = o - 1]
    /\ UNCHANGED <<frames, next, got>>

Next ==
    \/ \E e \in Envelopes : Append(e)
    \/ \E keep \in DOMAIN frames \cup {next} : Prune(keep)
    \/ \E r \in Readers, last \in DOMAIN frames : Read(r, last)
    \/ \E r \in Readers, o \in DOMAIN frames \cup {next} : Gone(r, o)

Spec == Init /\ [][Next]_vars
=============================================================================
