--------------------------------- MODULE Hlc ---------------------------------
(***************************************************************************)
(* The hybrid logical clock of sync/src/hlc.rs: wall time when it moves    *)
(* forward, a counter when it does not.  A stamp is (last_ms, last_ctr);   *)
(* the widths of i64 and u32 are the constants MaxMs and MaxCtr, so that   *)
(* the counter's overflow and the clock's exhaustion are reached by small  *)
(* instances.  The operators return NoStamp where the code returns None.   *)
(***************************************************************************)
EXTENDS Integers

CONSTANTS
    MaxMs,      \* i64::MAX, the largest millisecond
    MaxCtr,     \* u32::MAX, the largest counter
    NoStamp     \* None: the clock is exhausted

Stamp == [ms : 0 .. MaxMs, ctr : 0 .. MaxCtr]

ASSUME WidthAssumption == MaxMs \in Nat /\ MaxCtr \in Nat
ASSUME NoStampAssumption == NoStamp \notin Stamp

\* The order of stamps: milliseconds first, then the counter.
Before(a, b) == a.ms < b.ms \/ (a.ms = b.ms /\ a.ctr < b.ctr)

\* bump: one logical step.  An exhausted counter borrows a millisecond; the
\* largest representable stamp is never handed out.
Bump(a) ==
    IF a.ctr < MaxCtr
    THEN IF a.ms = MaxMs /\ a.ctr + 1 = MaxCtr
         THEN NoStamp
         ELSE [ms |-> a.ms, ctr |-> a.ctr + 1]
    ELSE IF a.ms < MaxMs THEN [ms |-> a.ms + 1, ctr |-> 0] ELSE NoStamp

\* Hlc::tick: the stamp of a local write made at wall time now.
Tick(last, now) ==
    IF now > last.ms THEN [ms |-> now, ctr |-> 0] ELSE Bump(last)

LargerCtr(a, b) == IF a.ctr > b.ctr THEN a.ctr ELSE b.ctr

\* Hlc::observe: fold in the stamp of a change from another site.
ObserveOwnOnly(last, now, remote) ==
    IF now > last.ms THEN [ms |-> now, ctr |-> 0] ELSE Bump(last)

Observe(last, now, remote) ==
    CASE now > last.ms /\ now > remote.ms -> [ms |-> now, ctr |-> 0]
      [] ~(now > last.ms /\ now > remote.ms) /\ remote.ms > last.ms -> Bump(remote)
      [] ~(now > last.ms /\ now > remote.ms) /\ remote.ms = last.ms ->
            Bump([ms |-> last.ms, ctr |-> LargerCtr(last, remote)])
      [] OTHER -> Bump(last)
=============================================================================
