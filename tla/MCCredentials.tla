---------------------------- MODULE MCCredentials ----------------------------
(***************************************************************************)
(* Model-checking instances of Credentials.                                *)
(***************************************************************************)
EXTENDS Credentials

CONSTANTS n1, n2, n3

Two == {n1, n2}
Three == {n1, n2, n3}

\* Three holders renew one sign-in.
ThreeHolders ==
    [mesh |-> Three, origins |-> {n1}, mints |-> 1, renews |-> 2, count |-> 0,
     events |-> {"share_all"}]

\* Two nodes sign in, and one thing goes wrong.
Faults ==
    [mesh |-> Two, origins |-> Two, mints |-> 2, renews |-> 1, count |-> 1,
     events |-> {"share_all", "share", "lapse", "restart", "unreachable", "crash", "lost",
                 "set_channels"}]

\* A sign-in is imported over, shared and disconnected.
Imports ==
    [mesh |-> Two, origins |-> {n1}, mints |-> 2, renews |-> 1, count |-> 2,
     events |-> {"share_all", "share", "import", "disconnect"}]

\* Steps come between storing a copy and queueing its handoffs: one sign-in of three
\* holders, and two sign-ins of two.
ThreeGaps ==
    [mesh |-> Three, origins |-> {n1}, mints |-> 1, renews |-> 1, count |-> 1,
     events |-> {"share_all", "gap", "crash", "no_key"}]

TwoGaps ==
    [mesh |-> Two, origins |-> Two, mints |-> 2, renews |-> 1, count |-> 1,
     events |-> {"share_all", "gap", "crash", "no_key"}]

MCScenarios == {ThreeHolders, Faults, Imports, ThreeGaps, TwoGaps}

=============================================================================
