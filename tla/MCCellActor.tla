---------------------------- MODULE MCCellActor ----------------------------
(***************************************************************************)
(* Instances of CellActor for model checking.  A setup takes the requests, *)
(* the events and the limits of one question; a run explores several.      *)
(***************************************************************************)
EXTENDS CellActor

CONSTANTS c1, c2, c3, l1, d1, d2, q1, m1

Setup(requests, modes, events, commits, gens, pending, debt, group) ==
    [requests |-> requests, modes |-> modes, events |-> events, commits |-> commits,
     gens |-> gens, pending |-> pending, debt |-> debt, group |-> group]

\* Commands, a delivery and a query against a fence, a shutdown and a second activation.
Foreground == Setup({c1, c2, d1, q1}, {"object", "logged"}, {"expire", "shutdown"}, 3, 2, 1, 2, 2)
\* Shared bundles select, and direct publications follow, at the debt limit.
Bundle == Setup({c1, c2, c3}, {"bundled", "object"}, {"expire", "drain"}, 3, 1, 3, 2, 1)
\* Background jobs and a migration beside a command.
Background == Setup({c1, m1}, {"logged", "bundled"},
                    {"expire", "renew", "hydrate", "refresh", "compact", "evict", "drain"}, 2, 2, 2, 2, 1)
\* Idle transfer and maintenance release.
Transfer == Setup({c1, l1}, {"logged"},
                  {"expire", "transfer", "maintain", "quiesce", "renew", "shutdown"}, 2, 1, 2, 2, 1)
SafetySetups == {Foreground, Bundle, Background, Transfer}

\* A write that waits for the publications before it.
BlockedWrites == Setup({d1, d2}, {"object", "bundled"}, {"drain", "shutdown"}, 2, 1, 1, 1, 1)
\* A migration that waits for them.
Migration == Setup({c1, m1}, {"logged"}, {"drain", "shutdown", "hydrate", "renew"}, 2, 1, 4, 2, 1)
\* A lease that runs out at any moment.
Expiry == Setup({c1, q1}, {"bundled"}, {"drain", "shutdown", "expire"}, 1, 1, 4, 2, 1)
\* Transfer and maintenance release that a drain or a shutdown interrupts.
Upkeep == Setup({c1}, {"logged", "bundled"},
                {"transfer", "maintain", "quiesce", "drain", "shutdown"}, 1, 1, 2, 2, 1)
LiveSetups == {BlockedWrites, Migration, Expiry, Upkeep}

\* A command whose probe runs while another commit is published.
Probe == Setup({c1, c2}, {"logged"}, {}, 1, 1, 1, 2, 1)
ProbeSetups == {Probe}
=============================================================================
