----------------------------- MODULE MCRelease -----------------------------
(* An instance of Release for TLC.                                          *)
EXTENDS Release, TLC

\* All four images with and without a migration, the one-time cold cutover,
\* and partial releases of the development mode.
MCReleases ==
  {[changed |-> Groups, migrate |-> m, cold |-> FALSE] : m \in BOOLEAN}
    \cup {[changed |-> Groups, migrate |-> TRUE, cold |-> TRUE],
          [changed |-> {"backend"}, migrate |-> TRUE, cold |-> FALSE],
          [changed |-> {"redis"}, migrate |-> FALSE, cold |-> FALSE],
          [changed |-> {"web"}, migrate |-> FALSE, cold |-> FALSE],
          [changed |-> {}, migrate |-> TRUE, cold |-> FALSE]}
=============================================================================
