------------------------------ MODULE MCNotify ------------------------------
(* Instances of Notify for TLC.                                            *)
EXTENDS Notify, TLC

CONSTANTS z1, z2, a1, a2, r1, r2

TwoSecondaries == <<a1, a2>>

\* The apply worker, with an address that may not resolve and two lost datagrams:
\* enough to give one address up, or to lose one at each.
AsyncConfig ==
    [async |-> TRUE, afterUpdate |-> TRUE, onStartup |-> FALSE, manual |-> 0, losses |-> 2,
     unresolved |-> 1, disconnects |-> 0, failures |-> 0, restarts |-> 0, deletes |-> TRUE,
     force |-> FALSE]

\* NOTIFYs inside the requests, and a client that disconnects.
SyncConfig ==
    [AsyncConfig EXCEPT !.async = FALSE, !.losses = 1, !.unresolved = 0, !.disconnects = 1]

\* A restart that re-announces the zones.
RestartConfig ==
    [AsyncConfig EXCEPT !.onStartup = TRUE, !.losses = 0, !.unresolved = 0, !.restarts = 1]

\* Manual and forced NOTIFYs, one of which fails, while zones are deleted and
\* renamed.
ForcedConfig ==
    [SyncConfig EXCEPT !.manual = 1, !.losses = 0, !.disconnects = 0, !.failures = 1,
                       !.force = TRUE]

\* Only manual NOTIFYs.
QuietConfig == [ForcedConfig EXCEPT !.afterUpdate = FALSE, !.deletes = FALSE]

AllConfigs == {AsyncConfig, SyncConfig, RestartConfig, ForcedConfig, QuietConfig}
=============================================================================
