----------------------------- MODULE MCServing -----------------------------
(***************************************************************************)
(* The serving side for TLC, in parts that share no state and are therefore *)
(* explored apart: what the handlers read and the secondaries come to hold  *)
(* (Transfer), how a connection carries the answers (DnsServer), and what a *)
(* status says of the secondaries (StatusProbe).                            *)
(***************************************************************************)
EXTENDS MCTransfer, DnsServer, StatusProbe

VARIABLE part

Rr(size) == [kind |-> "rr", serial |-> 0, size |-> size]
Invalid == [kind |-> "invalid", serial |-> 0, size |-> 0]
Unsupported == [kind |-> "unsupported", serial |-> 0, size |-> 0]

Store(serial, rs, steps, snaps) == [serial |-> serial, records |-> rs, steps |-> steps, snapshots |-> snaps]

TwoSteps ==
    << [serial |-> 2, dels |-> <<Rr(2)>>, adds |-> <<Rr(5), Rr(2)>>],
       [serial |-> 3, dels |-> <<>>, adds |-> <<Rr(4)>>] >>

\* A new zone; one with a history of two steps; one whose last serial was
\* forced, with a value that does not parse; one with an answer too large for a
\* message, in its log as well; one whose log cannot be sent.
MCStores ==
    { Store(1, <<Rr(2)>>, <<>>, {1}),
      Store(3, <<Unsupported, Rr(5), Rr(2), Rr(4)>>, TwoSteps, 1..3),
      Store(4, <<Rr(5), Rr(2), Invalid>>, TwoSteps, 1..4),
      Store(5, <<Rr(5), Rr(9)>>, Append(TwoSteps, [serial |-> 5, dels |-> <<>>, adds |-> <<Rr(9)>>]), 1..5),
      Store(6, <<Rr(2)>>, <<[serial |-> 6, dels |-> <<Invalid>>, adds |-> <<>>]>>, {5, 6}) }

MCCatalogStores == {Store(2, <<Rr(3), Rr(2), Rr(4)>>, <<>>, {})}

MCResolutions == {[h \in {"host"} |-> {}], [h \in {"host"} |-> {"b"}]}

MCLookups == [e \in {"x", "y"} |-> IF e = "x" THEN {<<"a1">>} ELSE {<<>>, <<"a2", "a3">>}]

ServingInit ==
    /\ TransferInit /\ ServerInit /\ ProbeInit
    /\ part \in {"transfers", "connection", "status"}
    /\ part # "connection" => client = "a" /\ resolved = [h \in {"host"} |-> {}]

ServingNext ==
    \/ part = "transfers" /\ TransferNext /\ UNCHANGED <<serverVars, probeVars, part>>
    \/ part = "connection" /\ ServerNext /\ UNCHANGED <<vars, transferVars, probeVars, part>>
    \/ part = "status" /\ ProbeNext /\ UNCHANGED <<vars, transferVars, serverVars, part>>

ServingSpec == ServingInit /\ [][ServingNext]_<<vars, transferVars, serverVars, probeVars, part>>
=============================================================================
