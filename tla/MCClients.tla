----------------------------- MODULE MCClients -----------------------------
(***************************************************************************)
(* The side clients see, for TLC, in parts that share no state and are      *)
(* explored apart. What they write and read back (Representations): labels  *)
(* of two octets, names of five, character-strings of two, spellings with   *)
(* every form of escape in a zone "b". Walks over listings of up to four    *)
(* rows (Listing). The CLI's control of the daemon process (Daemon).        *)
(***************************************************************************)
EXTENDS Representations, Listing, Daemon

Tok(t, m) == [text |-> t, means |-> m]

MCTokens ==
    {Tok(<<46>>, Boundary), Tok(<<97>>, <<97>>), Tok(<<66>>, <<66>>), Tok(<<98>>, <<98>>),
     Tok(<<64>>, <<64>>), Tok(<<92, 64>>, <<64>>), Tok(<<92, 46>>, <<46>>), Tok(<<92, 48, 52, 54>>, <<46>>),
     Tok(<<92, 92>>, <<92>>), Tok(<<32>>, <<32>>), Tok(<<92, 32>>, <<32>>),
     Tok(<<92, 49, 57, 53>>, <<195>>), Tok(<<92, 49, 54, 57>>, <<169>>),
     Tok(<<92, 52, 48, 48>>, Malformed), Tok(<<92, 48, 97>>, Malformed)}

MCZone == <<98>>

Texts(alphabet, n) == UNION {[1..k -> alphabet] : k \in 0..n}

MCZoneSpellings == Texts({46, 97, 65, 45, 95, 32, 42}, 4)

\* a, quote, backslash, digits of an escape, a two-octet character, a control.
Raw == {FlattenSeq(s) : s \in Texts({<<97>>, <<34>>, <<92>>, <<195, 169>>, <<1>>}, 3)}

MCTxtRequests ==
    {[form |-> "raw", of |-> t] : t \in Raw}
      \cup {[form |-> "segments", of |-> s] : s \in Texts({<<>>, <<97>>, <<34, 92>>, <<195, 169>>, <<97, 97, 97>>}, 2)}
      \cup {[form |-> "presentation", of |-> <<34>> \o FlattenSeq(s)] :
               s \in Texts({<<97>>, <<34>>, <<92, 34>>, <<32>>, <<92, 49, 57, 53>>, <<92, 49, 54, 57>>, <<92, 97>>}, 4)}
      \cup {[form |-> "presentation", of |-> t] : t \in Raw}

Hosts == {<<46>>, <<97>>, <<65, 46, 95>>, <<97, 46>>, <<45, 97>>}
Numbers == {<<48>>, <<43, 53>>, <<48, 55>>, <<54, 53, 53, 51, 53>>, <<54, 53, 53, 51, 54>>}
Priorities == {{}, {0}, {10}, {65535}, {65536}, {-1}}

MCHosted ==
    [type : {"MX", "CNAME"}, text : Hosts \cup {<<32>> \o h : h \in Hosts}, priority : Priorities]
      \cup [type : {"SRV"}, text : {a \o <<32>> \o b \o <<32, 32>> \o h : a \in Numbers, b \in Numbers, h \in Hosts}, priority : Priorities]
      \cup [type : {"MX", "SRV"}, text : {<<48, 32, 97>>, <<>>}, priority : {{}}]

MCEmails ==
    {l \o <<64>> \o d : l \in Texts({97, 65, 46, 92, 43}, 3), d \in Texts({98, 46, 45, 66}, 3)}
      \cup {<<>>, <<97>>, <<97, 64, 98, 64, 98>>, <<32, 97, 64, 98, 32>>}

MCFirstZones == {[id |-> 1, name |-> 1], [id |-> 2, name |-> 2]}

\* Two records of one name, one of another.
MCFirstRows == {[id |-> 1, zone |-> 1, name |-> 1], [id |-> 2, zone |-> 2, name |-> 1], [id |-> 3, zone |-> 1, name |-> 2]}

MCFirstSnaps == [zone : {1}, serial : 1..3] \cup [zone : {2}, serial : 1..2]

\* The two CLIs are interchangeable.
SymmetricClis == Permutations(Clis)

VARIABLE part

NoWalk == WalkFrom(CHOOSE w \in Walks : TRUE, {})

NoJourney == kind = "zone" /\ given = <<>> /\ row = {} /\ text = <<>> /\ view = "none" /\ at = "given"

\* Every CLI is one "stop".
NoDaemon == DaemonFrom([c \in Clis |-> "stop"], [p \in Paths |-> 0])

ClientInit ==
    \/ part = "journey" /\ Init /\ NoWalk /\ NoDaemon
    \/ part = "walk" /\ NoJourney /\ ListingInit /\ NoDaemon
    \/ part = "daemon" /\ NoJourney /\ NoWalk /\ DaemonInit

ClientNext ==
    \/ part = "journey" /\ Next /\ UNCHANGED <<listingVars, daemonVars, part>>
    \/ part = "walk" /\ ListingNext /\ UNCHANGED <<vars, daemonVars, part>>
    \/ part = "daemon" /\ DaemonNext /\ UNCHANGED <<vars, listingVars, part>>

ClientSpec == ClientInit /\ [][ClientNext]_<<vars, listingVars, daemonVars, part>>
=============================================================================
