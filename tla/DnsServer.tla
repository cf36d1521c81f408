----------------------------- MODULE DnsServer -----------------------------
(***************************************************************************)
(* One TCP connection of the DNS server, and the UDP socket beside it: the *)
(* dispatch of a query, the transfer ACL, and the answers of a transfer    *)
(* packed into messages and written one by one, with the write that fails  *)
(* and the IXFR that falls back to AXFR. What a handler reads of the       *)
(* database is any of Stores, read anew by each handler, or nothing: which *)
(* versions it can be is the subject of module Transfer.                   *)
(*                                                                         *)
(* Sizes are in units of which a message holds MaxMessage.                 *)
(***************************************************************************)
EXTENDS Integers, Sequences, SequencesExt

CONSTANTS
    MaxMessage,     \* DNS_TCP_MAX_SIZE
    QuestionSize,   \* header and question of a message
    SoaSize,
    Stores,         \* what a lookup of the zone may find
    CatalogStores,  \* what generate_catalog_zone may answer
    ClientSerials,  \* serials an IXFR query carries; 0 is none
    AclEntries,     \* the configured secondaries: addresses and host names
    Resolutions,    \* what the host names resolve to, over time
    Clients,        \* addresses queries come from
    MaxQueries      \* bound: queries on the connection

VARIABLES
    client,     \* the peer of the connection
    resolved,   \* host name -> its addresses at present
    handler,    \* [pc, zone, ixfr]: where the handler is, and of which body
    query,      \* the query it handles
    script,     \* answers it has yet to add
    builder,    \* answers of the message it builds
    flushed,    \* messages_sent
    body,       \* all the answers of the body it sends
    sent,       \* messages the client received for the query
    broken,     \* a write failed: the connection is lost
    datagram,   \* the last UDP query and its answer
    asked       \* queries so far

serverVars == <<client, resolved, handler, query, script, builder, flushed, body, sent, broken, datagram, asked>>

bodyVars == <<script, builder, flushed, body>>
wireVars == <<sent, broken>>
connVars == <<client, resolved, query, datagram, asked>>

Queries ==
    [id : 1..MaxQueries, kind : {"update", "malformed", "other", "SOA", "AXFR"}, name : {"zone", "catalog"}, serial : {0}]
    \cup [id : 1..MaxQueries, kind : {"IXFR"}, name : {"zone", "catalog"}, serial : ClientSerials]

NoQuery == [id |-> 0, kind |-> "none", name |-> "zone", serial |-> 0]

Reading == [pc |-> "reading", ixfr |-> FALSE]
Closed == [pc |-> "closed", ixfr |-> FALSE]

SoaAnswer(serial) == [kind |-> "SOA", serial |-> serial, size |-> SoaSize]

-----------------------------------------------------------------------------
(* wire                                                                    *)

\* message_len.
MessageLen(answers) == QuestionSize + FoldSeq(LAMBDA a, n : a.size + n, 0, answers)

\* build_message_into; the builder keeps the id and the type of its query.
Message(qtype, answers) == [id |-> query.id, qtype |-> qtype, rcode |-> "NOERROR", answers |-> answers]

\* build_error_response.
ErrorMessage(rcode) == [id |-> query.id, qtype |-> query.kind, rcode |-> rcode, answers |-> <<>>]

\* write_all and flush of one frame: the client has it, or the connection is
\* lost for good (external: TCP reports no later write as done).
Deliver(msg) == ~broken /\ sent' = Append(sent, msg) /\ UNCHANGED broken

LoseConnection == broken' = TRUE /\ UNCHANGED sent

\* The handler returns an error: handle_tcp_connection ends.
Fail == handler' = Closed /\ UNCHANGED connVars

\* It is done with the query.
Done == handler' = Reading /\ UNCHANGED connVars

\* write_tcp_message of a whole response.
Reply(msg) ==
    /\ (Deliver(msg) /\ Done) \/ (LoseConnection /\ Fail)
    /\ UNCHANGED bodyVars

-----------------------------------------------------------------------------
(* Streaming                                                               *)

\* The records a full transfer sends: handle_axfr, and for the catalog zone
\* handle_catalog_axfr_with_qtype.
AxfrBody(z) == <<SoaAnswer(z.serial)>> \o z.records \o <<SoaAnswer(z.serial)>>

\* list_zone_changes since the client's serial, a serial's rows as one step.
StepsSince(z, serial) == SelectSeq(z.steps, LAMBDA s : s.serial > serial)

OldSerial(steps, i, serial) == IF i = 1 THEN serial ELSE steps[i - 1].serial

\* stream_ixfr_body: per serial its old SOA, the deletions, its new SOA and the
\* additions, between two SOAs of the current serial.
IxfrBody(z, serial) ==
    LET steps == StepsSince(z, serial)
        part(i) == <<SoaAnswer(OldSerial(steps, i, serial))>> \o steps[i].dels \o <<SoaAnswer(steps[i].serial)>> \o steps[i].adds
    IN  <<SoaAnswer(z.serial)>> \o FlattenSeq([i \in DOMAIN steps |-> part(i)]) \o <<SoaAnswer(z.serial)>>

\* A new builder for the body.
Begin(answers, ixfr) ==
    /\ handler' = [pc |-> "stream", ixfr |-> ixfr]
    /\ script' = answers /\ body' = answers
    /\ builder' = <<>> /\ flushed' = 0
    /\ UNCHANGED <<connVars, wireVars>>

\* The body's answers are sent under the type of the query: the fallback of an
\* IXFR keeps it.
ResponseQtype == query.kind

SendErrorFallsBack(n) ==
    IF handler.ixfr
      THEN handler' = [pc |-> "axfr", ixfr |-> FALSE] /\ UNCHANGED connVars
      ELSE Fail

\* send_ixfr_response: an error before the first message falls back to AXFR
\* (NotStarted), later ones end the connection (Partial), as do those of AXFR.
SendError(n) ==
    IF handler.ixfr /\ n = 0
      THEN handler' = [pc |-> "axfr", ixfr |-> FALSE] /\ UNCHANGED connVars
      ELSE Fail

\* The answer does not fit: the message before it is written, and the answer
\* starts the next one, unless it is too large for any.
Flush(a) ==
    \/ /\ Deliver(Message(ResponseQtype, builder))
       /\ builder' = <<a>> /\ flushed' = flushed + 1
       /\ IF MessageLen(<<a>>) > MaxMessage
            THEN SendError(flushed + 1) /\ UNCHANGED <<script, body>>
            ELSE script' = Tail(script) /\ UNCHANGED <<connVars, handler, body>>
    \/ LoseConnection /\ SendError(flushed) /\ UNCHANGED bodyVars

\* add_record_parts: the answers of a row, none for a type that is not served;
\* the empty set when its value does not compose.
AddRecordParts(a) ==
    CASE a.kind = "invalid" -> {} [] a.kind = "unsupported" -> {<<>>} [] OTHER -> {<<a>>}

\* add_answer_and_flush_if_needed.
AddAnswer ==
    /\ handler.pc = "stream" /\ script # <<>>
    /\ LET a == Head(script)
           parts == AddRecordParts(a)
       IN
       IF parts = {} THEN SendError(flushed) /\ UNCHANGED <<bodyVars, wireVars>>
       ELSE IF parts = {<<>>} \/ MessageLen(Append(builder, a)) <= MaxMessage
         THEN /\ builder' = builder \o CHOOSE p \in parts : TRUE
              /\ script' = Tail(script)
              /\ UNCHANGED <<connVars, wireVars, handler, flushed, body>>
       ELSE IF builder = <<>> THEN SendError(flushed) /\ UNCHANGED <<bodyVars, wireVars>>
       ELSE Flush(a)

FinishBodyUnflushed ==
    /\ handler.pc = "stream" /\ script = <<>>
    /\ Done /\ UNCHANGED <<bodyVars, wireVars>>

\* The last flush_message_if_not_empty. (A body ends with an SOA, so there is
\* always something left to write.)
FinishBody ==
    /\ handler.pc = "stream" /\ script = <<>>
    /\ \/ /\ Deliver(Message(ResponseQtype, builder)) /\ Done
          /\ flushed' = flushed + 1 /\ builder' = <<>> /\ UNCHANGED <<script, body>>
       \/ LoseConnection /\ SendError(flushed) /\ UNCHANGED bodyVars

-----------------------------------------------------------------------------
(* The handlers                                                            *)

\* is_client_allowed: an address of the list, or one a host name of the list
\* resolves to now.
IsClientAllowed(ip) == \E e \in AclEntries : e = ip \/ (e \in DOMAIN resolved /\ ip \in resolved[e])

Transferring == {"AXFR", "IXFR"}

\* build_soa_response and soa_response_bytes for what the lookup finds; a
\* database error is no answer.
SoaResponses(q) ==
    {[id |-> q.id, qtype |-> "SOA", rcode |-> "NOERROR", answers |-> <<SoaAnswer(z.serial)>>] :
        z \in IF q.name = "catalog" THEN CatalogStores ELSE Stores}
    \cup (IF q.name = "catalog" THEN {} ELSE {[id |-> q.id, qtype |-> "SOA", rcode |-> "NOTAUTH", answers |-> <<>>]})

\* handle_nsupdate_request, for which see module Access; malformed ones have no answer.
UpdateResponses(q) == {[id |-> q.id, qtype |-> "update", rcode |-> r, answers |-> <<>>] : r \in {"NOERROR", "REFUSED"}}

\* read_tcp_message and handle_tcp_query: queries on a connection are handled
\* one after the other.
ReadQuery ==
    /\ handler.pc = "reading" /\ asked < MaxQueries
    /\ asked' = asked + 1
    /\ \E q \in Queries :
          /\ q.id = asked + 1
          /\ query' = q
          /\ handler' = CASE q.kind \in {"malformed", "other"} -> Reading
                          [] q.kind \in {"SOA", "update"} -> [pc |-> q.kind, ixfr |-> FALSE]
                          [] OTHER -> [pc |-> "acl", ixfr |-> FALSE]
    /\ sent' = <<>>
    /\ script' = <<>> /\ builder' = <<>> /\ flushed' = 0 /\ body' = <<>>
    /\ UNCHANGED <<client, resolved, broken, datagram>>

\* EOF, an incomplete frame, a read error or TCP_IDLE_TIMEOUT.
EndConnection ==
    /\ handler.pc = "reading"
    /\ Fail /\ UNCHANGED <<bodyVars, wireVars>>

\* handle_tcp_soa and handle_tcp_nsupdate.
AnswerSimple ==
    /\ handler.pc \in {"SOA", "update"}
    /\ \/ \E msg \in (IF handler.pc = "SOA" THEN SoaResponses(query) ELSE UpdateResponses(query)) : Reply(msg)
       \/ Fail /\ UNCHANGED <<bodyVars, wireVars>>

\* validate_secondary_acl: a client that is not allowed loses its connection.
CheckAcl ==
    /\ handler.pc = "acl"
    /\ IF IsClientAllowed(client)
         THEN /\ handler' = [pc |-> IF query.kind = "AXFR" THEN "axfr" ELSE "ixfr", ixfr |-> FALSE]
              /\ UNCHANGED connVars
         ELSE Fail
    /\ UNCHANGED <<bodyVars, wireVars>>

\* handle_axfr up to its first answer: NOTAUTH when there is no such zone.
StartAxfr ==
    /\ handler.pc = "axfr"
    /\ \/ \E z \in (IF query.name = "catalog" THEN CatalogStores ELSE Stores) : Begin(AxfrBody(z), FALSE)
       \/ query.name # "catalog" /\ Reply(ErrorMessage("NOTAUTH"))
       \/ Fail /\ UNCHANGED <<bodyVars, wireVars>>

\* handle_ixfr's reasons to answer with a full transfer.
Unanswerable(z, serial) ==
    LET steps == StepsSince(z, serial)
    IN  \/ serial = 0
        \/ serial > z.serial
        \/ serial < z.serial /\ steps = <<>>
        \/ serial < z.serial /\ Last(steps).serial # z.serial
        \/ serial < z.serial /\ \E i \in DOMAIN steps : {OldSerial(steps, i, serial), steps[i].serial} \ z.snapshots # {}
        \/ serial = z.serial /\ serial \notin z.snapshots

\* handle_ixfr up to its first answer.
StartIxfr ==
    /\ handler.pc = "ixfr"
    /\ \/ \E z \in Stores :
             /\ query.name # "catalog"
             /\ IF Unanswerable(z, query.serial)
                  THEN /\ handler' = [pc |-> "axfr", ixfr |-> FALSE]
                       /\ UNCHANGED <<connVars, wireVars, bodyVars>>
                ELSE IF query.serial = z.serial THEN Reply(Message("IXFR", <<SoaAnswer(z.serial)>>))
                ELSE Begin(IxfrBody(z, query.serial), TRUE)
       \/ /\ query.name = "catalog"
          /\ handler' = [pc |-> "axfr", ixfr |-> FALSE]
          /\ UNCHANGED <<connVars, wireVars, bodyVars>>
       \/ query.name # "catalog" /\ Reply(ErrorMessage("NOTAUTH"))
       \/ Fail /\ UNCHANGED <<bodyVars, wireVars>>

\* run_udp_server: one datagram, answered before the next is received.
HandleDatagram ==
    /\ asked < MaxQueries
    /\ \E q \in Queries :
          /\ q.id = asked + 1
          /\ \E reply \in {<<>>} \cup {<<m>> : m \in CASE q.kind = "SOA" -> SoaResponses(q)
                                                        [] q.kind = "update" -> UpdateResponses(q)
                                                        [] OTHER -> {}} :
                datagram' = [query |-> q, reply |-> reply]
    /\ asked' = asked + 1
    /\ UNCHANGED <<client, resolved, handler, query, bodyVars, wireVars>>

\* A host name of the ACL changes its addresses.
ChangeResolution ==
    /\ resolved' \in Resolutions \ {resolved}
    /\ UNCHANGED <<client, handler, query, bodyVars, wireVars, datagram, asked>>

ServerInit ==
    /\ client \in Clients /\ resolved \in Resolutions
    /\ handler = Reading /\ query = NoQuery
    /\ script = <<>> /\ builder = <<>> /\ flushed = 0 /\ body = <<>>
    /\ sent = <<>> /\ broken = FALSE
    /\ datagram = [query |-> NoQuery, reply |-> <<>>]
    /\ asked = 0

ServerNext ==
    \/ ReadQuery \/ EndConnection \/ AnswerSimple \/ CheckAcl \/ StartAxfr \/ StartIxfr \/ AddAnswer \/ FinishBody
    \/ HandleDatagram \/ ChangeResolution

-----------------------------------------------------------------------------
(* Properties                                                              *)

Received == FlattenSeq([i \in DOMAIN sent |-> sent[i].answers])

\* A message is never larger than the length prefix of a frame can say.
FitsFrame(m) == QuestionSize + FoldSeq(LAMBDA a, n : a.size + n, 0, m.answers) <= MaxMessage

\* The answers a client received are the first ones of a single body, in order
\* and none left out, in messages that fit their frame and carry the id and the
\* type of its query, the full transfer sent for an IXFR included; an error
\* response stands alone. "Bytes already sent; a fallback AXFR would corrupt the
\* partial IXFR" (handle_ixfr).
OneBody ==
    query.kind \in Transferring /\ sent # <<>> =>
        /\ \A i \in DOMAIN sent : sent[i].id = query.id /\ sent[i].qtype = query.kind /\ FitsFrame(sent[i])
        /\ \/ Len(sent) = 1 /\ sent[1].rcode = "NOTAUTH"
           \/ Len(sent) = 1 /\ sent[1].answers = <<SoaAnswer(query.serial)>> /\ body = <<>>
           \/ /\ \A i \in DOMAIN sent : sent[i].rcode = "NOERROR" /\ sent[i].answers # <<>>
              /\ IsPrefix(Received, SelectSeq(body, LAMBDA a : a.kind # "unsupported"))

\* Where a secondary takes a response for complete (external: RFC 1995, RFC
\* 5936): at a lone SOA of its own serial; at the second SOA of a full
\* transfer; at the SOA of the new serial that follows its last additions.
SoasIn(as) == SelectSeq(as, LAMBDA a : a.kind = "SOA")

Complete(as) ==
    LET soas == SoasIn(as)
        n == Len(soas)
    IN  \/ n = 1 /\ Len(as) = 1 /\ query.kind = "IXFR" /\ soas[1].serial = query.serial
        \/ n = 2 /\ soas[2] = soas[1] /\ Last(as) = soas[1]
        \/ n > 3 /\ n % 2 = 0 /\ as[2] = soas[2] /\ Last(as) = soas[1] /\ soas[n] = soas[1] /\ soas[n - 1] = soas[1]

\* The secondary takes the transfer for complete when the handler has sent all
\* of it and never before: neither at the end of a message nor when the
\* connection is lost in the middle. (Left out: a zone that comes to the
\* client's own serial between the two reads of a fallback. Its first SOA, alone
\* in a message, reads as "up to date", which is what handle_ixfr would say.)
CompleteWhenDone ==
    /\ query.kind \in Transferring /\ sent # <<>> /\ sent[1].rcode = "NOERROR"
    /\ body # <<>> => Head(body).serial # query.serial
    =>
        /\ Complete(Received) <=> handler.pc = "reading" \/ (handler.pc = "closed" /\ script = <<>> /\ builder = <<>>)
        /\ \A k \in 1..Len(Received) - 1 : ~Complete(SubSeq(Received, 1, k))
=============================================================================
