----------------------------- MODULE RecordText -----------------------------
(***************************************************************************)
(* Record values as clients write them, as rows hold them and as zone      *)
(* files show them: TXT character-strings, names, MX and SRV values, and   *)
(* the mailbox of the SOA (bindizr-core dns/record and model/record,       *)
(* bindizr-service zone/validation and record/zonefile). An optional value *)
(* is a set of at most one element. Base64 is left out: a TXT row is its   *)
(* RDATA, length-prefixed character-strings.                               *)
(***************************************************************************)
EXTENDS Names

CONSTANTS
    MaxCharStr,     \* octets of a character-string, 255
    MaxU16,         \* u16::MAX
    MaxEmailLen,    \* MAX_EMAIL_LEN, 254
    MaxLocalLen     \* MAX_EMAIL_LOCAL_LEN, 64

Quote == 34
Some(opt) == CHOOSE x \in opt : TRUE
OrElse(opt, x) == IF opt = {} THEN x ELSE Some(opt)

-----------------------------------------------------------------------------
(* Numbers                                                                 *)

Digits[n \in Nat] == IF n < 10 THEN <<48 + n>> ELSE Append(Digits[n \div 10], 48 + (n % 10))

\* str::parse of an unsigned field: an optional plus sign and digits.
ParseNumber(t, max) ==
    LET ds == IF t # <<>> /\ t[1] = 43 THEN Tail(t) ELSE t
        n == FoldLeft(LAMBDA a, c : 10 * a + c - 48, 0, ds)
    IN  IF ds # <<>> /\ (\A i \in DOMAIN ds : IsDigit(ds[i])) /\ n <= max THEN {n} ELSE {}

\* split_whitespace.
Fields(t) == SelectSeq(Split(t, Space), LAMBDA p : p # <<>>)

-----------------------------------------------------------------------------
(* TXT                                                                     *)

\* from_segments: refuses a long segment, and no segment at all.
FromSegments(segs) ==
    IF segs = <<>> \/ \E i \in DOMAIN segs : Len(segs[i]) > MaxCharStr THEN {}
    ELSE {FlattenSeq([i \in DOMAIN segs |-> <<Len(segs[i])>> \o segs[i]])}

\* The characters of a text, each the sequence of its octets.
Chars(t) ==
    FoldLeft(LAMBDA cs, c : IF c \in 128..191 THEN [cs EXCEPT ![Len(cs)] = Append(@, c)] ELSE Append(cs, <<c>>),
             <<>>, t)

\* Fills the last chunk with one more character, or begins another.
Chunk(chunks, ch) ==
    IF Len(Last(chunks)) + Len(ch) > MaxCharStr THEN Append(chunks, ch)
    ELSE [chunks EXCEPT ![Len(chunks)] = @ \o ch]

\* from_string cut at the limit wherever it falls.
FromStringOctets(t) ==
    LET n == (Len(t) + MaxCharStr - 1) \div MaxCharStr
        chunks == [i \in 1..Max({n, 1}) |-> SubSeq(t, (i - 1) * MaxCharStr + 1, Min({i * MaxCharStr, Len(t)}))]
    IN  FlattenSeq([i \in DOMAIN chunks |-> <<Len(chunks[i])>> \o chunks[i]])

\* from_string: chunks of whole characters.
FromString(t) ==
    LET chunks == FoldLeft(Chunk, <<<<>>>>, Chars(t))
    IN  FlattenSeq([i \in DOMAIN chunks |-> <<Len(chunks[i])>> \o chunks[i]])

\* RDATA read back as length-prefixed strings; need octets of the last are missing.
ReadRdata(rdata) ==
    FoldLeft(LAMBDA r, o : IF r.need = 0 THEN [segs |-> Append(r.segs, <<>>), need |-> o]
                           ELSE [segs |-> [r.segs EXCEPT ![Len(r.segs)] = Append(@, o)], need |-> r.need - 1],
             [segs |-> <<>>, need |-> 0], rdata)

\* is_valid_txt_rdata.
IsValidTxtRdata(rdata) == ReadRdata(rdata).need = 0

\* to_content: the character-strings, when there is one and all are UTF-8.
ToContent(rdata) ==
    LET segs == ReadRdata(rdata).segs
    IN  IF segs = <<>> \/ \E i \in DOMAIN segs : ~IsUtf8(segs[i]) THEN {} ELSE {segs}

\* to_quoted_charstr: \" \\ and \DDD outside the printable range.
QuotedCharstr(o) ==
    <<Quote>> \o FlattenSeq([i \in DOMAIN o |->
        CASE o[i] \in {Quote, Backslash} -> <<Backslash, o[i]>>
          [] o[i] \in 32..126 /\ o[i] \notin {Quote, Backslash} -> <<o[i]>>
          [] OTHER -> <<Backslash, 48 + (o[i] \div 100), 48 + ((o[i] \div 10) % 10), 48 + (o[i] % 10)>>]) \o <<Quote>>

\* to_presentation.
ToPresentation(rdata) ==
    LET segs == ReadRdata(rdata).segs
    IN  IF segs = <<>> THEN <<Quote, Quote>> ELSE Join([i \in DOMAIN segs |-> QuotedCharstr(segs[i])], Space)

\* parse_quoted_segments reads one octet: between strings ("gap" before a
\* quote, "sep" when a space must come first), inside one, inside an escape.
QuotedStep(q, c) ==
    LET push(o) == [q EXCEPT !.at = "in", !.segs[Len(q.segs)] = Append(@, o)] IN
    CASE q.at \in {"start", "gap"} /\ c = Quote -> [q EXCEPT !.at = "in", !.segs = Append(@, <<>>)]
      [] q.at \in {"sep", "gap"} /\ c = Space -> [q EXCEPT !.at = "gap"]
      [] q.at = "in" /\ c = Quote -> [q EXCEPT !.at = "sep"]
      [] q.at = "in" /\ c = Backslash -> [q EXCEPT !.at = "esc0", !.octet = 0]
      [] q.at = "in" /\ c \notin {Quote, Backslash} -> push(c)
      [] q.at = "esc0" /\ ~IsDigit(c) -> push(c)
      [] q.at = "esc0" /\ IsDigit(c) -> [q EXCEPT !.at = "esc1", !.octet = c - 48]
      [] q.at = "esc1" /\ IsDigit(c) -> [q EXCEPT !.at = "esc2", !.octet = 10 * @ + c - 48]
      [] q.at = "esc2" /\ IsDigit(c) /\ 10 * q.octet + c - 48 <= 255 -> push(10 * q.octet + c - 48)
      [] OTHER -> [q EXCEPT !.at = "bad"]

\* The quoted strings of a text, as octets.
QuotedOctets(t) ==
    LET q == FoldLeft(QuotedStep, [at |-> "start", segs |-> <<>>, octet |-> 0], t)
    IN  IF q.at \in {"sep", "gap"} THEN {q.segs} ELSE {}

\* parse_quoted_segments: short and UTF-8 each.
ParseQuotedSegments(t) ==
    {segs \in QuotedOctets(t) : \A i \in DOMAIN segs : Len(segs[i]) <= MaxCharStr /\ IsUtf8(segs[i])}

\* TxtRecordValue::parse: quoted strings, or any other text as it stands.
ParseTxt(t) ==
    IF Trim(t) # <<>> /\ Trim(t)[1] = Quote THEN UNION {FromSegments(s) : s \in ParseQuotedSegments(Trim(t))}
    ELSE IF t = <<>> THEN {} ELSE {FromString(t)}

\* RecordValueRequest of TXT: one raw string, or its segments.
TxtToEncoded(segs) == IF Len(segs) = 1 THEN {FromString(segs[1])} ELSE FromSegments(segs)

\* The TXT arm of the zone file import: UTF-8 segments only.
TxtFromFile(segs) == IF \E i \in DOMAIN segs : ~IsUtf8(segs[i]) THEN {} ELSE FromSegments(segs)

-----------------------------------------------------------------------------
(* Values that hold a name: CNAME, NS, PTR, MX and SRV                     *)

\* validate_domain_record_value.
IsDomainValue(t) ==
    LET bare == StripSuffixDot(Trim(t))
        labels == Split(bare, Dot)
    IN  /\ bare # <<>> /\ ~HasWhitespaceOrControl(t) /\ Len(bare) <= MaxDomainLen
        /\ \A i \in DOMAIN labels : IsDomainLabel(labels[i], TRUE)

\* parse_optional_u16_record_field: 10 when there is none.
Priority(opt) == IF OrElse(opt, 10) \in 0..MaxU16 THEN {OrElse(opt, 10)} ELSE {}

\* MxRecordValue::parse and SrvRecordValue::parse: nums are weight and port.
ParseHosted(type, t, prio) ==
    LET fs == Fields(t)
        nums == [i \in 1..(Len(fs) - 1) |-> ParseNumber(fs[i], MaxU16)]
    IN  IF /\ Len(fs) = (IF type = "MX" THEN 1 ELSE 3)
           /\ Priority(prio) # {} /\ \A i \in DOMAIN nums : nums[i] # {}
          THEN {[priority |-> Some(Priority(prio)), nums |-> [i \in DOMAIN nums |-> Some(nums[i])], target |-> Last(fs)]}
          ELSE {}

\* MxRecordValue::validate and SrvRecordValue::validate; "." is no host (RFC 7505).
IsHosted(type, v) ==
    IF v.target = <<Dot>> THEN type = "SRV" \/ v.priority = 0 ELSE IsDomainValue(v.target)

\* SrvRecordValue::encoded, MxRecordValue::encoded.
EncodedHosted(v) == Join([i \in DOMAIN v.nums |-> Digits[v.nums[i]]] \o <<ToFqdnLowercase(v.target)>>, Space)

\* encoded_value: the one spelling rows hold.
EncodedValue(type, t, prio) ==
    IF type \in {"MX", "SRV"} THEN {EncodedHosted(v) : v \in {v \in ParseHosted(type, Trim(t), prio) : IsHosted(type, v)}}
    ELSE IF IsDomainValue(Trim(t)) THEN {ToFqdnLowercase(Trim(t))} ELSE {}

\* validate_value: only MX and SRV have a priority.
IsValidValue(type, t, prio) ==
    /\ prio # {} => type \in {"MX", "SRV"}
    /\ EncodedValue(type, t, prio) # {}

\* canonical_value, for comparisons: the priority counts with its default.
CanonicalValue(type, t, prio) ==
    IF type \in {"MX", "SRV"}
      THEN LET vs == ParseHosted(type, t, prio)
           IN  IF vs = {} THEN t ELSE Digits[Some(vs).priority] \o <<Space>> \o EncodedHosted(Some(vs))
      ELSE ToFqdnLowercase(t)

\* display_value, with display_last_name_field.
DisplayValue(type, t) ==
    IF type \notin {"MX", "SRV"} THEN ToFqdnLowercase(t)
    ELSE LET fs == Fields(t)
         IN  IF Len(fs) = (IF type = "MX" THEN 1 ELSE 3)
               THEN Join(Append(Front(fs), ToFqdnLowercase(Last(fs))), Space) ELSE t

\* presentation_rdata: the priority stands inline.
PresentationRdata(type, t, prio) ==
    IF type \in {"MX", "SRV"} THEN Digits[OrElse(prio, 10)] \o <<Space>> \o DisplayValue(type, t)
    ELSE DisplayValue(type, t)

\* parse_zone_file moves the first field of MX and SRV to the priority.
SplitPriority(type, t) ==
    LET fs == Fields(t) IN
    IF type \in {"MX", "SRV"} /\ fs # <<>> /\ ParseNumber(fs[1], 2147483647) # {}
      THEN [value |-> Join(Tail(fs), Space), priority |-> ParseNumber(fs[1], 2147483647)]
      ELSE [value |-> t, priority |-> {}]

-----------------------------------------------------------------------------
(* The SOA mailbox and the fields of a zone                                *)

MailboxUnescaped(e) ==
    LET ps == Split(e, At) IN
    IF Len(ps) # 2 THEN {} ELSE {ps[1] \o <<Dot>> \o TrimEnd(ps[2], Dot) \o <<Dot>>}

\* SoaMailbox::from_email with escape_local_part.
MailboxFromEmail(e) ==
    LET ps == Split(e, At) IN
    IF Len(ps) # 2 THEN {}
    ELSE {Escape(ps[1], {Dot, Backslash}) \o <<Dot>> \o TrimEnd(ps[2], Dot) \o <<Dot>>}

\* decode_labels of soa: \ escapes whatever follows.
MailboxLabels(t) ==
    LET d == FoldLeft(LAMBDA d, c :
                 CASE d.esc \/ c \notin {Dot, Backslash} ->
                        [esc |-> FALSE, labels |-> [d.labels EXCEPT ![Len(d.labels)] = Append(@, c)]]
                   [] ~d.esc /\ c = Backslash -> [d EXCEPT !.esc = TRUE]
                   [] ~d.esc /\ c = Dot -> [d EXCEPT !.labels = Append(@, <<>>)],
                 [esc |-> FALSE, labels |-> <<<<>>>>], t)
    IN  IF d.esc THEN {} ELSE {d.labels}

\* SoaMailbox::to_email: up to the first unescaped dot is the local part.
MailboxToEmail(t) ==
    LET m == TrimEnd(t, Dot)
        esc(i) == i > 1 /\ Cardinality({j \in 1..(i - 1) : \A k \in j..(i - 1) : m[k] = Backslash}) % 2 = 1
        cuts == {i \in DOMAIN m : m[i] = Dot /\ ~esc(i)}
    IN  IF cuts = {} THEN {}
        ELSE LET local == MailboxLabels(SubSeq(m, 1, Min(cuts) - 1))
                 domain == SubSeq(m, Min(cuts) + 1, Len(m))
             IN  IF domain = <<>> \/ local \in {{}, {<<<<>>>>}} THEN {}
                 ELSE {Some(local)[1] \o <<At>> \o domain}

\* classify_wire_labels.
MailboxFitsWire(t) ==
    LET bare == TrimEnd(t, Dot) IN
    /\ Len(bare) <= MaxDomainLen
    /\ \E ls \in MailboxLabels(bare) : \A i \in DOMAIN ls : ls[i] # <<>> /\ Len(ls[i]) <= MaxLabelLen

\* is_valid_email_local_char: letters, digits and !#$%&'*+-/=?^_`{|}~.
IsLocalChar(c) == IsAlphanumeric(c) \/ c \in {33, 42, 43, 45, 46, 47, 61, 63} \cup (35..39) \cup (94..96) \cup (123..126)

\* validate_email_local_part.
IsLocalPart(l) ==
    /\ l # <<>> /\ Len(l) <= MaxLocalLen
    /\ l[1] # Dot /\ Last(l) # Dot
    /\ \A i \in 1..(Len(l) - 1) : ~(l[i] = Dot /\ l[i + 1] = Dot)
    /\ \A i \in DOMAIN l : IsLocalChar(l[i])

\* normalize_email: the local part as it stands, the domain as a zone name.
NormalizeEmail(t) ==
    LET e == Trim(t)
        ps == Split(e, At)
    IN  IF Len(ps) # 2 \/ HasWhitespaceOrControl(e) \/ ~IsLocalPart(ps[1]) THEN {}
        ELSE {n \in {ps[1] \o <<At>> \o d : d \in ParseZoneName(ps[2])} : Len(n) <= MaxEmailLen}

\* The admin email of validate_create_zone_request: validate_soa_wire_safety
\* measures the mailbox it becomes.
AdminEmail(t) == {e \in NormalizeEmail(t) : \E m \in MailboxFromEmail(e) : MailboxFitsWire(m)}

\* normalize_zone_name: no root, no wildcard.
NormalizeZoneName(t) ==
    LET s == Trim(t) IN
    IF s = <<Dot>> \/ s = <<42>> \/ (Len(s) > 1 /\ SubSeq(s, 1, 2) = <<42, Dot>>) THEN {} ELSE ParseZoneName(s)
=============================================================================
