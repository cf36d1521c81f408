-------------------------- MODULE Representations --------------------------
(***************************************************************************)
(* One name or value on its way through bindizr: a client spells it, a row *)
(* holds it, and from then on it is rendered - for another table, for a    *)
(* client, for a zone file, for a secondary - and read back by the parser  *)
(* of the place it was rendered for. Whatever the journey, it must stay    *)
(* the name or value it was: rows are compared as text, and a change log,  *)
(* an import or a rollback that spelled one differently would take it for  *)
(* another.                                                                *)
(*                                                                         *)
(* A spelling of a name is a sequence of tokens, each a piece of text with *)
(* what it stands for under RFC 1035, Section 5.1.                         *)
(***************************************************************************)
EXTENDS RecordText

CONSTANTS
    Tokens,        \* [text, means]: means a sequence of octets, or one of the two below
    MaxTokens,     \* bound: tokens of a spelling
    Zone,          \* the stored name of the zone records are in
    ZoneSpellings, \* texts offered as a zone name
    TxtRequests,   \* [form : {"raw", "segments", "presentation"}, of] offered as a TXT value
    Hosted,        \* [type, text, priority] offered as a value
    Emails         \* texts offered as an admin email

Boundary == <<-1>>     \* the end of a label
Malformed == <<-2>>    \* no octets: an escape that denotes none

VARIABLES
    kind,    \* what travels: "owner", "zone", "txt", "hosted" or "email"
    given,   \* as the client wrote it
    row,     \* the row's form, as a set: empty when it was refused
    view,    \* the place it was last rendered for
    text,    \* how it was rendered there
    at       \* "given", "stored", "rendered", "refused" or "lost"

vars == <<kind, given, row, view, text, at>>

Spellings == UNION {[1..n -> Tokens] : n \in 1..MaxTokens}

Spelled(ts) == FlattenSeq([i \in DOMAIN ts |-> ts[i].text])

Given(k) ==
    CASE k = "owner" -> Spellings
      [] k = "zone" -> ZoneSpellings
      [] k = "txt" -> TxtRequests
      [] k = "hosted" -> Hosted
      [] k = "email" -> Emails

Kinds == {"owner", "zone", "txt", "hosted", "email"}

Init ==
    /\ kind \in Kinds
    /\ given \in Given(kind)
    /\ row = {} /\ text = <<>> /\ view = "none" /\ at = "given"

-----------------------------------------------------------------------------
(* The steps of a journey                                                  *)

\* What the entry point of a kind makes of the client's text.
Entered ==
    CASE kind = "owner" -> ParseInZone(Spelled(given), ZoneLabels(Zone))
      [] kind = "zone" -> NormalizeZoneName(given)
      [] kind = "txt" /\ given.form = "raw" -> {FromString(given.of)}
      [] kind = "txt" /\ given.form = "segments" -> FromSegments(given.of)
      [] kind = "txt" /\ given.form = "presentation" -> ParseTxt(given.of)
      [] kind = "hosted" -> {[type |-> given.type, value |-> v, priority |-> given.priority] :
                                v \in {v \in EncodedValue(given.type, given.text, given.priority) :
                                          IsValidValue(given.type, v, given.priority)}}
      [] kind = "email" -> AdminEmail(given)

Enter ==
    /\ at = "given"
    /\ row' = Entered
    /\ at' = IF Entered = {} THEN "refused" ELSE "stored"
    /\ UNCHANGED <<kind, given, view, text>>

\* The places a kind is rendered for.
Views(k) ==
    CASE k = "owner" -> {"table", "api", "file"}
      [] k = "zone" -> {"table", "wire"}
      [] k = "txt" -> {"api", "presentation", "file"}
      [] k = "hosted" -> {"api", "file"}
      [] k = "email" -> {"snapshot"}

\* The domain crate shows the labels of an absolute name (external).
CrateDisplay(labels) == Join([i \in DOMAIN labels |-> Escape(labels[i], {Dot, Backslash})], Dot)

Rendered(r, v) ==
    CASE kind = "owner" /\ v = "table" -> ToStored(r)
      [] kind = "owner" /\ v = "api" -> OwnerToFqdn(r, Zone)
      [] kind = "owner" /\ v = "file" -> OwnerDisplay(r)
      [] kind = "zone" /\ v = "table" -> r
      [] kind = "zone" /\ v = "wire" -> ToFqdn(r)
      [] kind = "txt" /\ v = "api" -> Some(ToContent(r))
      [] kind = "txt" /\ v \in {"presentation", "file"} -> ToPresentation(r)
      [] kind = "hosted" /\ v = "api" -> DisplayValue(r.type, r.value)
      [] kind = "hosted" /\ v = "file" -> PresentationRdata(r.type, r.value, r.priority)
      [] kind = "email" -> Some(MailboxFromEmail(r))

Render ==
    /\ at = "stored"
    /\ \E v \in Views(kind) : view' = v /\ text' = Rendered(Some(row), v)
    /\ at' = "rendered"
    /\ UNCHANGED <<kind, given, row>>

\* What the parser of that place reads. The zone file parser (external)
\* qualifies a relative owner with the origin, "@" being the origin itself.
Reread ==
    LET r == Some(row) IN
    CASE kind = "owner" /\ view = "table" -> {OwnerFromRow(text)}
      [] kind = "owner" /\ view = "api" ->
            ParseInZone(text, ZoneLabels(Zone)) \cap ParseAbsoluteInZone(text, ZoneLabels(Zone))
      [] kind = "owner" /\ view = "file" ->
            UNION {ParseInZone(Lowercase(CrateDisplay(ls \o ZoneLabels(Zone))), ZoneLabels(Zone)) :
                      ls \in IF text = <<At>> THEN {<<>>} ELSE DecodeLabels(text)}
      [] kind = "zone" /\ view = "table" -> {ZoneFromRow(text)}
      [] kind = "zone" /\ view = "wire" -> ToLookupName(text)
      [] kind = "txt" /\ view = "api" -> TxtToEncoded(text)
      [] kind = "txt" /\ view = "presentation" -> ParseTxt(text)
      [] kind = "txt" /\ view = "file" -> UNION {TxtFromFile(segs) : segs \in QuotedOctets(text)}
      [] kind = "hosted" /\ view = "api" -> {[r EXCEPT !.value = v] : v \in EncodedValue(r.type, text, r.priority)}
      [] kind = "hosted" /\ view = "file" ->
            LET s == SplitPriority(r.type, text)
            IN  {[r EXCEPT !.value = v, !.priority = s.priority] : v \in EncodedValue(r.type, s.value, s.priority)}
      [] kind = "email" -> MailboxToEmail(text)

\* escape_label leaves octets beyond ASCII as they are; whether the zone file
\* parser takes them in an owner is up to it.
MayBeRefused == kind = "owner" /\ view = "file" /\ \E i \in DOMAIN text : text[i] > 127

Read ==
    /\ at = "rendered"
    /\ row' = Reread \/ (MayBeRefused /\ row' = {})
    /\ at' = IF row' = {} THEN "lost" ELSE "stored"
    /\ UNCHANGED <<kind, given, view, text>>

Next == Enter \/ Render \/ Read

Spec == Init /\ [][Next]_vars

-----------------------------------------------------------------------------
(* Looking a name up in a listing                                          *)

NormalizeFilterNameBare(t) == IF Trim(t) = <<>> THEN {} ELSE {Trim(t)}

\* normalize_filter_record_name with a zone filter: a set, empty for no filter.
NormalizeFilterName(t) ==
    LET s == Trim(t)
        absolute == ParseAbsoluteInZone(s, ZoneLabels(Zone))
        relative == ParseInZone(s, ZoneLabels(Zone))
    IN  IF s = <<>> THEN {}
        ELSE IF absolute # {} THEN {OwnerToFqdn(o, Zone) : o \in absolute}
        ELSE IF relative # {} THEN {ToStored(o) : o \in relative}
        ELSE {s}

\* What list_by_filter_with_zone compares the filter with, for a row's owner.
FilterForms(owner) ==
    LET name == ToStored(owner)
    IN  {Lowercase(name), Lowercase(IF name = <<>> THEN Append(Zone, Dot) ELSE name \o <<Dot>> \o Zone \o <<Dot>>)}

\* Owners a zone may hold beside the one at hand.
SomeOwners == UNION {ParseInZone(Spelled(ts), ZoneLabels(Zone)) : ts \in UNION {[1..n -> Tokens] : n \in 1..2}}

Listed == [o \in SomeOwners |-> FilterForms(o)]

-----------------------------------------------------------------------------
(* What a spelling stands for                                              *)

IsSpace(t) == t.text = <<Space>>

\* The tokens without the white space around them.
Core(ts) ==
    LET solid == {i \in DOMAIN ts : ~IsSpace(ts[i])}
    IN  IF solid = {} THEN <<>> ELSE SubSeq(ts, Min(solid), Max(solid))

\* The labels between the boundaries.
Labels(ts) ==
    LET cuts == SetToSortSeq({0, Len(ts) + 1} \cup {i \in DOMAIN ts : ts[i].means = Boundary}, <)
    IN  [k \in 1..(Len(cuts) - 1) |->
            Lowercase(FlattenSeq([i \in 1..(cuts[k + 1] - cuts[k] - 1) |-> ts[cuts[k] + i].means]))]

\* The owner a spelling denotes in the zone, as a set: by its tokens alone.
Denoted(spelling) ==
    LET ts == Core(spelling)
        zone == ZoneLabels(Zone)
        rooted == ts # <<>> /\ Last(ts).means = Boundary
        ls == Labels(IF rooted THEN Front(ts) ELSE ts)
        full == IF IsSuffix(zone, ls) THEN ls ELSE ls \o zone
    IN  IF Len(ts) = 1 /\ ts[1].text = <<At>> THEN {<<>>}
        ELSE IF \/ ts = <<>> \/ \E i \in DOMAIN ts : ts[i].means = Malformed
                \/ rooted /\ full # ls
                \/ \E i \in DOMAIN ls : ~IsOwnerLabel(ls[i]) \/ ~IsUtf8(ls[i])
                \/ ~FitsWire(full)
          THEN {} ELSE {SubSeq(full, 1, Len(full) - Len(zone))}

-----------------------------------------------------------------------------
(* Properties                                                              *)

\* An owner is stored exactly when its spelling denotes a name of the zone,
\* and as that name: escapes never move a label boundary, an escaped "@" is
\* no apex, a trailing escaped dot is no root (OwnerName::parse_in_zone).
SpellingDenotes ==
    kind = "owner" /\ at \in {"stored", "refused"} => row = Denoted(given)

\* Rendering a stored name or value and reading it back gives the very same
\* row, in every place bindizr renders it for (to_stored/from_row, the API,
\* zone export and import, TXT presentation form, the SOA snapshot's mailbox);
\* for MX and SRV a missing priority may come back as its default. The import of an
\* exported owner with octets beyond ASCII may be refused, never misread.
ReadsBackSame ==
    [][ Read =>
          IF kind = "hosted"
            THEN /\ Cardinality(row') = 1
                 /\ Some(row').value = Some(row).value
                 /\ CanonicalValue(Some(row).type, Some(row').value, Some(row').priority)
                      = CanonicalValue(Some(row).type, Some(row).value, Some(row).priority)
            ELSE row' = row \/ (MayBeRefused /\ row' = {}) ]_vars

\* Whatever was stored fits the wire: owners with their zone, mailboxes label
\* by label, zones by their labels, TXT as strings of at most 255 octets, which
\* for a long string are cut between its characters and lose none of them
\* (classify_wire_len, validate_soa_wire_safety, from_string).
StoredFitsWire ==
    at = "stored" =>
        LET r == Some(row) IN
        CASE kind = "owner" -> /\ FitsWire(r \o ZoneLabels(Zone))
                               /\ \A i \in DOMAIN r : Len(r[i]) \in 1..MaxLabelLen
          [] kind = "zone" -> FitsWire(ZoneLabels(r)) /\ \A i \in DOMAIN ZoneLabels(r) : Len(ZoneLabels(r)[i]) \in 1..MaxLabelLen
          [] kind = "txt" -> /\ IsValidTxtRdata(r)
                             /\ \A i \in DOMAIN ReadRdata(r).segs : Len(ReadRdata(r).segs[i]) <= MaxCharStr
                             /\ given.form = "raw" => \E segs \in ToContent(r) : FlattenSeq(segs) = given.of
          [] kind = "hosted" -> TRUE
          [] kind = "email" ->
                LET ls == Some(MailboxLabels(TrimEnd(Some(MailboxFromEmail(r)), Dot))) IN
                FitsWire(ls) /\ \A i \in DOMAIN ls : Len(ls[i]) \in 1..MaxLabelLen

\* The spelling a record was created with, given as the name filter of a
\* listing, selects that record and no record of another owner: however it is
\* escaped, capitalised or qualified (normalize_filter_record_name).
FilterFindsRow ==
    kind = "owner" /\ at = "stored" /\ view = "none" =>
        \E f \in NormalizeFilterName(Spelled(given)) :
            /\ Lowercase(f) \in FilterForms(Some(row))
            /\ \A o \in SomeOwners : Lowercase(f) \in Listed[o] => o = Some(row)
=============================================================================
