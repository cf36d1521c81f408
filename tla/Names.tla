------------------------------- MODULE Names -------------------------------
(***************************************************************************)
(* Domain names as text and as labels (bindizr-core, dns/name). Text is a  *)
(* sequence of octets, a name the sequence of its decoded labels, leaf     *)
(* first; the apex is the empty sequence. What a parse returns is a set:   *)
(* the one value it accepts, or nothing when it refuses. UTF-8 is kept to  *)
(* characters of one and two octets.                                       *)
(***************************************************************************)
EXTENDS Integers, Sequences, SequencesExt, FiniteSetsExt

CONSTANTS
    MaxLabelLen,    \* MAX_DNS_LABEL_LEN, 63
    MaxDomainLen    \* MAX_DOMAIN_LEN, 253

Dot == 46
Backslash == 92
At == 64
Space == 32
Hyphen == 45
Underscore == 95

IsDigit(c) == c \in 48..57
IsUpper(c) == c \in 65..90
IsAlphanumeric(c) == IsDigit(c) \/ IsUpper(c) \/ c \in 97..122

Lowercase(t) == [i \in DOMAIN t |-> IF IsUpper(t[i]) THEN t[i] + 32 ELSE t[i]]

IsUtf8(t) ==
    \A i \in DOMAIN t :
        /\ t[i] < 128 \/ t[i] \in 128..191 \/ t[i] \in 194..223
        /\ t[i] \in 128..191 => i > 1 /\ t[i - 1] \in 194..223
        /\ t[i] \in 194..223 => i < Len(t) /\ t[i + 1] \in 128..191

\* has_whitespace_or_control, for the white space of ASCII.
HasWhitespaceOrControl(t) == \E i \in DOMAIN t : t[i] \in 0..32 \/ t[i] = 127

TrimEnd(t, c) == SubSeq(t, 1, Max({0} \cup {i \in DOMAIN t : t[i] # c}))
TrimStart(t, c) == SubSeq(t, Min({Len(t) + 1} \cup {i \in DOMAIN t : t[i] # c}), Len(t))
Trim(t) == TrimStart(TrimEnd(t, Space), Space)

\* The pieces of t between the separators c, as str::split.
Split(t, c) ==
    FoldLeft(LAMBDA ps, x : IF x = c THEN Append(ps, <<>>) ELSE [ps EXCEPT ![Len(ps)] = Append(@, x)],
             <<<<>>>>, t)

\* The non-empty pieces ps with c between them.
Join(ps, c) == FoldLeft(LAMBDA t, p : IF t = <<>> THEN p ELSE t \o <<c>> \o p, <<>>, ps)

StripSuffixDot(t) == IF t # <<>> /\ Last(t) = Dot THEN Front(t) ELSE t

-----------------------------------------------------------------------------
(* Labels and limits                                                       *)

\* Octets on the wire: a length per label and the root's zero.
WireLen(labels) == FoldLeft(LAMBDA n, l : n + Len(l) + 1, 1, labels)

\* classify_wire_len.
FitsWire(labels) == WireLen(labels) <= MaxDomainLen + 2

\* classify_owner_label.
IsOwnerLabel(l) == l # <<>> /\ Len(l) <= MaxLabelLen /\ ~HasWhitespaceOrControl(l)

\* classify_domain_label.
IsDomainLabel(l, underscore) ==
    /\ l # <<>> /\ Len(l) <= MaxLabelLen
    /\ \A i \in DOMAIN l : IsAlphanumeric(l[i]) \/ l[i] = Hyphen \/ (underscore /\ l[i] = Underscore)
    /\ l[1] # Hyphen /\ Last(l) # Hyphen

DecodeStepUnescaped(d, c) ==
    CASE d.esc = 0 /\ c = Backslash -> [d EXCEPT !.esc = 1]
      [] c = Dot -> [d EXCEPT !.esc = 0, !.labels = Append(@, <<>>)]
      [] OTHER -> [d EXCEPT !.esc = 0, !.labels[Len(d.labels)] = Append(@, c)]

\* decode_labels reads one character: esc counts the characters of an escape
\* read so far, octet is the number of its digits.
DecodeStep(d, c) ==
    CASE d.esc = 0 /\ c = Dot -> [d EXCEPT !.labels = Append(@, <<>>)]
      [] d.esc = 0 /\ c = Backslash -> [d EXCEPT !.esc = 1, !.octet = 0]
      [] d.esc = 0 \/ (d.esc = 1 /\ ~IsDigit(c)) ->
            [d EXCEPT !.esc = 0, !.labels[Len(d.labels)] = Append(@, c)]
      [] d.esc > 0 /\ IsDigit(c) /\ d.esc < 3 -> [d EXCEPT !.esc = @ + 1, !.octet = 10 * @ + c - 48]
      [] d.esc = 3 /\ IsDigit(c) /\ 10 * d.octet + c - 48 <= 255 ->
            [d EXCEPT !.esc = 0, !.labels[Len(d.labels)] = Append(@, 10 * d.octet + c - 48)]
      [] OTHER -> [d EXCEPT !.bad = TRUE]

\* decode_labels with finish_label: lowercase labels, UTF-8 each.
DecodeLabels(t) ==
    LET d == FoldLeft(DecodeStep, [labels |-> <<<<>>>>, esc |-> 0, octet |-> 0, bad |-> FALSE], t)
    IN  IF d.bad \/ d.esc # 0 \/ \E i \in DOMAIN d.labels : ~IsUtf8(d.labels[i]) THEN {}
        ELSE {[i \in DOMAIN d.labels |-> Lowercase(d.labels[i])]}

\* decode_name_labels: the root's empty label ends a name instead of being one.
DecodeNameLabels(t) ==
    {n \in {LET absolute == Len(ls) > 1 /\ Last(ls) = <<>>
            IN  [labels |-> IF absolute THEN Front(ls) ELSE ls, absolute |-> absolute] : ls \in DecodeLabels(t)} :
        (\A i \in DOMAIN n.labels : IsOwnerLabel(n.labels[i])) /\ FitsWire(n.labels)}

\* ESCAPED_IN_LABEL: . \ @ ; ( ) " $
EscapedInLabel == {Dot, Backslash, At, 59, 40, 41, 34, 36}

Escape(l, special) == FlattenSeq([i \in DOMAIN l |-> IF l[i] \in special THEN <<Backslash, l[i]>> ELSE <<l[i]>>])

\* escape_label.
EscapeLabel(l) == Escape(l, EscapedInLabel)

\* render_labels, join_labels.
JoinLabels(labels) == Join([i \in DOMAIN labels |-> EscapeLabel(labels[i])], Dot)

\* strip_zone_suffix, with is_label_suffix.
StripZoneSuffix(name, zone) ==
    IF IsSuffix(zone, name) THEN {SubSeq(name, 1, Len(name) - Len(zone))} ELSE {}

-----------------------------------------------------------------------------
(* Text that names a zone or a record                                      *)

\* to_fqdn and to_fqdn_lowercase.
ToFqdn(t) == Append(TrimEnd(t, Dot), Dot)
ToFqdnLowercase(t) == Lowercase(ToFqdn(Trim(t)))

\* to_lookup_name.
ToLookupName(t) ==
    LET s == Trim(t) IN
    IF TrimEnd(s, Dot) = <<>> \/ HasWhitespaceOrControl(s) THEN {}
    ELSE {JoinLabels(n.labels) : n \in DecodeNameLabels(s)}

\* ZoneName::parse: LDH labels; the text a row holds.
ParseZoneName(t) ==
    LET s == Trim(t)
        bare == StripSuffixDot(s)
        labels == Split(bare, Dot)
    IN  IF /\ bare # <<>> /\ ~HasWhitespaceOrControl(s) /\ Len(bare) <= MaxDomainLen
           /\ \A i \in DOMAIN labels : IsDomainLabel(labels[i], FALSE)
          THEN {Lowercase(bare)} ELSE {}

\* ZoneName::from_row and ZoneName::labels.
ZoneFromRow(t) == Lowercase(TrimEnd(t, Dot))
ZoneLabels(z) == Split(z, Dot)

\* OwnerName::parse_in_zone: "@", a relative name, or an absolute name inside
\* the zone; zone is the sequence of its labels.
ParseInZone(t, zone) ==
    LET s == Trim(t) IN
    IF TrimEnd(s, Dot) = <<>> THEN {}
    ELSE IF s = <<At>> THEN {<<>>}
    ELSE UNION {IF IsSuffix(zone, n.labels) THEN StripZoneSuffix(n.labels, zone)
                ELSE IF n.absolute \/ ~FitsWire(n.labels \o zone) THEN {} ELSE {n.labels} : n \in DecodeNameLabels(s)}

\* OwnerName::parse_absolute_in_zone.
ParseAbsoluteInZone(t, zone) ==
    IF Trim(t) = <<At>> THEN {<<>>}
    ELSE UNION {StripZoneSuffix(n.labels, zone) : n \in DecodeNameLabels(Trim(t))}

\* OwnerName::from_row: text that does not decode is one literal label.
OwnerFromRow(t) ==
    IF t = <<>> THEN <<>>
    ELSE LET ns == DecodeNameLabels(t)
         IN  IF ns = {} THEN <<Lowercase(t)>> ELSE (CHOOSE n \in ns : TRUE).labels

\* OwnerName::to_stored.
ToStored(owner) == IF owner = <<>> THEN <<>> ELSE JoinLabels(owner)

\* OwnerName::to_fqdn, zone being the zone's stored text.
OwnerToFqdn(owner, zone) == IF owner = <<>> THEN ToFqdn(zone) ELSE JoinLabels(owner) \o <<Dot>> \o ToFqdn(zone)

\* The presentation form of Display.
OwnerDisplay(owner) == IF owner = <<>> THEN <<At>> ELSE JoinLabels(owner)
=============================================================================
