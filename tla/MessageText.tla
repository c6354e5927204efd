---------------------------- MODULE MessageText ----------------------------
(***************************************************************************)
(* What the notifiers put on the wire: the mbox record appended to a spool *)
(* (mail::mbox) and the Discord embed of a finished run (discord::embed).  *)
(* A line is blank, or the number of '>' in front of it and whether        *)
(* "From " follows; a text of an embed is the sequence of the sizes, in    *)
(* bytes, of its code points.                                              *)
(***************************************************************************)
EXTENDS Integers, Sequences, FiniteSets, SequencesExt

CONSTANTS
    Bodies,               \* rendered mail bodies, split at the newlines: never empty
    Subjects,             \* rendered subjects: sequences of header characters
    Rendered,             \* rendered or default texts of an embed
    MaxMails,             \* bound: records in the spool
    MaxJobs,              \* bound: jobs of a run
    FIELD_COUNT, FIELD_NAME_LENGTH, FIELD_VALUE_LENGTH,
    TEXT_LENGTH,          \* of the title, the description and the footer, taken as one
    EMBED_TOTAL_LENGTH

Line(quotes, from) == [kind |-> "text", quotes |-> quotes, from |-> from]
Blank == [kind |-> "blank", quotes |-> 0, from |-> FALSE]
Header == [kind |-> "header", quotes |-> 0, from |-> FALSE]
Separator == Line(0, TRUE)

BodyLine == [kind : {"text"}, quotes : Nat, from : BOOLEAN] \cup {Blank}

ASSUME TextAssumption ==
    /\ Bodies \subseteq Seq(BodyLine) /\ <<>> \notin Bodies
    /\ Subjects \subseteq Seq({"char", "control", "space"})
    /\ Rendered \subseteq Seq(1 .. 4) /\ MaxMails \in Nat /\ MaxJobs \in Nat
    /\ FIELD_COUNT \in Nat \ {0} /\ EMBED_TOTAL_LENGTH \in Nat
    /\ {FIELD_NAME_LENGTH, FIELD_VALUE_LENGTH, TEXT_LENGTH} \subseteq Nat \ {0}

VARIABLES
    mailed,   \* the bodies delivered, in order
    mbox,     \* the lines of the spool file
    embed,    \* the embed last built, and the jobs it was built from
    posted    \* whether it was sent

textVars == <<mailed, mbox, embed, posted>>

-----------------------------------------------------------------------------
(* mail::mbox. *)

\* sanitize_header: every control character becomes a space, so a header is one line.
SanitizeHeader(s) == [i \in DOMAIN s |-> IF s[i] = "control" THEN "space" ELSE s[i]]
\* Lines a header takes when it is written as it is.
HeaderLines(s) == [i \in 1 .. 1 + Cardinality({k \in DOMAIN s : s[k] = "control"}) |->
                     IF i = 1 THEN Header ELSE Separator]

\* Faulty variant: only a bare "From " is quoted.
QuoteBareOnly(line) == line.from /\ line.quotes = 0

\* needs_mboxrd_quote: "From " after any number of '>'.
NeedsQuote(line) == line.from

\* escape_mboxrd.
EscapeMboxrd(body) ==
    [i \in DOMAIN body |-> IF NeedsQuote(body[i]) THEN [body[i] EXCEPT !.quotes = @ + 1]
                           ELSE body[i]]

\* A final newline of the body is not doubled.
Ended(body) == IF Last(body) = Blank THEN Front(body) ELSE body

\* format_message: the From line, five headers and the subject, a blank line, the
\* body and a blank line.
FormatMessage(subject, body) ==
    <<Separator, Header, Header, Header>> \o HeaderLines(SanitizeHeader(subject))
    \o <<Header, Header, Blank>> \o EscapeMboxrd(Ended(body)) \o <<Blank>>

\* A mail reader (external): a record starts at a "From " line, its body after the
\* first blank line; one '>' is taken off the quoted lines.
RecordStarts(lines) == {i \in DOMAIN lines : lines[i] = Separator}
\* The k-th of them.
RecordStart(lines, k) ==
    CHOOSE i \in RecordStarts(lines) : Cardinality({j \in RecordStarts(lines) : j <= i}) = k
RecordLines(lines, k) ==
    SubSeq(lines, RecordStart(lines, k),
           IF k = Cardinality(RecordStarts(lines)) THEN Len(lines) ELSE RecordStart(lines, k + 1) - 1)
Unquoted(line) == IF line.from THEN [line EXCEPT !.quotes = @ - 1] ELSE line
BodyOf(record) ==
    LET gap == CHOOSE i \in DOMAIN record :
                  record[i] = Blank /\ \A j \in 1 .. i - 1 : record[j] # Blank
        body == SubSeq(record, gap + 1, Len(record) - 1)
    IN  [i \in DOMAIN body |-> Unquoted(body[i])]
ReadSpool(lines) ==
    [k \in 1 .. Cardinality(RecordStarts(lines)) |-> BodyOf(RecordLines(lines, k))]

\* on_run_complete_inner, as far as the text goes.
Mail(subject, body) ==
    /\ Len(mailed) < MaxMails
    /\ mailed' = Append(mailed, body)
    /\ mbox' = mbox \o FormatMessage(subject, body)
    /\ UNCHANGED <<embed, posted>>

-----------------------------------------------------------------------------
(* discord::embed. *)

Ellipsis == <<3>>

\* truncate_codepoints: the last code point kept is an ellipsis.
Truncated(t, max) == IF Len(t) <= max THEN t ELSE SubSeq(t, 1, max - 1) \o Ellipsis

\* build_expanded_fields: all jobs, or all but the last field's worth and a count.  A
\* field stands for the jobs it tells of.
Cap(jobs) == IF jobs > FIELD_COUNT THEN FIELD_COUNT - 1 ELSE FIELD_COUNT

ShownJobs(jobs) == IF jobs > Cap(jobs) THEN Cap(jobs) ELSE jobs

Field(name, value, jobs) ==
    [name |-> Truncated(name, FIELD_NAME_LENGTH), value |-> Truncated(value, FIELD_VALUE_LENGTH),
     stands |-> jobs]

\* "and {} more job(s)", the default summary and the like: a text of plain letters.
Wording == <<1>>

ExpandedFields(jobs, name, value) ==
    [i \in 1 .. ShownJobs(jobs) |-> Field(name, value, {i})]
    \o (IF jobs > FIELD_COUNT THEN <<Field(Ellipsis, Wording, Cap(jobs) + 1 .. jobs)>> ELSE <<>>)

\* build_collapsed_fields: one field for them all.
CollapsedFields(jobs, value) == <<Field(Wording, value, 1 .. jobs)>>

\* embed_codepoint_count, and the same sum in bytes.
CodepointCount(e) ==
    FoldLeft(LAMBDA sum, f : sum + Len(f.name) + Len(f.value), Len(e.text), e.fields)
Bytes(t) == FoldLeft(+, 0, t)
ByteCount(e) == FoldLeft(LAMBDA sum, f : sum + Bytes(f.name) + Bytes(f.value), Bytes(e.text), e.fields)

\* twilight_validate::embed::embed (external): the limits of the texts, which are kept
\* by construction, the total in bytes and, in some of its versions, no empty field text.
Validates(e, strict) ==
    /\ ByteCount(e) <= EMBED_TOTAL_LENGTH
    /\ strict => \A i \in DOMAIN e.fields : e.fields[i].name # <<>> /\ e.fields[i].value # <<>>

\* build_run_complete_embed.
Embed(jobs, collapse, text, name, value) ==
    [jobs |-> jobs, text |-> Truncated(text, TEXT_LENGTH),
     fields |-> IF collapse THEN CollapsedFields(jobs, value) ELSE ExpandedFields(jobs, name, value)]

\* deliver asks the validator and then compares the total in code points; a refused
\* embed is a Permanent failure and is not sent.
Post(jobs, collapse, text, name, value) ==
    /\ embed' = Embed(jobs, collapse, text, name, value)
    /\ \E strict \in BOOLEAN :
          posted' = (Validates(embed', strict) /\ CodepointCount(embed') <= EMBED_TOTAL_LENGTH)
    /\ UNCHANGED <<mailed, mbox>>

TextInit ==
    /\ mailed = <<>> /\ mbox = <<>>
    /\ embed = [jobs |-> 0, text |-> <<>>, fields |-> <<>>] /\ posted = FALSE

MailSome == \E s \in Subjects, b \in Bodies : Mail(s, b)

PostSome ==
    \E jobs \in 0 .. MaxJobs, collapse \in BOOLEAN, text, name, value \in Rendered :
       Post(jobs, collapse, text, name, value)

TextNext == MailSome \/ PostSome

TextSpec == TextInit /\ [][TextNext]_textVars

-----------------------------------------------------------------------------
\* Whatever the templates render and however many jobs the run has, no part of the
\* embed is over the limit Discord has for it, and every job is told of once, by
\* itself or in a count (build_expanded_fields reserves the last field for it).
EmbedIsComplete ==
    /\ Len(embed.fields) <= FIELD_COUNT /\ Len(embed.text) <= TEXT_LENGTH
    /\ \A i \in DOMAIN embed.fields : /\ Len(embed.fields[i].name) <= FIELD_NAME_LENGTH
                                     /\ Len(embed.fields[i].value) <= FIELD_VALUE_LENGTH
                                     /\ embed.fields[i].stands \subseteq 1 .. embed.jobs
    /\ \A j \in 1 .. embed.jobs :
          \E i \in DOMAIN embed.fields :
             \A k \in DOMAIN embed.fields : j \in embed.fields[k].stands <=> k = i

\* discord/embed.rs:41-42: "Result is guaranteed to pass `twilight_validate::embed::embed`."
\* The limits of the single texts add up to more than the total, so the code does not
\* keep this: a run with many failed jobs, or long texts, is not notified of at all.
EmbedIsValid == Validates(embed, FALSE)

\* Whatever subject and body a template renders, lines that look like a separator or
\* like a quoted one included, a reader of the spool finds the records gcit wrote (but
\* for a final newline).
SpoolReadsBack == ReadSpool(mbox) = [k \in DOMAIN mailed |-> Ended(mailed[k])]

MessagesReadBack == SpoolReadsBack /\ EmbedIsComplete

=============================================================================
