----------------------------- MODULE CsvReader ------------------------------
(***************************************************************************)
(* csv::Reader (csv/reader.rs): records are parsed out of a buffer that is *)
(* filled, at any point of a record, with as many bytes as the source      *)
(* likes, and compacted between records.                                   *)
(*                                                                         *)
(* A byte is what the parser tells apart: "d" the delimiter, "q" a quote,  *)
(* "r" and "n" the line ends, "b" any other.  Positions count from 0, as   *)
(* in the code: the byte at position i of buf is buf[i + 1], and end, which *)
(* is always buf.len(), is Len(buf).  An action is one round of the loop   *)
(* of read_row, or the rest of a call up to the next read of the source.   *)
(* max_record_bytes is not set (the default).                              *)
(***************************************************************************)
EXTENDS Naturals, Sequences, FiniteSets, FiniteSetsExt, SequencesExt

CONSTANTS
  Bytes,    \* the bytes of the inputs
  MaxLen,   \* bound on the length of an input
  Bom,      \* the byte-order mark, a sequence of ordinary bytes
  Configs,  \* [flexible, strip, field, columns]: the settings of a reader
  NoLimit,  \* a limit that is not set
  Failing,  \* the source may fail
  CompactFrom  \* what is consumed is always dropped from here on (4096)

ASSUME CsvAssumption ==
  /\ Bytes \subseteq {"d", "q", "r", "n", "b"}
  /\ MaxLen \in Nat /\ CompactFrom \in Nat
  /\ Bom \in Seq({"b"})
  /\ \A c \in Configs : c \in [flexible : BOOLEAN, strip : BOOLEAN,
                               field : Nat \cup {NoLimit}, columns : Nat \cup {NoLimit}]

VARIABLES
  input,    \* all the bytes of the source (history)
  source,   \* those it has not handed out
  config,
  rd,       \* the fields of Reader
  call,     \* where the iterator's current call is
  rows,     \* the rows it has returned
  failed    \* history: the places where a read failed

csvVars == <<input, source, config, rd, call, rows, failed>>

Newline == {"r", "n"}
Row(fields, err, line) == [fields |-> fields, err |-> err, line |-> line]

CsvTypeOK ==
  /\ source \in Seq(Bytes)
  /\ rd.start \in 0..Len(rd.buf)
  /\ rd.state \in {"StartOfField", "InUnquoted", "InQuoted", "AfterQuote"}
  /\ rd.num \in Nat
  /\ call \in {"idle", "bom", "loop", "quote", "skip", "done"}
  /\ \A f \in Range(rd.ranges) :
       f.start <= f.end /\ f.end <= Len(IF f.src = "buf" THEN rd.buf ELSE rd.scratch)

NewReader ==
  [buf |-> <<>>, scratch |-> <<>>, ranges |-> <<>>, start |-> 0, line |-> 1,
   record_line |-> 1, field_start |-> 0, scratch_field_start |-> 0,
   state |-> "StartOfField", num |-> 0, pending_cr |-> FALSE,
   pending_lf_quoted |-> FALSE, bom_checked |-> FALSE, eof |-> FALSE]

CsvInit ==
  /\ input \in BoundedSeq(Bytes, MaxLen)
  /\ source = input
  /\ config \in Configs
  /\ rd = NewReader
  /\ call = "idle"
  /\ rows = <<>>
  /\ failed = {}

-----------------------------------------------------------------------------
(* Helpers of the parser. *)

Byte == rd.buf[rd.start + 1]
Slice(s, from, to) == SubSeq(s, from + 1, to)

\* memchr: the position of the first byte of S from start on, or end.
Find(S) ==
  Min({Len(rd.buf)} \cup {i \in rd.start..(Len(rd.buf) - 1) : rd.buf[i + 1] \in S})

\* A field of the current row, as ranges records it.
Raw(src, from, to) == [src |-> src, start |-> from, end |-> to]
Push(x, f) == [x EXCEPT !.ranges = Append(@, f)]
Empty == Raw("buf", rd.start, rd.start)
Scratch(x) == Raw("scratch", x.scratch_field_start, Len(x.scratch))

Finalize(x) ==
  CASE x.state = "InUnquoted" -> Push(x, Raw("buf", x.field_start, x.start))
    [] x.state = "StartOfField" /\ x.ranges # <<>> -> Push(x, Raw("buf", x.start, x.start))
    [] OTHER -> x

\* Mutant: a "\r" that ends the buffer is a line end of its own.
ConsumeNewlineForgetful(x) ==
  LET crlf == x.buf[x.start + 1] = "r" /\ x.start + 1 < Len(x.buf) /\ x.buf[x.start + 2] = "n"
  IN [x EXCEPT !.start = @ + (IF crlf THEN 2 ELSE 1), !.line = @ + 1]

\* consume_newline: a "\r" that ends the buffer may have its "\n" in the next.
ConsumeNewline(x) ==
  LET cr == x.buf[x.start + 1] = "r"
      last == x.start + 1 = Len(x.buf)
      crlf == cr /\ ~last /\ x.buf[x.start + 2] = "n"
  IN [x EXCEPT !.start = @ + (IF crlf THEN 2 ELSE 1), !.line = @ + 1,
               !.pending_cr = @ \/ (cr /\ last)]

\* count_line_breaks on the next slice of quoted content.
CountLineBreaks(x, bytes) ==
  LET breaks == {i \in 1..Len(bytes) :
                   \/ bytes[i] = "r"
                   \/ bytes[i] = "n" /\ IF i = 1 THEN ~x.pending_lf_quoted
                                                 ELSE bytes[i - 1] # "r"}
  IN [x EXCEPT !.line = @ + Cardinality(breaks),
               !.pending_lf_quoted = IF bytes = <<>> THEN @ ELSE Last(bytes) = "r"]

\* build_row: the row returned, and the field count the first good row sets.
BuildRow(x, err) ==
  LET Bytes_(f) == Slice(IF f.src = "buf" THEN x.buf ELSE x.scratch, f.start, f.end)
      count == Len(x.ranges)
      error == IF err = "none" /\ ~config.flexible /\ x.num \notin {0, count}
               THEN "count" ELSE err
  IN /\ rows' = Append(rows, Row([i \in 1..count |-> Bytes_(x.ranges[i])], error, x.record_line))
     /\ rd' = IF x.num = 0 /\ error = "none" THEN [x EXCEPT !.num = count] ELSE x

Return(x, err) == BuildRow(x, err) /\ call' = "idle"

\* fill_buf: the source appends some bytes ...
More ==
  /\ ~rd.eof
  /\ \E n \in 1..Len(source) :
       /\ rd' = [rd EXCEPT !.buf = @ \o SubSeq(source, 1, n)]
       /\ source' = SubSeq(source, n + 1, Len(source))

\* ... or has no more ...
AtEof == rd.eof \/ source = <<>>

\* ... or fails, or breaks the contract of Read; the bytes stay where they are.
ReadFails(place) == Failing /\ ~rd.eof /\ failed' = failed \cup {place}

\* abandon_record for an exceeded limit: what is left is not read.
Refuse(x, err) == Return([x EXCEPT !.start = Len(x.buf), !.eof = TRUE], err)

FieldTooLong(n) == config.field # NoLimit /\ n > config.field

-----------------------------------------------------------------------------
(* read_row. *)

\* compact: little consumed of a buffer is left where it is.
Compact(x) ==
  IF x.start = 0 \/ (x.start < CompactFrom /\ x.start * 2 < Len(x.buf)) THEN x
  ELSE [x EXCEPT !.buf = Slice(@, x.start, Len(@)), !.start = 0]

\* The head of read_row.
ReadRow ==
  /\ call = "idle"
  /\ rd' = [Compact(rd) EXCEPT !.ranges = <<>>, !.scratch = <<>>,
              !.state = "StartOfField", !.pending_lf_quoted = FALSE,
              !.record_line = rd.line, !.bom_checked = TRUE]
  /\ call' = IF rd.bom_checked \/ ~config.strip THEN "loop" ELSE "bom"
  /\ UNCHANGED <<input, source, config, rows, failed>>

\* strip_leading_bom: reads ahead until it can tell.
BomMore ==
  /\ call = "bom" /\ Len(rd.buf) < Len(Bom) /\ More
  /\ UNCHANGED <<input, config, call, rows, failed>>

BomEof ==
  /\ call = "bom" /\ Len(rd.buf) < Len(Bom) /\ ~rd.eof /\ AtEof
  /\ rd' = [rd EXCEPT !.eof = TRUE]
  /\ UNCHANGED <<input, source, config, call, rows, failed>>

BomStrip ==
  /\ call = "bom" /\ (Len(rd.buf) >= Len(Bom) \/ rd.eof)
  /\ rd' = IF IsPrefix(Bom, rd.buf) THEN [rd EXCEPT !.start = Len(Bom)] ELSE rd
  /\ call' = "loop"
  /\ UNCHANGED <<input, source, config, rows, failed>>

BomFails ==
  /\ call = "bom" /\ Len(rd.buf) < Len(Bom) /\ ReadFails("bom")
  /\ Return([rd EXCEPT !.eof = TRUE], "io")
  /\ UNCHANGED <<input, source, config>>

\* The buffer is used up: more bytes, or the end of the input, or an error.
LoopMore ==
  /\ call = "loop" /\ rd.start = Len(rd.buf) /\ More
  /\ UNCHANGED <<input, config, call, rows, failed>>

LoopEof ==
  LET x == [rd EXCEPT !.eof = TRUE] IN
  /\ call = "loop" /\ rd.start = Len(rd.buf) /\ AtEof
  /\ CASE rd.ranges = <<>> /\ rd.state = "StartOfField" ->
            rd' = x /\ call' = "done" /\ UNCHANGED rows
       [] rd.state = "InQuoted" -> Return(x, "unterminated")
       [] OTHER -> Return(Finalize(x), "none")
  /\ UNCHANGED <<input, source, config, failed>>

LoopFails ==
  /\ call = "loop" /\ rd.start = Len(rd.buf) /\ ReadFails("loop")
  /\ Return(Finalize([rd EXCEPT !.eof = TRUE]), "io")
  /\ UNCHANGED <<input, source, config>>

\* limit_exceeded is asked before any byte is looked at.
TooManyColumns == config.columns # NoLimit /\ Len(rd.ranges) > config.columns
Parsing == call = "loop" /\ rd.start < Len(rd.buf) /\ ~TooManyColumns
ParsingIn(s) == Parsing /\ ~rd.pending_cr /\ rd.state = s

RefuseColumns ==
  /\ call = "loop" /\ rd.start < Len(rd.buf) /\ TooManyColumns
  /\ Refuse(rd, "columns")
  /\ UNCHANGED <<input, source, config, failed>>

\* Mutant: the flag is reset only if there is a "\n".
PendingCrKept ==
  /\ Parsing /\ rd.pending_cr
  /\ rd' = IF Byte = "n" THEN [rd EXCEPT !.pending_cr = FALSE, !.start = @ + 1] ELSE rd
  /\ UNCHANGED <<input, source, config, call, rows, failed>>

\* The "\n" of a "\r" that ended the previous buffer.
PendingCr ==
  /\ Parsing /\ rd.pending_cr
  /\ rd' = [rd EXCEPT !.pending_cr = FALSE, !.start = IF Byte = "n" THEN @ + 1 ELSE @]
  /\ UNCHANGED <<input, source, config, call, rows, failed>>

StartOfField ==
  /\ ParsingIn("StartOfField")
  /\ IF Byte \in Newline /\ rd.ranges # <<>>
     THEN Return(ConsumeNewline(Push(rd, Empty)), "none")
     ELSE /\ rd' = CASE Byte \in Newline -> ConsumeNewline(rd)
                     [] Byte = "d" -> [Push(rd, Empty) EXCEPT !.start = @ + 1, !.field_start = rd.start]
                     [] Byte = "q" -> [rd EXCEPT !.start = @ + 1, !.field_start = rd.start, !.state = "InQuoted",
                                                 !.scratch_field_start = Len(rd.scratch)]
                     [] OTHER -> [rd EXCEPT !.start = @ + 1, !.field_start = rd.start, !.state = "InUnquoted"]
          /\ UNCHANGED <<call, rows>>
  /\ UNCHANGED <<input, source, config, failed>>

InUnquoted ==
  LET pos == Find({"d"} \cup Newline)
      x == [Push(rd, Raw("buf", rd.field_start, pos)) EXCEPT !.start = pos]
  IN
  /\ ParsingIn("InUnquoted")
  /\ CASE FieldTooLong(pos - rd.field_start) -> Refuse(rd, "field")
       [] ~FieldTooLong(pos - rd.field_start) /\ pos = Len(rd.buf) ->
            rd' = [rd EXCEPT !.start = pos] /\ UNCHANGED <<call, rows>>
       [] OTHER -> IF rd.buf[pos + 1] = "d"
                   THEN /\ rd' = [x EXCEPT !.start = pos + 1, !.state = "StartOfField"]
                        /\ UNCHANGED <<call, rows>>
                   ELSE Return(ConsumeNewline(x), "none")
  /\ UNCHANGED <<input, source, config, failed>>

\* Quoted content up to the next quote or the end of the buffer.  If the quote
\* is the last byte there, the next one is needed to tell what it is.
InQuoted ==
  LET pos == Find({"q"})
      bytes == Slice(rd.buf, rd.start, pos)
      x == [CountLineBreaks(rd, bytes) EXCEPT !.scratch = @ \o bytes]
      y == [x EXCEPT !.pending_lf_quoted = FALSE]
  IN
  /\ ParsingIn("InQuoted")
  /\ CASE FieldTooLong(Len(x.scratch) - rd.scratch_field_start) ->
            Refuse(IF pos = Len(rd.buf) THEN x ELSE rd, "field")
       [] ~FieldTooLong(Len(x.scratch) - rd.scratch_field_start) /\ pos = Len(rd.buf) ->
            rd' = [x EXCEPT !.start = pos] /\ UNCHANGED <<call, rows>>
       [] OTHER ->
            /\ UNCHANGED rows
            /\ IF pos + 1 = Len(rd.buf)
               THEN rd' = [y EXCEPT !.start = pos + 1] /\ call' = "quote"
               ELSE /\ UNCHANGED call
                    /\ rd' = IF rd.buf[pos + 2] = "q"
                             THEN [y EXCEPT !.scratch = Append(@, "q"), !.start = pos + 2]
                             ELSE [Push(y, Scratch(y)) EXCEPT !.start = pos + 1, !.state = "AfterQuote"]
  /\ UNCHANGED <<input, source, config, failed>>

Closed(x) == [Push(x, Scratch(x)) EXCEPT !.state = "AfterQuote"]

\* fill_buf after a quote that ended the buffer.
QuoteMore ==
  /\ call = "quote" /\ ~rd.eof
  /\ \E n \in 1..Len(source) :
       LET x == [rd EXCEPT !.buf = @ \o SubSeq(source, 1, n)] IN
       /\ rd' = IF x.buf[x.start + 1] = "q"
                THEN [x EXCEPT !.scratch = Append(@, "q"), !.start = @ + 1]
                ELSE Closed(x)
       /\ source' = SubSeq(source, n + 1, Len(source))
  /\ call' = "loop"
  /\ UNCHANGED <<input, config, rows, failed>>

QuoteEof ==
  /\ call = "quote" /\ AtEof
  /\ rd' = Closed([rd EXCEPT !.eof = TRUE])
  /\ call' = "loop"
  /\ UNCHANGED <<input, source, config, rows, failed>>

\* An error of the source here does not set eof; the one fill_buf makes of a
\* read without progress does.
QuoteFails ==
  /\ call = "quote" /\ ReadFails("quote")
  /\ \E eof \in BOOLEAN : Return([Closed(rd) EXCEPT !.eof = eof], "io")
  /\ UNCHANGED <<input, source, config>>

\* Anything but a delimiter or a line end makes the record malformed.
AfterQuote ==
  /\ ParsingIn("AfterQuote")
  /\ CASE Byte = "d" -> /\ rd' = [rd EXCEPT !.start = @ + 1, !.state = "StartOfField"]
                        /\ UNCHANGED <<call, rows>>
       [] Byte \in Newline -> Return(ConsumeNewline(rd), "none")
       [] OTHER -> call' = "skip" /\ UNCHANGED <<rd, rows>>
  /\ UNCHANGED <<input, source, config, failed>>

-----------------------------------------------------------------------------
(* abandon_record and skip_record_tail: on to the next record boundary.    *)
(* pending_cr is not set here: the loop resets it before it parses a byte. *)

Skip ==
  LET pos == Find(Newline) IN
  /\ call = "skip" /\ rd.start < Len(rd.buf)
  /\ IF pos = Len(rd.buf)
     THEN rd' = [rd EXCEPT !.start = pos] /\ UNCHANGED <<call, rows>>
     ELSE Return(ConsumeNewline([rd EXCEPT !.start = pos]), "trailing")
  /\ UNCHANGED <<input, source, config, failed>>

SkipMore ==
  /\ call = "skip" /\ rd.start = Len(rd.buf) /\ More
  /\ UNCHANGED <<input, config, call, rows, failed>>

SkipEnds ==
  /\ call = "skip" /\ rd.start = Len(rd.buf)
  /\ \/ AtEof /\ UNCHANGED failed
     \/ ReadFails("skip")
  /\ Return([rd EXCEPT !.eof = TRUE], "trailing")
  /\ UNCHANGED <<input, source, config>>

Parse == RefuseColumns \/ PendingCr \/ StartOfField \/ InUnquoted \/ InQuoted \/ AfterQuote \/ Skip
Fill == BomMore \/ LoopMore \/ QuoteMore \/ SkipMore
End == BomEof \/ LoopEof \/ QuoteEof \/ SkipEnds
Fail == BomFails \/ LoopFails \/ QuoteFails

CsvNext == ReadRow \/ BomStrip \/ Parse \/ Fill \/ End \/ Fail

CsvSpec == CsvInit /\ [][CsvNext]_csvVars

\* The caller asks for the next row until there is none.
CsvFairSpec == CsvSpec /\ WF_csvVars(CsvNext)

-----------------------------------------------------------------------------
(* What the rows of an input are, byte by byte and without a buffer.  It is *)
(* the code's parser, not a specification of CSV: what the rows must not   *)
(* depend on is how the source splits the input.  Where a doc says         *)
(* otherwise, it follows the code: the column limit is looked at before a  *)
(* byte and not at the end of a record (ColumnsWithinLimit), and the line  *)
(* of a record is the one on which the call that returns it began, the     *)
(* empty lines before the record included.                                 *)

Start == [rows |-> <<>>, fields |-> <<>>, cur |-> <<>>, st |-> "start", cr |-> FALSE,
          line |-> 1, from |-> 1, num |-> 0]

\* A record ends with what err says; the next one starts on line l.
EndOf(s, fields, err, l) ==
  LET error == IF err = "none" /\ ~config.flexible /\ s.num \notin {0, Len(fields)}
               THEN "count" ELSE err
  IN [s EXCEPT !.rows = Append(@, Row(fields, error, s.from)),
               !.fields = <<>>, !.cur = <<>>, !.st = "start", !.line = l, !.from = l,
               !.num = IF @ = 0 /\ error = "none" THEN Len(fields) ELSE @]

\* It ends with the line end c.
EndLine(s, fields, err, c) == [EndOf(s, fields, err, s.line + 1) EXCEPT !.cr = c = "r"]

Stop(s, err) == [EndOf(s, s.fields, err, s.line) EXCEPT !.st = "stop"]
TooLong(cur) == config.field # NoLimit /\ Len(cur) > config.field
TooWide(s) == config.columns # NoLimit /\ Len(s.fields) > config.columns

\* A byte where a field may start.
StartByte(s, c) ==
  CASE c = "n" /\ s.cr -> [s EXCEPT !.cr = FALSE]
    [] c \in Newline /\ ~(c = "n" /\ s.cr) ->
         IF s.fields = <<>> THEN [s EXCEPT !.line = @ + 1, !.cr = c = "r"]
                            ELSE EndLine(s, Append(s.fields, <<>>), "none", c)
    [] c = "d" -> [s EXCEPT !.fields = Append(@, <<>>), !.cr = FALSE]
    [] c = "q" -> [s EXCEPT !.st = "quoted", !.cr = FALSE]
    [] c = "b" -> [s EXCEPT !.st = "unquoted", !.cur = <<c>>, !.cr = FALSE]

\* In a field without quotes.
UnquotedByte(s, c) ==
  LET last == c \in {"d"} \cup Newline
      done == Append(s.fields, s.cur)
  IN CASE TooLong(IF last THEN s.cur ELSE Append(s.cur, c)) -> Stop(s, "field")
       [] ~TooLong(IF last THEN s.cur ELSE Append(s.cur, c)) ->
            CASE c = "d" -> [s EXCEPT !.fields = done, !.cur = <<>>, !.st = "start"]
              [] c \in Newline -> EndLine(s, done, "none", c)
              [] ~last -> [s EXCEPT !.cur = Append(@, c)]

\* In a quoted field: a line end counts, and "\r\n" counts once.
QuotedByte(s, c) ==
  CASE TooLong(IF c = "q" THEN s.cur ELSE Append(s.cur, c)) -> Stop(s, "field")
    [] ~TooLong(IF c = "q" THEN s.cur ELSE Append(s.cur, c)) ->
         IF c = "q" THEN [s EXCEPT !.st = "quote", !.cr = FALSE]
         ELSE [s EXCEPT !.cur = Append(@, c), !.cr = c = "r",
                        !.line = IF c = "r" \/ (c = "n" /\ ~s.cr) THEN @ + 1 ELSE @]

\* After the closing quote, the field being one of s.fields.
AfterByte(s, c) ==
  CASE TooWide(s) -> Stop(s, "columns")
    [] ~TooWide(s) -> CASE c = "d" -> [s EXCEPT !.st = "start"]
                        [] c \in Newline -> EndLine(s, s.fields, "none", c)
                        [] OTHER -> [s EXCEPT !.st = "skip"]

\* After a quote in a quoted field: a second one is a quote of the field.
QuoteByte(s, c) ==
  IF c = "q" THEN [s EXCEPT !.st = "quoted", !.cur = Append(@, c)]
  ELSE AfterByte([s EXCEPT !.fields = Append(@, s.cur), !.cur = <<>>], c)

SkipByte(s, c) == IF c \in Newline THEN EndLine(s, s.fields, "trailing", c) ELSE s

Take(s, c) ==
  CASE s.st = "stop" -> s
    [] s.st \in {"start", "unquoted", "quoted"} /\ TooWide(s) -> Stop(s, "columns")
    [] s.st = "start" /\ ~TooWide(s) -> StartByte(s, c)
    [] s.st = "unquoted" /\ ~TooWide(s) -> UnquotedByte(s, c)
    [] s.st = "quoted" /\ ~TooWide(s) -> QuotedByte(s, c)
    [] s.st = "quote" -> QuoteByte(s, c)
    [] s.st = "skip" -> SkipByte(s, c)

\* The end of the input.
Finish(s) ==
  CASE s.st = "start" /\ s.fields # <<>> -> EndOf(s, Append(s.fields, <<>>), "none", s.line).rows
    [] s.st \in {"unquoted", "quote"} -> EndOf(s, Append(s.fields, s.cur), "none", s.line).rows
    [] s.st = "quoted" -> EndOf(s, s.fields, "unterminated", s.line).rows
    [] s.st = "skip" -> EndOf(s, s.fields, "trailing", s.line).rows
    [] OTHER -> s.rows

\* The input without its mark, the state after n bytes of it, and after all.
Body == IF config.strip /\ IsPrefix(Bom, input) THEN SubSeq(input, Len(Bom) + 1, Len(input)) ELSE input
Reference[n \in Nat] == IF n = 0 THEN Start ELSE Take(Reference[n - 1], Body[n])
Parsed == Reference[Len(Body)]

Expected == Finish(Parsed)

\* The rows, their errors and their line numbers are those of the input, and
\* every line end is counted once, however the source split the input and
\* wherever the buffer was compacted; all along, the positions and the fields'
\* ranges are inside what they index, or the code would panic.  If a read
\* failed, the rows are those of the input up to one that carries an error, and
\* that is the last one, unless the read failed in the look-ahead for the mark
\* or behind a quote: of the rows after such a failure nothing is said
\* (reader.rs:485-488, 645-652).
RowsOfTheInput ==
  /\ CsvTypeOK
  /\ call = "done" =>
       \/ rows = Expected /\ (Parsed.st = "stop" \/ rd.line = Parsed.line)
       \/ /\ failed # {}
          /\ \E k \in 1..Len(rows) :
               /\ rows[k].err # "none" /\ IsPrefix(SubSeq(rows, 1, k - 1), Expected)
               /\ k = Len(rows) \/ failed \cap {"bom", "quote"} # {}

\* "Rejects any record with more than `max` columns." (reader.rs:335): no row
\* without an error has more fields than the limit.
ColumnsWithinLimit ==
  \A i \in 1..Len(rows) :
    rows[i].err = "none" /\ config.columns # NoLimit => Len(rows[i].fields) <= config.columns

\* "iteration did not terminate" (csv/tests/robustness.rs:158): the iterator
\* comes to its end, whatever the input and the reads that fail.
Terminates == <>(call = "done")
=============================================================================
