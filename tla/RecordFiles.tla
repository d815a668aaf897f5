----------------------------- MODULE RecordFiles -----------------------------
(***************************************************************************)
(* The records of one job in its output file: the writers of               *)
(* internal/output as App.Run drives them, the readers of                  *)
(* internal/input, and the web server's preview, download and conversion   *)
(* of a file that a job may still be writing.                              *)
(*                                                                         *)
(* A file is a sequence of units: a header or opening, one unit for each   *)
(* record, a closing.  A unit gets to the disk in two steps, so that a     *)
(* reader or a crash may find the last one torn.  What was not synced may  *)
(* be gone after a crash.                                                  *)
(*                                                                         *)
(* What a reader of a growing file gets is what the file holds when it     *)
(* comes to the end, since a writer only appends; but not for csv, where a *)
(* new column has the file truncated and written again: one reader that    *)
(* takes a csv line by line is modelled next to the writer.                *)
(***************************************************************************)
EXTENDS Integers, Sequences, FiniteSets, Functions, SequencesExt

CONSTANTS
    NRec,           \* records a job emits at most
    Shapes,         \* of a record: a function from its fields to "empty" or the size
                    \* of the value: "short", "long" (more than 1 MiB as a line)
                    \* or "huge" (more than 10 MiB)
    Formats,        \* output.type: csv, jsonl, json, xml, xlsx, sqlite
    OutputFields,   \* the values of processing.output_fields; <<>> means all fields
    Excluded,       \* the values of input.excluded_columns of a later job
    XMLName(_),     \* sanitizeXMLName: the element of a field; fields may share one
    PreviewDefault, PreviewMax     \* lines of a preview

ASSUME FilesAssumption ==
    /\ NRec \in Nat
    /\ Formats \subseteq {"csv", "jsonl", "json", "xml", "xlsx", "sqlite"}
    /\ \A s \in Shapes : /\ DOMAIN s \subseteq Nat /\ IsFiniteSet(DOMAIN s)
                         /\ Range(s) \subseteq {"empty", "short", "long", "huge"}
    /\ OutputFields \subseteq Seq(Nat)
    /\ PreviewDefault \in Nat \ {0} /\ PreviewMax \in Nat \ {0}

VARIABLES
    format, outputFields,   \* settings: never change
    prepared, cols,         \* the writer's headers or columns
    kept,                   \* w.records: what csv, json and xlsx hold in memory
    wpc,                    \* where the writer is
    cur,                    \* the record being written
    given,                  \* records whose WriteRecord returned nil
    todo,                   \* units this call still has to write
    file, synced,           \* what the file holds, and how much of it survives
    gone,                   \* the directory entry was removed
    verdict,                \* what Run returns
    closeFailed,            \* Close returned an error, which nobody looks at
    reader                  \* of a csv: where it is, and the lines it has taken

settings == <<format, outputFields>>
memory   == <<prepared, cols, kept, cur, given>>
disk     == <<file, synced, gone>>
vars == <<settings, memory, wpc, todo, disk, verdict, closeFailed, reader>>

-----------------------------------------------------------------------------
(* Records and units.  A field's value is the record's number with the     *)
(* field's name and the size, so that a value in the wrong place shows.    *)

Empty == <<>>

RecordOf(n, shape) ==
    [f \in DOMAIN shape |-> IF shape[f] = "empty" THEN Empty ELSE <<n, f, shape[f]>>]

ValueOf(r, f) == IF f \in DOMAIN r THEN r[f] ELSE Empty

(* The members of a finite set in ascending order: behind as many as are   *)
(* less.  (SetToSortSeq rests on an operator of TLC, which nothing can be  *)
(* proved about.)                                                          *)
Sorted(fields) ==
    [i \in 1 .. Cardinality(fields) |->
        CHOOSE f \in fields : Cardinality({g \in fields : g < f}) = i - 1]

(* The entries of a sequence at some of its positions, in their order.     *)
EntriesAt(s, positions) ==
    LET order == Sorted(positions) IN [i \in DOMAIN order |-> s[order[i]]]

Cells(columns, r) == [i \in DOMAIN columns |-> ValueOf(r, columns[i])]

Unit(kind, data) == [kind |-> kind, data |-> data, whole |-> TRUE]

Torn(u) == [u EXCEPT !.whole = FALSE]

(* mergeHeaders: unknown fields go behind the known ones, sorted.          *)
MergeHeaders(columns, r) == columns \o Sorted(DOMAIN r \ ToSet(columns))

\* Mutant: the columns of a conversion would be those of the first record.
FirstHeaders(rs) == IF rs = <<>> THEN <<>> ELSE Sorted(DOMAIN rs[1])

UnionHeaders(rs) == Sorted(UNION {DOMAIN rs[i] : i \in DOMAIN rs})

(* The elements of a record, one for each column it has, in their order.   *)
Elements(columns, r) ==
    LET there == EntriesAt(columns, {i \in DOMAIN columns : columns[i] \in DOMAIN r})
    IN  [i \in DOMAIN there |-> <<XMLName(there[i]), r[there[i]]>>]

(* excelize cuts the text of a cell at 32767 characters.                   *)
Fitting(r) ==
    [f \in DOMAIN r |-> IF r[f] # Empty /\ r[f][3] \in {"long", "huge"}
                        THEN <<r[f][1], r[f][2], "cut">> ELSE r[f]]

(* One record as a unit of each format: csv pads the columns the record    *)
(* has not; xml and sql leave out the fields that are no column.           *)
RowUnit(fmt, columns, r) ==
    Unit("row", CASE fmt = "csv"    -> Cells(columns, r)
                  [] fmt = "xml"    -> Elements(columns, r)
                  [] fmt = "sqlite" -> [f \in ToSet(columns) |-> ValueOf(r, f)]
                  [] OTHER          -> r)

(* What Prepare writes: csv has no header without columns, and json, jsonl *)
(* and xlsx have nothing to open.                                          *)
Opening(fmt, columns) ==
    IF fmt \in {"xml", "sqlite"} \/ (fmt = "csv" /\ columns # <<>>)
    THEN <<Unit("head", columns)>>
    ELSE <<>>

CSVFile(columns, rs) ==
    Opening("csv", columns) \o [i \in DOMAIN rs |-> RowUnit("csv", columns, rs[i])]

XLSXFile(columns, rs) ==
    <<Unit("book", [head |-> columns,
                    rows |-> [i \in DOMAIN rs |-> Cells(columns, Fitting(rs[i]))]])>>

JSONFile(rs) == [i \in DOMAIN rs |-> RowUnit("json", <<>>, rs[i])] \o <<Unit("end", <<>>)>>

XMLFile(columns, rs) ==
    Opening("xml", columns) \o [i \in DOMAIN rs |-> RowUnit("xml", columns, rs[i])]
                            \o <<Unit("end", <<>>)>>

-----------------------------------------------------------------------------
(* The readers: what reader.Next returns until it returns an error or EOF. *)
(* "cut" is an end behind a torn row, which the csv reader returns too (or *)
(* an error, when a quote is open); it would go on with the other half as  *)
(* a row of its own, should that have come meanwhile.                      *)

RowsIn(f) == LET rows == EntriesAt(f, {i \in DOMAIN f : f[i].kind = "row" /\ f[i].whole})
             IN  [i \in DOMAIN rows |-> rows[i].data]

EndsTorn(f) == f # <<>> /\ ~Last(f).whole

(* A row under a header: short rows are padded, surplus cells dropped.     *)
UnderHeader(columns, cells) ==
    [f \in ToSet(columns) |->
        LET i == CHOOSE k \in DOMAIN columns : columns[k] = f
        IN  IF i \in DOMAIN cells THEN cells[i] ELSE Empty]

(* encoding/csv skips an empty line, which is also what a row with one     *)
(* empty cell looks like.  Without a header line the first row is taken    *)
(* for it; a torn row is a row.                                            *)
HeaderOf(f) == IF f # <<>> /\ f[1].kind = "head" THEN f[1].data ELSE <<>>

ReadCSV(f) ==
    LET rows  == RowsIn(f)
        lines == EntriesAt(rows, {i \in DOMAIN rows : rows[i] \notin {<<>>, <<Empty>>}})
    IN  [recs |-> [i \in DOMAIN lines |-> UnderHeader(HeaderOf(f), lines[i])],
         end  |-> IF EndsTorn(f) /\ Last(f).kind = "row" THEN "cut" ELSE "eof"]

(* Rows without any value are skipped, whatever the number of columns.     *)
ReadXLSX(f) ==
    IF f = <<>> \/ EndsTorn(f)
    THEN [recs |-> <<>>, end |-> "error"]
    ELSE LET book == f[1].data
             some == {i \in DOMAIN book.rows :
                         \E j \in DOMAIN book.rows[i] : book.rows[i][j] # Empty}
             rows == EntriesAt(book.rows, some)
         IN  [recs |-> [i \in DOMAIN rows |-> UnderHeader(book.head, rows[i])],
              end  |-> "eof"]

(* What a scanner returns: the lines before the first that is longer than  *)
(* its buffer.                                                             *)
TooLong(line, sizes) == \E f \in DOMAIN line : line[f] # Empty /\ line[f][3] \in sizes

Scanned(lines, sizes) ==
    EntriesAt(lines, {i \in DOMAIN lines : \A j \in 1 .. i : ~TooLong(lines[j], sizes)})

OverMiB == {"long", "huge"}
Over10MiB == {"huge"}

(* A line that is too long is an error, and a torn one does not parse.     *)
ReadLines(f, sizes) ==
    LET recs == Scanned(RowsIn(f), sizes)
    IN  [recs |-> recs,
         end  |-> IF EndsTorn(f) \/ Len(recs) < Len(RowsIn(f)) THEN "error" ELSE "eof"]

ReadJSONL(f) == ReadLines(f, OverMiB)

(* The array is read token by token, and the end of the file between two   *)
(* elements passes for the end of the array.                               *)
ReadArray(f) ==
    [recs |-> RowsIn(f),
     end  |-> IF EndsTorn(f) /\ Last(f).kind = "row" THEN "error" ELSE "eof"]

(* With input.json.root_path the document is decoded as a whole first.     *)
ReadRootPath(f) ==
    IF f = <<>> THEN [recs |-> <<>>, end |-> "eof"]
    ELSE IF Last(f).kind = "end" /\ Last(f).whole THEN [recs |-> RowsIn(f), end |-> "eof"]
    ELSE [recs |-> <<>>, end |-> "error"]

(* ToMap: a child is a map of its own, {name: text}, or {} without text;   *)
(* of children of one name the last one stays; the encoder's indentation   *)
(* is the text between them.                                               *)
TextKey == -1                  \* "#text"
Whitespace == <<TextKey>>

ToMap(e, v) == IF v = Empty THEN Empty ELSE [x \in {e} |-> v]

Node(names, text(_)) ==
    [e \in names \cup (IF names = {} THEN {} ELSE {TextKey}) |->
        IF e = TextKey THEN Whitespace ELSE ToMap(e, text(e))]

\* Mutant: of children of one name the first one would stay.
FromFirstElements(elements) ==
    LET first(e) == CHOOSE i \in DOMAIN elements :
                       /\ elements[i][1] = e
                       /\ \A j \in DOMAIN elements : elements[j][1] = e => i <= j
    IN  Node({elements[i][1] : i \in DOMAIN elements}, LAMBDA e : elements[first(e)][2])

FromElements(elements) ==
    LET last(e) == CHOOSE i \in DOMAIN elements :
                      /\ elements[i][1] = e
                      /\ \A j \in DOMAIN elements : elements[j][1] = e => j <= i
    IN  Node({elements[i][1] : i \in DOMAIN elements}, LAMBDA e : elements[last(e)][2])

(* With input.xml.record_path = "record": a document whose root element is *)
(* still open gives its records, and then an error.                        *)
ReadXML(f) ==
    LET rows == RowsIn(f)
    IN  [recs |-> [i \in DOMAIN rows |-> FromElements(rows[i])],
         end  |-> IF f = <<>> \/ (Last(f).kind = "end" /\ Last(f).whole) THEN "eof" ELSE "error"]

ReadSQL(f) == [recs |-> RowsIn(f), end |-> IF f = <<>> THEN "error" ELSE "eof"]

(* Each format and the readers that take it.                               *)
ReadWays(fmt, f) ==
    CASE fmt = "csv"    -> {ReadCSV(f)}
      [] fmt = "xlsx"   -> {ReadXLSX(f)}
      [] fmt = "jsonl"  -> {ReadJSONL(f)}
      [] fmt = "json"   -> {ReadArray(f), ReadRootPath(f)}
      [] fmt = "xml"    -> {ReadXML(f)}
      [] fmt = "sqlite" -> {ReadSQL(f)}

(* filteredReader, around any of them.                                     *)
FilterRecord(r, ex) == Restrict(r, DOMAIN r \ ex)

(* handlePreviewFile: as many lines as were asked for, PreviewMax at most, *)
(* but for those that do not parse and what is behind one that is too      *)
(* long.  (A torn line of a csv is shown as well, like the reader's.)      *)
Shown(n) == LET m == IF n <= 0 THEN PreviewDefault ELSE n
            IN  IF m > PreviewMax THEN PreviewMax ELSE m

FirstFew(s, n) == SubSeq(s, 1, IF n < Len(s) THEN n ELSE Len(s))

PreviewOf(fmt, f, n) ==
    LET lines == FirstFew(Scanned(RowsIn(f), OverMiB), Shown(n))
    IN  IF fmt = "csv" THEN [i \in DOMAIN lines |-> UnderHeader(HeaderOf(f), lines[i])] ELSE lines

(* A download with ?format= fails unless all lines parse and fit.          *)
Download(f) == ReadLines(f, Over10MiB)

(* csv, xlsx and xml are written by WriteAll, to a directory of their own; *)
(* json is marshalled at once, to the array that Close would write.        *)
Converted(fmt, rs) ==
    LET columns == UnionHeaders(rs)
    IN  CASE fmt = "csv"  -> CSVFile(columns, rs)
          [] fmt = "xlsx" -> XLSXFile(columns, rs)
          [] fmt = "xml"  -> XMLFile(columns, rs)
          [] fmt = "json" -> JSONFile(rs)

-----------------------------------------------------------------------------
(* The writer.                                                             *)

NoReader == [at |-> "none", seen |-> <<>>]

(* The file is written again under a reader that has begun: what that      *)
(* reads from here on is no line of any file.                              *)
Overtaken == IF reader.at = "reading" /\ reader.seen # <<>>
             THEN [at |-> "lost", seen |-> <<>>] ELSE reader

Init ==
    /\ format \in Formats /\ outputFields \in OutputFields
    /\ prepared = FALSE /\ cols = <<>> /\ kept = <<>> /\ cur = Empty /\ given = <<>>
    /\ wpc = "idle" /\ todo = <<>>
    /\ file = <<>> /\ synced = 0
    /\ gone = (format \in {"json", "xlsx"})       \* these two create it in Close
    /\ verdict = "none" /\ closeFailed = FALSE
    /\ reader = NoReader

Holds == format \in {"json", "xlsx"}      \* the file is written by Close alone

(* emit: the columns come from output_fields or the first record, which    *)
(* has its response field then.                                            *)
Emit(shape) ==
    /\ wpc = "idle" /\ Len(given) < NRec
    /\ ~prepared /\ outputFields = <<>> => DOMAIN shape # {}
    /\ cur' = RecordOf(Len(given) + 1, shape)
    /\ wpc' = IF prepared THEN "record" ELSE "prepare"
    /\ UNCHANGED <<settings, prepared, cols, kept, given, todo, disk, verdict, closeFailed, reader>>

Prepare ==
    /\ wpc = "prepare"
    /\ prepared' = TRUE
    /\ cols' = IF format \in {"json", "jsonl"} THEN <<>>
               ELSE IF outputFields # <<>> THEN outputFields ELSE Sorted(DOMAIN cur)
    /\ todo' = Opening(format, cols')
    /\ wpc' = "open"
    /\ UNCHANGED <<settings, kept, cur, given, disk, verdict, closeFailed, reader>>

(* Prepare returns; csv has synced its header, the transaction of CREATE   *)
(* TABLE is committed, xml has only flushed.                               *)
PrepareReturns ==
    /\ wpc = "open" /\ todo = <<>>
    /\ synced' = IF format = "xml" THEN synced ELSE Len(file)
    /\ wpc' = "record"
    /\ UNCHANGED <<settings, memory, todo, file, gone, verdict, closeFailed, reader>>

\* Mutant: a new column would only change the header in memory.
WriteCSVWithoutRewrite ==
    /\ wpc = "record" /\ format = "csv"
    /\ cols' = MergeHeaders(cols, cur)
    /\ kept' = Append(kept, cur)
    /\ todo' = <<RowUnit("csv", cols', cur)>>
    /\ wpc' = "row"
    /\ UNCHANGED <<file, synced, gone, given, cur, reader>>

\* Mutant: rows that needed no new column would not be remembered.
WriteCSVForgets ==
    /\ wpc = "record" /\ format = "csv"
    /\ cols' = MergeHeaders(cols, cur)
    /\ kept' = IF cols' = cols THEN kept ELSE Append(kept, cur)
    /\ IF cols' = cols
       THEN todo' = <<RowUnit("csv", cols, cur)>> /\ UNCHANGED <<file, synced, reader>>
       ELSE todo' = CSVFile(cols', kept') /\ file' = <<>> /\ synced' = 0 /\ reader' = Overtaken
    /\ wpc' = "row"
    /\ UNCHANGED <<gone, given, cur>>

(* A field that is no column yet: the file is truncated and all rows are   *)
(* written again under the longer header.                                  *)
WriteCSV ==
    /\ wpc = "record" /\ format = "csv"
    /\ cols' = MergeHeaders(cols, cur)
    /\ kept' = Append(kept, cur)
    /\ IF cols' = cols
       THEN todo' = <<RowUnit("csv", cols, cur)>> /\ UNCHANGED <<file, synced, reader>>
       ELSE todo' = CSVFile(cols', kept') /\ file' = <<>> /\ synced' = 0 /\ reader' = Overtaken
    /\ wpc' = "row"
    /\ UNCHANGED <<gone, given, cur>>

(* jsonl and xml append; sql inserts in a transaction.                     *)
WriteRow ==
    /\ wpc = "record" /\ format \in {"jsonl", "xml", "sqlite"}
    /\ todo' = <<RowUnit(format, cols, cur)>>
    /\ wpc' = "row"
    /\ UNCHANGED <<cols, kept, disk, given, cur, reader>>

WriteHeld ==
    /\ wpc = "record" /\ Holds
    /\ kept' = Append(kept, cur)
    /\ cols' = IF format = "xlsx" THEN MergeHeaders(cols, cur) ELSE cols
    /\ given' = Append(given, cur) /\ cur' = Empty
    /\ wpc' = "idle"
    /\ UNCHANGED <<todo, disk, reader>>

WriteRecord ==
    /\ WriteCSV \/ WriteRow \/ WriteHeld
    /\ UNCHANGED <<settings, prepared, verdict, closeFailed>>

(* The next unit gets to the file, by halves; an INSERT does at once.      *)
PutUnit ==
    /\ wpc \in {"open", "row", "end"} /\ todo # <<>>
    /\ IF EndsTorn(file)
       THEN /\ file' = Append(Front(file), Head(todo)) /\ todo' = Tail(todo)
       ELSE IF format = "sqlite"
       THEN /\ file' = Append(file, Head(todo)) /\ todo' = Tail(todo)
       ELSE /\ file' = Append(file, Torn(Head(todo))) /\ todo' = todo
    /\ UNCHANGED <<settings, memory, wpc, synced, gone, verdict, closeFailed, reader>>

\* Mutant: WriteRecord would return before the file is synced.
RecordReturnsUnsynced ==
    /\ wpc = "row" /\ todo = <<>>
    /\ given' = Append(given, cur) /\ cur' = Empty
    /\ wpc' = "idle"
    /\ UNCHANGED <<settings, prepared, cols, kept, todo, file, synced, gone, verdict, closeFailed, reader>>

RecordReturns ==
    /\ wpc = "row" /\ todo = <<>>
    /\ synced' = Len(file)
    /\ given' = Append(given, cur) /\ cur' = Empty
    /\ wpc' = "idle"
    /\ UNCHANGED <<settings, prepared, cols, kept, todo, file, gone, verdict, closeFailed, reader>>

(* A full disk, a table with other columns, or, before anything is         *)
(* written, a context that is done: emit fails, and with it the run.       *)
WriteFails ==
    /\ wpc \in {"open", "record", "row"}
    /\ verdict' = "error" /\ wpc' = "closing"
    /\ todo' = <<>>
    /\ UNCHANGED <<settings, memory, disk, closeFailed, reader>>

(* The stream is over.                                                     *)
EndRun ==
    /\ wpc = "idle"
    /\ verdict' \in {"ok", "error"}
    /\ wpc' = "closing"
    /\ UNCHANGED <<settings, memory, todo, disk, closeFailed, reader>>

\* Mutant: the root element would be left open.
CloseUnclosed ==
    /\ wpc = "closing"
    /\ IF Holds
       THEN /\ todo' = IF format = "json" THEN JSONFile(kept) ELSE XLSXFile(cols, kept)
            /\ file' = <<>> /\ synced' = 0 /\ gone' = FALSE
       ELSE /\ todo' = <<>> /\ UNCHANGED disk
    /\ wpc' = "end"
    /\ UNCHANGED <<settings, memory, verdict, closeFailed, reader>>

(* The deferred Close.  json and xlsx write all they have, also after an   *)
(* error; xml closes its root, unless the encoder has failed.              *)
Close ==
    /\ wpc = "closing"
    /\ IF Holds
       THEN /\ todo' = IF format = "json" THEN JSONFile(kept) ELSE XLSXFile(cols, kept)
            /\ file' = <<>> /\ synced' = 0 /\ gone' = FALSE
       ELSE /\ todo' = IF format = "xml" /\ prepared /\ ~EndsTorn(file) /\ file # <<>>
                       THEN <<Unit("end", <<>>)>> ELSE <<>>
            /\ UNCHANGED disk
    /\ wpc' = "end"
    /\ UNCHANGED <<settings, memory, verdict, closeFailed, reader>>

(* Run's result was fixed before Close: its error changes nothing.         *)
CloseReturns ==
    /\ wpc = "end"
    /\ closeFailed' = (todo # <<>>)
    /\ todo' = <<>> /\ wpc' = "closed"
    /\ UNCHANGED <<settings, memory, disk, verdict, reader>>

-----------------------------------------------------------------------------
(* handleDeleteFile, at any time: a writer that has the file open goes on  *)
(* writing to it, without a name.                                          *)
DeleteFile ==
    /\ ~gone /\ wpc # "crashed"
    /\ gone' = TRUE
    /\ UNCHANGED <<settings, memory, wpc, todo, file, synced, verdict, closeFailed, reader>>

(* The machine stops: of what was not synced any part may be there.        *)
Crash ==
    /\ wpc # "crashed"
    /\ \E n \in synced .. Len(file) :
          \/ file' = SubSeq(file, 1, n)
          \/ n > synced /\ format # "sqlite" /\ file' = Append(SubSeq(file, 1, n - 1), Torn(file[n]))
    /\ wpc' = "crashed" /\ todo' = <<>>
    /\ reader' = IF reader.at = "done" THEN reader ELSE NoReader
    /\ UNCHANGED <<settings, memory, synced, gone, verdict, closeFailed>>

-----------------------------------------------------------------------------
(* The csv reader of a later job, or of one that runs at the same time.    *)

WriterFrame == UNCHANGED <<settings, memory, wpc, todo, disk, verdict, closeFailed>>

OpenReader ==
    /\ format = "csv" /\ reader.at = "none" /\ ~gone
    /\ reader' = [reader EXCEPT !.at = "reading"]
    /\ WriterFrame

(* A torn line is the last one there is.                                   *)
ReadLine ==
    /\ reader.at = "reading" /\ Len(reader.seen) < Len(file)
    /\ LET line == file[Len(reader.seen) + 1]
       IN  reader' = [at |-> IF line.whole THEN "reading" ELSE "done",
                      seen |-> Append(reader.seen, line)]
    /\ WriterFrame

ReadEnd ==
    /\ reader.at = "reading" /\ Len(reader.seen) = Len(file)
    /\ reader' = [reader EXCEPT !.at = "done"]
    /\ WriterFrame

Stopped == wpc = "crashed" /\ UNCHANGED vars

Next ==
    \/ \E s \in Shapes : Emit(s)
    \/ Prepare \/ PrepareReturns \/ WriteRecord \/ PutUnit \/ RecordReturns
    \/ WriteFails \/ EndRun \/ Close \/ CloseReturns
    \/ DeleteFile \/ Crash
    \/ OpenReader \/ ReadLine \/ ReadEnd
    \/ Stopped

Spec == Init /\ [][Next]_vars

-----------------------------------------------------------------------------
TypeOK ==
    /\ format \in Formats /\ outputFields \in OutputFields
    /\ prepared \in BOOLEAN /\ gone \in BOOLEAN /\ closeFailed \in BOOLEAN
    /\ wpc \in {"idle", "prepare", "open", "record", "row", "closing", "end", "closed", "crashed"}
    /\ verdict \in {"none", "ok", "error"}
    /\ reader.at \in {"none", "reading", "done", "lost"}
    /\ Len(given) <= NRec /\ Len(kept) <= NRec
    /\ synced \in 0 .. Len(file)
    /\ \A i \in 1 .. Len(file) - 1 : file[i].whole

(* The values of a record with the field each is under.                    *)
Values(r) == {<<f, r[f]>> : f \in {g \in DOMAIN r : r[g] # Empty}}

(* What records rs say; those without any value are left out, as a csv of  *)
(* one column and a sheet lose them.                                       *)
Said(rs) == LET said == [i \in DOMAIN rs |-> Values(rs[i])]
            IN  EntriesAt(said, {i \in DOMAIN said : said[i] # {}})

(* What a record is when it is read again.  xml and sql write the prepared *)
(* columns only; xml names its elements after them, and of two fields with *)
(* the same element the later column stays.                                *)
XMLRecord(columns, r) ==
    LET there   == {i \in DOMAIN columns : columns[i] \in DOMAIN r}
        last(e) == CHOOSE i \in there :
                      /\ XMLName(columns[i]) = e
                      /\ \A j \in there : XMLName(columns[j]) = e => j <= i
    IN  Node({XMLName(columns[i]) : i \in there}, LAMBDA e : r[columns[last(e)]])

AsRead(fmt, columns, r) ==
    CASE fmt = "xml"    -> XMLRecord(columns, r)
      [] fmt = "sqlite" -> Restrict(r, DOMAIN r \cap ToSet(columns))
      [] fmt = "xlsx"   -> Fitting(r)
      [] OTHER          -> r

Storable(rs) == [i \in DOMAIN rs |-> AsRead(format, cols, rs[i])]

(* Nobody can read what is behind a line of more than 1 MiB.               *)
Reachable(rs) == IF format = "jsonl" THEN Scanned(rs, OverMiB) ELSE rs

Offered == IF cur = Empty THEN given ELSE Append(given, cur)

Without(rs, ex) == [i \in DOMAIN rs |-> FilterRecord(rs[i], ex)]

Rightly(way, ex) ==
    /\ IsPrefix(Said(Without(way.recs, ex)), Said(Without(Storable(Offered), ex)))
    /\ way.end = "cut" => format = "csv"

(* Whenever the file is read, next to its writer, after a failed write or  *)
(* after a crash, by whatever reader takes its format and with whatever    *)
(* columns excluded: the records read are the first ones that were         *)
(* written, in order, none skipped and none doubled, each value under its  *)
(* own field (in xml, its element).  So too for a reader that takes a csv  *)
(* line by line while it grows; not for one under which a new column has   *)
(* the csv written again.                                                  *)
NeverMisread ==
    \A ex \in Excluded :
        /\ \A way \in ReadWays(format, file) : Rightly(way, ex)
        /\ reader.at = "done" => Rightly(ReadCSV(reader.seen), ex)

(* The rows of a csv are not all there while it is written again, nor      *)
(* after that failed or was cut short: nothing of it is synced then.       *)
Rewriting == format = "csv" /\ synced = 0

(* A record whose WriteRecord returned stays readable from then on, unless *)
(* the file is deleted, also after a crash, though the record after it is  *)
(* half written; and a preview shows the first of them.  json and xlsx     *)
(* promise nothing before Close; a csv loses its rows while it is written  *)
(* again; a reader or a preview of lines does not get past one of more     *)
(* than 1 MiB.                                                             *)
AcceptedSurvives ==
    ~Holds /\ ~gone /\ ~Rewriting =>
        /\ \A way \in ReadWays(format, file) :
              IsPrefix(Said(Storable(Reachable(given))), Said(way.recs))
        /\ format \in {"csv", "jsonl"} =>
              \A n \in 0 .. PreviewMax + 1 :
                  IsPrefix(Said(FirstFew(Scanned(given, OverMiB), Shown(n))),
                           Said(PreviewOf(format, file, n)))

(* A run that ends without an error has stored what was emitted, and a     *)
(* reader gets all of it and then EOF, unless the file was deleted or      *)
(* Close failed; but of a jsonl with a line of more than 1 MiB what is     *)
(* before that line, and an error.                                         *)
OkMeansStored ==
    wpc = "closed" /\ verdict = "ok" /\ ~closeFailed /\ ~gone /\ given # <<>> =>
        \A way \in ReadWays(format, file) :
            /\ way.end = IF Len(Reachable(given)) < Len(given) THEN "error" ELSE "eof"
            /\ Said(way.recs) = Said(Storable(Reachable(given)))

(* A conversion of a jsonl file that parses, at whatever moment of the     *)
(* job, tells the same in every format, fields that appear late included,  *)
(* but that xlsx cuts long text and xml names and nests the values.        *)
ConversionsAgree ==
    format = "jsonl" /\ Download(file).end = "eof" =>
        LET rs == Download(file).recs
        IN  \A fmt \in {"csv", "xlsx", "json", "xml"} :
               \A way \in ReadWays(fmt, Converted(fmt, rs)) :
                  /\ way.end = "eof"
                  /\ Said(way.recs) = Said([i \in DOMAIN rs |-> AsRead(fmt, UnionHeaders(rs), rs[i])])
=============================================================================
