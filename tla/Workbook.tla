-------------------------------- MODULE Workbook --------------------------------
(***************************************************************************)
(* From an uploaded file to a table (adapters/parsing.py), and how the     *)
(* choices of a validation (sheet, delimiter) reach the preview and the    *)
(* application, which read the file again (ImportService).                 *)
(*                                                                         *)
(* A text is a sequence of tokens, of which only delimiters and "=" mean   *)
(* something.  A line of a CSV is a text, a row of a sheet a sequence of   *)
(* cells, each a text.  White space and quotes are left out, and what      *)
(* openpyxl makes of dates.                                                *)
(***************************************************************************)
EXTENDS Integers, FiniteSets, SequencesExt

CONSTANTS
  CSV_DELIMITERS,  \* a sequence: ties go to the first
  Limits,          \* max_sheets, max_rows, max_columns, max_cells, max_cell_length
  SheetName,
  Uploads,         \* files without lines: [extension, content, media, archive,
                   \* sheets: a sequence of [title, visible], lines: title -> lines]
  BookLines,       \* lines a file may have: [csv |-> texts, xlsx |-> sequences of cells]
  MaxLines,        \* bound: lines of a file, of all its sheets
  Sniffed,         \* what csv.Sniffer may answer
  Unset            \* what a request leaves out

ASSUME WorkbookAssumption ==
  /\ MaxLines \in Nat
  /\ \A limit \in {"max_sheets", "max_rows", "max_columns", "max_cells", "max_cell_length"} :
       Limits[limit] \in Nat
  /\ CSV_DELIMITERS \in Seq(ToSet(CSV_DELIMITERS)) /\ Unset \notin ToSet(CSV_DELIMITERS)
  /\ Sniffed \subseteq ToSet(CSV_DELIMITERS)
  /\ \A u \in Uploads :
       /\ DOMAIN u = {"extension", "content", "media", "archive", "sheets", "lines"}
       /\ u.extension \in DOMAIN BookLines
       /\ \A line \in BookLines[u.extension] : line \in Seq(ToSet(line))
       /\ u.sheets \in Seq(ToSet(u.sheets))
       /\ \A i \in DOMAIN u.sheets : u.sheets[i].title \in DOMAIN u.lines \ {Unset}
       /\ u.extension = "csv" => "csv" \in DOMAIN u.lines
       /\ \A s \in DOMAIN u.lines : u.lines[s] = <<>>

VARIABLE upload  \* the object in storage, with the name and media type of its job

Refused(code) == [error |-> code]

-----------------------------------------------------------------------------
(* The error that keeps a file from being read, or "no".                   *)
detect_kind(u) ==
  CASE u.extension = "xls" -> "UNSUPPORTED_FILE"
    [] u.extension = "xlsx" -> IF u.content = "zip" THEN "no" ELSE "UNSUPPORTED_FILE"
    [] u.extension = "csv" ->
         IF u.content \in {"binary", "zip"} THEN "UNSUPPORTED_FILE" ELSE "no"

validate_declared_media(u) ==
  IF \/ u.media = Unset
     \/ u.extension = "csv" /\ u.media = "text/csv"
     \/ u.extension = "xlsx" /\ u.media = "application/zip"
  THEN "no" ELSE "UNSUPPORTED_FILE"

_reject_zip_bomb(u) == IF u.archive = "bomb" THEN "PAYLOAD_TOO_LARGE" ELSE "no"

_reject_dangerous_xlsx(u) ==
  IF u.archive \in {"broken", "macros"} THEN "UNSUPPORTED_FILE" ELSE _reject_zip_bomb(u)

TooLong(cell) == Len(cell) > Limits.max_cell_length

-----------------------------------------------------------------------------
(* CSV.                                                                    *)
Positions(text, d) == {i \in DOMAIN text : text[i] = d}

(* The k-th number of a set.                                               *)
Nth(S, k) == CHOOSE i \in S : Cardinality({j \in S : j < i}) = k - 1

(* csv.reader: one cell more than there are delimiters, none in a blank    *)
(* line.                                                                   *)
Split(text, d) ==
  LET cuts == {0, Len(text) + 1} \cup Positions(text, d)
  IN IF text = <<>> THEN <<>>
     ELSE [k \in 1..(Cardinality(Positions(text, d)) + 1) |->
             SubSeq(text, Nth(cuts, k) + 1, Nth(cuts, k + 1) - 1)]

FirstText(lines) ==
  LET texts == {i \in DOMAIN lines : lines[i] # <<>>}
  IN IF texts = {} THEN <<>> ELSE lines[Min(texts)]

Count(text, k) == Cardinality(Positions(text, CSV_DELIMITERS[k]))

(* The delimiter, and whether the user must confirm it.                    *)
detect_csv_delimiter(lines, confirmed, sniffed) ==
  LET header == FirstText(lines)
      plausible == {k \in DOMAIN CSV_DELIMITERS : Count(header, k) >= 1}
      leader(K) == CHOOSE k \in K : \A j \in K \ {k} :
                     \/ Count(header, j) < Count(header, k)
                     \/ Count(header, j) = Count(header, k) /\ j > k
      first == leader(plausible)
      rest == plausible \ {first}
      Chosen(d, ambiguous) == [delimiter |-> d, ambiguous |-> ambiguous]
      delimiters == {CSV_DELIMITERS[k] : k \in plausible}
  IN IF confirmed # Unset THEN Chosen(confirmed, FALSE)
     ELSE IF plausible = {} THEN Chosen(sniffed, FALSE)
     ELSE IF rest = {} \/ Count(header, first) >= 2 * Count(header, leader(rest))
     THEN Chosen(CSV_DELIMITERS[first], FALSE)
     ELSE Chosen(IF sniffed \in delimiters THEN sniffed ELSE CSV_DELIMITERS[first], TRUE)

CellAt(cells, i) == IF i \in DOMAIN cells THEN cells[i] ELSE <<>>

(* {headers[i]: ... for i in ...}: of two columns with one header the last *)
(* one counts.                                                             *)
Under(headers, cells) ==
  [h \in ToSet(headers) |-> CellAt(cells, Max({i \in DOMAIN headers : headers[i] = h}))]

HasLong(cells, width) == \E i \in 1..width : TooLong(CellAt(cells, i))

(* The first line is the header.  A formula is no formula in a CSV.        *)
_parse_csv(u, confirmed, sniffed) ==
  LET lines == u.lines["csv"]
      chosen == detect_csv_delimiter(lines, confirmed, sniffed)
      cells(i) == Split(lines[i], chosen.delimiter)
      headers == cells(1)
      examined == 2..(IF Len(lines) > Limits.max_rows THEN Limits.max_rows + 1 ELSE Len(lines))
  IN IF u.content = "not utf-8" THEN Refused("UnicodeDecodeError")
     ELSE IF lines = <<>> THEN Refused("MISSING_COLUMN")
     ELSE IF HasLong(headers, Len(headers)) THEN Refused("UNSUPPORTED_FILE")
     ELSE IF \A i \in DOMAIN headers : headers[i] = <<>> THEN Refused("MISSING_COLUMN")
     ELSE IF Len(headers) > Limits.max_columns THEN Refused("PAYLOAD_TOO_LARGE")
     ELSE IF \E i \in examined : HasLong(cells(i), Len(headers)) THEN Refused("UNSUPPORTED_FILE")
     ELSE IF Len(lines) > Limits.max_rows + 1 THEN Refused("PAYLOAD_TOO_LARGE")
     ELSE [error |-> "no", sheet |-> "csv", headers |-> headers,
           delimiter |-> chosen.delimiter, ambiguous |-> chosen.ambiguous,
           rows |-> [i \in 1..(Len(lines) - 1) |->
                       [number |-> i + 1, values |-> Under(headers, cells(i + 1)),
                        formulas |-> {}]]]

-----------------------------------------------------------------------------
(* XLSX.                                                                   *)
_is_formula(cell) == cell # <<>> /\ cell[1] = "="

(* iter_rows(max_col): every row has max_columns cells, the rest is cut.   *)
iter_rows(row) == [i \in 1..Limits.max_columns |-> CellAt(row, i)]

(* The first row with a cell is the header.  Cells count as many per row   *)
(* as the widest row may have.                                             *)
_sheet_table(title, lines) ==
  LET rows == [i \in DOMAIN lines |-> iter_rows(lines[i])]
      filled == {i \in DOMAIN rows : \E c \in DOMAIN rows[i] : rows[i][c] # <<>>}
      header == IF filled = {} THEN 0 ELSE Min(filled)
      headers == rows[header]
      row_error(i) ==
        IF i * Limits.max_columns > Limits.max_cells THEN "PAYLOAD_TOO_LARGE"
        ELSE IF HasLong(rows[i], Limits.max_columns) THEN "UNSUPPORTED_FILE"
        ELSE IF header # 0 /\ i - header > Limits.max_rows THEN "PAYLOAD_TOO_LARGE"
        ELSE "no"
      wrong == {i \in DOMAIN rows : row_error(i) # "no"}
  IN IF wrong # {} THEN Refused(row_error(Min(wrong)))
     ELSE IF header = 0 THEN Refused("MISSING_COLUMN")
     ELSE [error |-> "no", sheet |-> title, headers |-> headers,
           delimiter |-> Unset, ambiguous |-> FALSE,
           rows |-> [i \in 1..(Len(rows) - header) |->
                       [number |-> header + i, values |-> Under(headers, rows[header + i]),
                        formulas |-> {headers[c] : c \in {k \in 1..Limits.max_columns :
                                                           _is_formula(rows[header + i][k])}}]]]

_parse_xlsx(u, sheet_name) ==
  LET visible == {i \in DOMAIN u.sheets : u.sheets[i].visible}
      selected == {i \in visible : sheet_name \in {Unset, u.sheets[i].title}}
      title == u.sheets[Min(selected)].title
  IN IF _reject_dangerous_xlsx(u) # "no" THEN Refused(_reject_dangerous_xlsx(u))
     ELSE IF visible = {} \/ Len(u.sheets) > Limits.max_sheets THEN Refused("UNSUPPORTED_FILE")
     ELSE IF selected = {} THEN Refused("UNSUPPORTED_FILE")
     ELSE _sheet_table(title, u.lines[title])

parse_workbook(u, sheet_name, delimiter, sniffed) ==
  IF detect_kind(u) # "no" THEN Refused(detect_kind(u))
  ELSE IF validate_declared_media(u) # "no" THEN Refused(validate_declared_media(u))
  ELSE IF u.extension = "csv" THEN _parse_csv(u, delimiter, sniffed)
  ELSE _parse_xlsx(u, sheet_name)

-----------------------------------------------------------------------------
(* A validation with the user's choices: the table it checks, or an error. *)
_validate_body(u, sheet_name, delimiter, sniffed) ==
  LET table == parse_workbook(u, sheet_name, delimiter, sniffed)
  IN IF table.error = "no" /\ table.ambiguous /\ delimiter = Unset
     THEN Refused("UNSUPPORTED_FILE") ELSE table

(* What the job keeps of it: mapping_json and sheet_name.                  *)
Stored(table) == [sheet_name |-> table.sheet, delimiter |-> table.delimiter]

(* As if the delimiter were found out each time.                           *)
_load_table_detected(u, stored, sniffed) == parse_workbook(u, stored.sheet_name, Unset, sniffed)

(* The preview and the application read the file with what the job keeps.  *)
_load_table(u, stored, sniffed) ==
  parse_workbook(u, stored.sheet_name, stored.delimiter, sniffed)

(* What tells one import from another: the content and the mapping, whose  *)
(* delimiter is the one stored.  The sheet is not part of it.              *)
fingerprint(u, stored) == [content |-> u, delimiter |-> stored.delimiter]

-----------------------------------------------------------------------------
UploadInit == upload \in Uploads

(* A longer file.                                                          *)
AddLine ==
  \E s \in DOMAIN upload.lines :
    /\ MapThenSumSet(LAMBDA t : Len(upload.lines[t]), DOMAIN upload.lines) < MaxLines
    /\ \E line \in BookLines[upload.extension] :
         upload' = [upload EXCEPT !.lines[s] = Append(@, line)]

UploadSpec == UploadInit /\ [][AddLine]_upload

-----------------------------------------------------------------------------
SheetsAndDelimiters == (SheetName \cup {Unset}) \X (ToSet(CSV_DELIMITERS) \cup {Unset})

(* The lines of a table as the file has them: cells by column.             *)
CellsOf(u, table, i) ==
  IF u.extension = "csv" THEN Split(u.lines["csv"][i], table.delimiter)
  ELSE u.lines[table.sheet][i]

(* What is lost of a line on purpose: what has no header or one that is    *)
(* used again to the right.  A line with text only beyond the last column  *)
(* a sheet may have counts as blank, and is not even reported before the   *)
(* header.                                                                 *)
Carried(headers, c) ==
  /\ c \in DOMAIN headers
  /\ \A d \in DOMAIN headers : d > c => headers[d] # headers[c]

FormulaColumns(headers, cells) ==
  {headers[c] : c \in {d \in DOMAIN cells : d <= Limits.max_columns /\ _is_formula(cells[d])}}

(* A row has the number of its line, every cell with a header of its own   *)
(* under that header, and nothing else.                                    *)
LineKept(u, table, row, number) ==
  LET cells == CellsOf(u, table, number)
  IN /\ row.number = number
     /\ \A c \in DOMAIN cells :
          Carried(table.headers, c) => row.values[table.headers[c]] = cells[c]
     /\ \A h \in DOMAIN row.values :
          row.values[h] # <<>> => \E c \in DOMAIN cells :
            table.headers[c] = h /\ row.values[h] = cells[c]
     /\ u.extension = "xlsx" => row.formulas = FormulaColumns(table.headers, cells)

LinesKept(u, table) ==
  LET lines == IF u.extension = "csv" THEN u.lines["csv"] ELSE u.lines[table.sheet]
      first == Len(lines) - Len(table.rows)
  IN /\ \A i \in 1..(first - 1) :
          \A c \in DOMAIN lines[i] \cap (1..Limits.max_columns) : lines[i][c] = <<>>
     /\ \A k \in DOMAIN table.rows : LineKept(u, table, table.rows[k], first + k)

(* Whatever sheet and delimiter a user validates a file with, the preview  *)
(* and the application read the very table that was validated; no line of  *)
(* it is lost or numbered otherwise than in the file, no cell ends up      *)
(* under another header; and two tables of one file are told apart by      *)
(* their imports' fingerprints unless they are two sheets.                 *)
(* (parse_workbook, _validate_body, _load_table, fingerprint_for.)         *)
AppliesWhatWasValidated ==
  \A sniffed \in Sniffed :
    LET accepted == {t \in {_validate_body(upload, c[1], c[2], sniffed) : c \in SheetsAndDelimiters} :
                       t.error = "no"}
    IN \A t \in accepted :
         /\ _load_table(upload, Stored(t), sniffed) = [t EXCEPT !.ambiguous = FALSE]
         /\ LinesKept(upload, t)
         /\ \A s \in accepted :
              /\ s.sheet = t.sheet
              /\ fingerprint(upload, Stored(s)) = fingerprint(upload, Stored(t))
              => s.rows = t.rows
=============================================================================
