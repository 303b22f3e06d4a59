----------------------------- MODULE CsvConfig -----------------------------
(***************************************************************************)
(* The start of main that reads DbCfg.csv: CsvParse::ParseCsvData on top   *)
(* of the CSVReader of csv.h, which takes its lines from CsvLines, and     *)
(* StrToUint for the port of the database.                                 *)
(*                                                                         *)
(* A column is named by its place in Columns.  The caller of the           *)
(* LineReader is ParseCsvData, which reads two lines, or any other client  *)
(* of csv.h, which reads as many as it likes.                              *)
(***************************************************************************)
EXTENDS CsvLines, Decimal

CONSTANTS
    Columns,    \* the names of the six columns, as texts
    DbPort,     \* the place of DbPort in them
    Uses        \* who reads which file: [caller, file]

ASSUME ColumnsAssumption ==
    /\ Columns \in Seq(Seq(0 .. 255)) /\ IsInjective(Columns)
    /\ <<>> \notin ToSet(Columns)
    /\ DbPort \in DOMAIN Columns

ASSUME UsesAssumption == \A use \in Uses : use.file \in Seq(0 .. 255)

Comma  == 44
Blanks == {32, 9}

VARIABLES
    caller,      \* who uses the LineReader: ParseCsvData or other
    step,        \* ParseCsvData and main: header, row, close, port, done
    col_order,   \* per column of the header, its place in Columns
    ret,         \* what ParseCsvData returns, or "threw"
    strDb,       \* strDbIp ... strDbTable
    port, ServiceRun

configVars == <<caller, step, col_order, ret, strDb, port, ServiceRun>>
vars == <<linesVars, configVars>>

NoText == [c \in DOMAIN Columns |-> <<>>]

Init ==
    /\ \E use \in Uses : caller = use.caller /\ LinesInit(use.file)
    /\ step = "header"
    /\ col_order = <<>>
    /\ ret = "none"
    /\ strDb = NoText
    /\ port = 0 /\ ServiceRun = TRUE

-----------------------------------------------------------------------------
(* CSVReader. *)

(* chop_next_column until line is null: one column more than commas. *)
Chop(line) ==
    LET cut[n \in 0 .. Len(line)] ==
            IF n = 0 THEN << <<>> >>
            ELSE IF line[n] = Comma THEN Append(cut[n - 1], <<>>)
            ELSE [cut[n - 1] EXCEPT ![Len(cut[n - 1])] = Append(@, line[n])]
    IN  cut[Len(line)]

(* trim_chars<' ', '\t'>::trim *)
Trim(col) ==
    LET text == {k \in DOMAIN col : col[k] \notin Blanks}
    IN  IF text = {} THEN <<>> ELSE SubSeq(col, Min(text), Max(text))

(* parse_header_line with ignore_missing_column: an unknown column and a   *)
(* repeated one throw, a missing one does not.                             *)
Header(line) == [k \in DOMAIN Chop(line) |-> Trim(Chop(line)[k])]
HeaderThrows(line) ==
    \/ \E k \in DOMAIN Header(line) : Header(line)[k] \notin ToSet(Columns)
    \/ ~IsInjective(Header(line))
HeaderOrder(line) ==
    [k \in DOMAIN Header(line) |-> CHOOSE c \in DOMAIN Columns : Columns[c] = Header(line)[k]]

(* parse_line, and parse_helper, which leaves the string of a column that  *)
(* is not in the header empty.                                             *)
RowThrows_FewOnly(line) == Len(Chop(line)) < Len(col_order)
RowThrows(line) == Len(Chop(line)) # Len(col_order)
Row(line) ==
    [c \in DOMAIN Columns |->
        LET at == {k \in DOMAIN col_order : col_order[k] = c}
        IN  IF at = {} THEN <<>> ELSE Trim(Chop(line)[Min(at)])]

-----------------------------------------------------------------------------
(* ParseCsvData. *)

Close(value) == step' = "close" /\ ret' = value

(* Nothing above ParseCsvData catches an exception, and g++ then calls     *)
(* terminate without unwinding: the process ends with the reader, and its  *)
(* worker, as they are.                                                    *)
Throw   == step' = "done" /\ ret' = "threw"
Aborted == ret = "threw"

(* read_header asks for a line; at the end of the file, or when next_line  *)
(* or the constructor has thrown, it throws.                               *)
read_header ==
    /\ step = "header"
    /\ \/ pc = "idle" /\ lines = <<>> /\ next_line /\ UNCHANGED <<step, col_order, ret>>
       \/ /\ pc \in {"end", "thrown"}
          /\ Throw /\ UNCHANGED <<linesVars, col_order>>
       \/ /\ lines # <<>>
          /\ IF HeaderThrows(lines[1]) THEN Throw /\ UNCHANGED col_order
             ELSE /\ col_order' = HeaderOrder(lines[1]) /\ step' = "row"
                  /\ UNCHANGED ret
          /\ UNCHANGED linesVars
    /\ UNCHANGED <<caller, strDb, port, ServiceRun>>

(* read_row, and what ParseCsvData does with the row: the members are      *)
(* assigned only when all of it is there.                                  *)
read_row ==
    /\ step = "row"
    /\ \/ /\ pc = "idle" /\ Len(lines) = 1 /\ next_line
          /\ UNCHANGED <<step, ret, strDb>>
       \/ /\ pc \in {"end", "thrown"}
          /\ IF pc = "end" THEN Close("false") ELSE Throw
          /\ UNCHANGED <<linesVars, strDb>>
       \/ /\ Len(lines) = 2
          /\ IF RowThrows(lines[2]) THEN Throw /\ UNCHANGED strDb
             ELSE IF \E c \in DOMAIN Columns : Row(lines[2])[c] = <<>>
             THEN Close("false") /\ UNCHANGED strDb
             ELSE Close("true") /\ strDb' = Row(lines[2])
          /\ UNCHANGED linesVars
    /\ UNCHANGED <<caller, col_order, port, ServiceRun>>

(* The CSVReader goes out of scope. *)
EndOfScope ==
    /\ step = "close"
    /\ \/ Destroy /\ UNCHANGED step
       \/ pc = "gone" /\ step' = "port" /\ UNCHANGED linesVars
    /\ UNCHANGED <<caller, col_order, ret, strDb, port, ServiceRun>>

(* main goes on after a failure, with an empty port, which is 0. *)
GetPort ==
    /\ step = "port" /\ step' = "done"
    /\ port' = StrToUint(strDb[DbPort]).uint
    /\ ServiceRun' = (ret = "true" /\ StrToUint(strDb[DbPort]).ok)
    /\ UNCHANGED <<linesVars, caller, col_order, ret, strDb>>

ParseCsvData == read_header \/ read_row \/ EndOfScope \/ GetPort

(* Another client of csv.h reads lines until the end, or stops before. *)
OtherCaller == (next_line \/ Destroy) /\ UNCHANGED configVars

Client == (caller = "ParseCsvData" /\ ParseCsvData) \/ (caller = "other" /\ OtherCaller)

(* The LineReader and its worker, as long as there is a process. *)
Reader(A) == ~Aborted /\ A /\ UNCHANGED configVars

Done ==
    /\ Aborted \/ (pc = "gone" /\ (step = "done" \/ caller = "other"))
    /\ UNCHANGED vars

Next ==
    \/ Client
    \/ Reader(Inside \/ Worker \/ SpuriousWakeup)
    \/ Done

(* Both threads keep running and reads return; nobody wakes a thread for   *)
(* no reason for ever.                                                     *)
Spec ==
    /\ Init /\ [][Next]_vars
    /\ WF_vars(Client) /\ WF_vars(Reader(Inside)) /\ WF_vars(Reader(Worker))

-----------------------------------------------------------------------------
(* Properties. *)

TypeOK ==
    /\ LinesTypeOK
    /\ step \in {"header", "row", "close", "port", "done"}
    /\ ret \in {"none", "true", "false", "threw"}
    /\ DOMAIN strDb = DOMAIN Columns
    /\ port \in 0 .. UintMod - 1

(* What DbCfg.csv says: a line of column names, each once, and a line with *)
(* as many values.  Padded(text, t): text is t with blanks around it.      *)
Padded(text, t) ==
    \E a \in 0 .. Len(text), b \in 0 .. Len(text) :
        /\ a + Len(t) + b = Len(text)
        /\ SubSeq(text, a + 1, a + Len(t)) = t
        /\ \A k \in DOMAIN text : k <= a \/ k > a + Len(t) => text[k] \in Blanks
        /\ t # <<>> => Head(t) \notin Blanks /\ Last(t) \notin Blanks
ValueUnder(c, value) ==
    \E k \in DOMAIN Chop(FileLines[1]) :
        Padded(Chop(FileLines[1])[k], Columns[c]) /\ Padded(Chop(FileLines[2])[k], value)
WellFormed ==
    /\ Len(FileLines) >= 2
    /\ Len(Chop(FileLines[1])) = Len(Columns) /\ Len(Chop(FileLines[2])) = Len(Columns)
    /\ \A c \in DOMAIN Columns :
          \E k \in DOMAIN Chop(FileLines[1]) :
              /\ Padded(Chop(FileLines[1])[k], Columns[c])
              /\ ~Padded(Chop(FileLines[2])[k], <<>>)

Fits == \A n \in 1 .. 2 : Len(RawLine(n)) < block_len

(* A ParseCsvData that fails leaves nothing half set, and the port is the  *)
(* number in its column modulo 2^32 or ends the service.                   *)
NothingHalfSet ==
    /\ ret # "true" => strDb = NoText /\ port = 0
    /\ ret = "false" => ~ServiceRun
    /\ ret = "true" /\ ServiceRun =>
          /\ \A k \in DOMAIN strDb[DbPort] : IsDigit(strDb[DbPort][k])
          /\ port = DecimalValue(strDb[DbPort]) % UintMod

(* main connects with what the file says or does not run: ParseCsvData     *)
(* succeeds on the well-formed files that can be opened and whose lines    *)
(* fit, every member is then the value under its column's name, in         *)
(* whatever order the columns stand; anything else leaves nothing half     *)
(* set.                                                                    *)
ConfigMatchesFile ==
    step = "done" =>
        /\ ret = "true" <=> pos > 0 /\ WellFormed /\ Fits
        /\ ret = "true" => \A c \in DOMAIN Columns : ValueUnder(c, strDb[c])
        /\ NothingHalfSet

(* The reader and its worker always come to an end, if not by an exception *)
(* with the process: neither a worker that has ended at the end of the     *)
(* file nor one that still reads makes the caller wait for ever.           *)
ReaderEnds == <>(pc = "gone" \/ Aborted)

=============================================================================
