---------------------------- MODULE MCCsvConfig ----------------------------
(* Files for the model checking of CsvConfig, with blocks of five bytes    *)
(* and two columns, "a" and "b", the second of which is the port.          *)
EXTENDS CsvConfig

a == 97
b == 98

MCColumns == << <<a>>, <<b>> >>

(* Files as ParseCsvData may meet them: a header, a row, and more rows,    *)
(* with every place of comma, blank, digit and letter in a row of up to    *)
(* three characters.                                                       *)
Headers ==
    { <<a, Comma, b>>, <<b, Comma, a>>, <<32, a, Comma, b>>, <<b, Comma, a, 9>>,
      <<a>>, <<>>, <<a, Comma, a>>, <<a, Comma, 120>>, <<a, Comma, b, Comma>>,
      <<a, Comma, b, 32, 32>> }
Rows == UNION {[1 .. n -> {Comma, 32, 49, 120}] : n \in 0 .. 3}
LongRows ==
    { <<49, Comma, 49, 55>>, <<49, 55, Comma, 120>>, <<49, Comma, 49, Comma>>,
      <<49, Comma, 49, 55, 32>> }
SomeRows == LongRows \cup { <<49, Comma, 120>>, <<49>>, <<32, Comma, 49>>, <<>> }
More == { <<>>, <<CR, NL>>, <<NL, 120, 120, NL, 120>> }

ConfigFiles ==
    { <<a, Comma, b, NL>> \o r \o <<NL>> : r \in Rows }
    \cup { h \o <<NL>> \o r \o m : h \in Headers, r \in SomeRows, m \in More }
    \cup { BOM \o <<a, Comma, b, NL>> \o r \o m : r \in SomeRows, m \in More }
    \cup Headers

(* Files for any other caller: lines of 0, 3, 4 (the longest that fits)    *)
(* and 5 bytes, the byte at place n being 100 + n.  The last newline may   *)
(* be missing, the lines may end in CR, or have a NUL.                     *)
MaxLines == 4
Line(len, last) == [k \in 1 .. len |-> IF k = len THEN last ELSE 1]
Joined(shape, last) == FlattenSeq([n \in DOMAIN shape |-> Line(shape[n], last) \o <<NL>>])
Shapes(lens, max) == UNION {[1 .. n -> lens] : n \in 0 .. max}
Numbered(bytes) == [k \in DOMAIN bytes |-> IF bytes[k] = 1 THEN 100 + k ELSE bytes[k]]
Unended(bytes) == IF bytes = <<>> THEN bytes ELSE Front(bytes)

LineFiles ==
    LET whole == { Joined(s, 1) : s \in Shapes({0, 3, 4}, MaxLines) \cup Shapes({3, 4, 5}, 3) }
                 \cup { BOM \o Joined(s, last) : s \in Shapes({3, 4}, 3), last \in {1, CR, NUL} }
    IN  { Numbered(f) : f \in whole \cup { Unended(g) : g \in whole } }

MCUses ==
    { [caller |-> "ParseCsvData", file |-> f] : f \in ConfigFiles }
    \cup { [caller |-> "other", file |-> f] : f \in LineFiles }

=============================================================================
