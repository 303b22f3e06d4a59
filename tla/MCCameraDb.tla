----------------------------- MODULE MCCameraDb -----------------------------
(* Tables for the model checking of CameraDb: one row with every phonenums *)
(* of up to four characters, one row with ports that are empty, in range,  *)
(* above 2^16, above 2^32 and no number (with 10 and 40 for the two        *)
(* powers), or two rows over two ips with shorter phonenums, an empty ip,  *)
(* a NULL in any one field, and result sets in several orders, with a        *)
(* foreign field or without one of the fields the code looks for.          *)
EXTENDS CameraDb

FieldOrders ==
    { Keys,
      <<"id">> \o Reverse(Keys),
      <<"ip", "login_port", "name", "password", "phonenums">>,
      <<"name", "password", "phonenums", "username", "ip">> }

PhoneStrings(max) == UNION {[1 .. n -> {Comma, 1}] : n \in 0 .. max}

(* A row by name: number r gives the values that only have to be told apart. *)
Row(r, ip, port, phones, null) ==
    [f \in ToSet(Keys) \cup {"id"} |->
        CASE f = null -> Null
          [] f = "ip" /\ f # null -> ip
          [] f = "login_port" /\ f # null -> port
          [] f = "phonenums" /\ f # null -> phones
          [] OTHER -> <<f, r>>]

Rows(r, strings) ==
    { Row(r, ip, <<57>>, phones, "none") : ip \in {"a", "b"}, phones \in strings }
    \cup { Row(r, "a", <<49>>, <<1>>, null) : null \in ToSet(Keys) }

Ports == {<<>>, <<48>>, <<57>>, <<49, 48>>, <<49, 57>>, <<52, 49>>, <<57, 57, 57>>,
          <<49, 45>>, <<58>>}
LoginRows == { Row(3, ip, port, <<1>>, "none") : ip \in {"a", NoIp}, port \in Ports }

InOrder(row, fields) == [f \in DOMAIN fields |-> row[fields[f]]]

Table(fields, rows) ==
    [fields |-> fields, rows |-> [r \in DOMAIN rows |-> InOrder(rows[r], fields)]]

MCTables ==
    { Table(fields, rows) :
        fields \in FieldOrders,
        rows \in {<<>>}
                 \cup { <<r>> : r \in Rows(1, PhoneStrings(4)) }
                 \cup { <<r>> : r \in LoginRows }
                 \cup { <<r, q>> : r \in Rows(1, PhoneStrings(1)),
                                    q \in Rows(2, PhoneStrings(1)) } }

=============================================================================
