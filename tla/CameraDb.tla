------------------------------ MODULE CameraDb ------------------------------
(***************************************************************************)
(* DataBaseOperate (DataBase.cpp): the camera table read once from MySQL   *)
(* at startup, and the lookups main makes in it for every camera and every *)
(* alarm.                                                                  *)
(*                                                                         *)
(* A table is a sequence of field names, in the order of the result set,   *)
(* and a sequence of rows, each a sequence of values in that order.  A     *)
(* value is a name or Null; those of login_port and phonenums are          *)
(* sequences of characters.  MySQL itself is external: each call to it may fail.        *)
(***************************************************************************)
EXTENDS Decimal

CONSTANTS
    Tables,  \* the contents camerainfo may have
    Null,    \* SQL's NULL
    NoIp,    \* the empty text, as an ip
    Comma,   \* the separator in phonenums
    PortMod  \* 2^16, the range of a uint16_t

(* The columns of a table have different names; ports and phonenums are    *)
(* texts.  The range of a uint32_t is a multiple of that of a uint16_t.    *)
ASSUME TablesAssumption ==
    /\ \A t \in Tables :
          /\ t.fields \in Seq(ToSet(t.fields)) /\ IsInjective(t.fields)
          /\ t.rows \in Seq(ToSet(t.rows))
          /\ \A r \in ToSet(t.rows), f \in DOMAIN t.fields :
                /\ t.fields[f] = "login_port" /\ r[f] # Null => r[f] \in Seq(Int)
                /\ t.fields[f] = "phonenums" /\ r[f] # Null => r[f] \in Seq(ToSet(r[f]))
    /\ PortMod \in Nat \ {0} /\ UintMod % PortMod = 0

(* The keys of CameraInfoName in the order of its std::map. *)
Keys == <<"ip", "login_port", "name", "password", "phonenums", "username">>
Missing == -1    \* 0xFFFFFFFF, what CameraInfoName holds for a field not seen

VARIABLES
    table,                \* what the database holds
    pc,                   \* connect, query, fields, rows, phones, done
    ret,                  \* result of ConnectDataBase
    CameraInfoName,       \* key -> place in a row
    CameraInfoFromDB,     \* the cameras, in the order of the rows
    IpWarnToPhoneFromDB,  \* ip -> phone numbers
    at                    \* fields, rows or cameras gone through so far

vars == <<table, pc, ret, CameraInfoName, CameraInfoFromDB, IpWarnToPhoneFromDB, at>>

NoPhones == [ip \in {} |-> <<>>]

Init ==
    /\ table \in Tables
    /\ pc = "connect"
    /\ ret = FALSE
    /\ CameraInfoName = [k \in {} |-> Missing]
    /\ CameraInfoFromDB = <<>>
    /\ IpWarnToPhoneFromDB = NoPhones
    /\ at = 0

Return(value) == pc' = "done" /\ ret' = value

-----------------------------------------------------------------------------
(* mysql_init, mysql_options, mysql_real_connect. *)
ConnectDataBase ==
    /\ pc = "connect"
    /\ CameraInfoName' = [k \in ToSet(Keys) |-> Missing]
    /\ \/ pc' = "query" /\ UNCHANGED ret
       \/ Return(FALSE)
    /\ UNCHANGED <<table, CameraInfoFromDB, IpWarnToPhoneFromDB, at>>

(* set names utf8, select * from ..., mysql_store_result. *)
Query ==
    /\ pc = "query"
    /\ \/ pc' = "fields" /\ UNCHANGED ret
       \/ Return(FALSE)
    /\ UNCHANGED <<table, CameraInfoName, CameraInfoFromDB, IpWarnToPhoneFromDB, at>>

(* A turn of the while over mysql_fetch_field.  mysql_field_tell counts    *)
(* the fields fetched, this one included.                                  *)
FetchField ==
    /\ pc = "fields"
    /\ IF at < Len(table.fields)
       THEN LET key == table.fields[at + 1] IN
            /\ CameraInfoName' =
                   IF key \in DOMAIN CameraInfoName
                   THEN [CameraInfoName EXCEPT ![key] = at]
                   ELSE CameraInfoName
            /\ at' = at + 1
            /\ UNCHANGED pc
       ELSE pc' = "rows" /\ at' = 0 /\ UNCHANGED CameraInfoName
    /\ UNCHANGED <<table, ret, CameraInfoFromDB, IpWarnToPhoneFromDB>>

(* The value of a key in a row, and the first key that stops the inner     *)
(* loop: one without a field makes the whole call fail, a NULL drops the   *)
(* row.                                                                    *)
Value(row, key) == row[CameraInfoName[key] + 1]

Stops(row, k) ==
    \/ CameraInfoName[Keys[k]] = Missing
    \/ Value(row, Keys[k]) = Null

FirstStop(row) ==
    LET S == {k \in DOMAIN Keys : Stops(row, k)} IN
    IF S = {} THEN 0 ELSE CHOOSE k \in S : \A j \in S : k <= j

Fails(row) == FirstStop(row) # 0 /\ CameraInfoName[Keys[FirstStop(row)]] = Missing

Pushed_Partial(row) ==
    LET found == {k \in ToSet(Keys) : CameraInfoName[k] # Missing} IN
    IF \E k \in found : Value(row, k) = Null THEN <<>>
    ELSE << [key \in found |-> Value(row, key)] >>
Pushed(row) ==
    IF FirstStop(row) # 0 THEN <<>>
    ELSE << [key \in ToSet(Keys) |-> Value(row, key)] >>

(* A turn of the while over mysql_fetch_row. *)
FetchRow ==
    /\ pc = "rows"
    /\ IF at < Len(table.rows)
       THEN LET row == table.rows[at + 1] IN
            /\ at' = at + 1
            /\ CameraInfoFromDB' = CameraInfoFromDB \o Pushed(row)
            /\ IF Fails(row) THEN Return(FALSE) ELSE UNCHANGED <<pc, ret>>
       ELSE pc' = "phones" /\ at' = 0 /\ UNCHANGED <<ret, CameraInfoFromDB>>
    /\ UNCHANGED <<table, CameraInfoName, IpWarnToPhoneFromDB>>

(* The numbers between the commas, the last one too, empty or not. *)
Extract(s) ==
    LET read[n \in 0 .. Len(s)] ==
            IF n = 0 THEN [vect |-> <<>>, PhoneNum |-> <<>>]
            ELSE IF s[n] # Comma
            THEN [vect |-> read[n - 1].vect, PhoneNum |-> Append(read[n - 1].PhoneNum, s[n])]
            ELSE [vect |-> Append(read[n - 1].vect, read[n - 1].PhoneNum), PhoneNum |-> <<>>]
    IN  read[Len(s)]
ExtractPhoneNumber_NoLast(s) == Extract(s).vect
ExtractPhoneNumber(s) == Append(Extract(s).vect, Extract(s).PhoneNum)

(* A turn of the last for: the phones go to the map, and out of the camera. *)
WithPhones_SkipEmpty(cam) ==
    IF cam["phonenums"] = <<>> THEN IpWarnToPhoneFromDB
    ELSE (cam["ip"] :> ExtractPhoneNumber(cam["phonenums"])) @@ IpWarnToPhoneFromDB
WithPhones(cam) ==
    [ip \in DOMAIN IpWarnToPhoneFromDB \cup {cam["ip"]} |->
        IF ip = cam["ip"] THEN ExtractPhoneNumber(cam["phonenums"])
        ELSE IpWarnToPhoneFromDB[ip]]

SplitPhones ==
    /\ pc = "phones"
    /\ IF at < Len(CameraInfoFromDB)
       THEN LET cam == CameraInfoFromDB[at + 1] IN
            /\ IpWarnToPhoneFromDB' = WithPhones(cam)
            /\ CameraInfoFromDB' =
                   [CameraInfoFromDB EXCEPT ![at + 1] =
                       [k \in ToSet(Keys) \ {"phonenums"} |-> cam[k]]]
            /\ at' = at + 1
            /\ UNCHANGED <<pc, ret>>
       ELSE Return(TRUE) /\ UNCHANGED <<at, CameraInfoFromDB, IpWarnToPhoneFromDB>>
    /\ UNCHANGED <<table, CameraInfoName>>

(* The lookups main makes afterwards leave everything as it is. *)
Done == pc = "done" /\ UNCHANGED vars

Next == ConnectDataBase \/ Query \/ FetchField \/ FetchRow \/ SplitPhones \/ Done

Spec == Init /\ [][Next]_vars

-----------------------------------------------------------------------------
(* The lookups, on the state that ConnectDataBase has left. *)

GetCameraNum == Len(CameraInfoFromDB)

(* What the login loop of main gives to HikDevLogin for camera idx, or     *)
(* Null where GetCameraIp or GetCameraPort returns false and the camera is *)
(* passed over.  The port is a uint32_t that is cut to a uint16_t.         *)
GetCameraIp(idx)       == CameraInfoFromDB[idx]["ip"]
GetCameraPort(idx)     == StrToUint(CameraInfoFromDB[idx]["login_port"])
GetCameraUserName(idx) == CameraInfoFromDB[idx]["username"]
GetCameraPasswd(idx)   == CameraInfoFromDB[idx]["password"]

HikDev(idx) ==
    IF GetCameraIp(idx) = NoIp \/ ~GetCameraPort(idx).ok THEN Null
    ELSE [sDevIp |-> GetCameraIp(idx), wDevPort |-> GetCameraPort(idx).uint % PortMod,
          sDevUserName |-> GetCameraUserName(idx), sDevPassword |-> GetCameraPasswd(idx)]

(* GetCameraName: the first camera with that ip; none is Null. *)
GetCameraName(ip) ==
    LET S == {i \in DOMAIN CameraInfoFromDB : CameraInfoFromDB[i]["ip"] = ip} IN
    IF S = {} THEN Null
    ELSE CameraInfoFromDB[CHOOSE i \in S : \A j \in S : i <= j]["name"]

(* GetCameraWarnPhone: what it returns and what it leaves in vecPhone. *)
GetCameraWarnPhone(ip) ==
    IF ip \in DOMAIN IpWarnToPhoneFromDB
    THEN [ok |-> TRUE, vecPhone |-> IpWarnToPhoneFromDB[ip]]
    ELSE [ok |-> FALSE, vecPhone |-> <<>>]

-----------------------------------------------------------------------------
(* Properties. *)

(* A ConnectDataBase that returns false leaves no camera behind, whatever  *)
(* mixture of rows, NULLs and missing fields it met: main goes on to the   *)
(* login loop all the same, and must find nothing to log in to.            *)
FailureLeavesNoCamera ==
    pc = "done" /\ ~ret => GetCameraNum = 0 /\ IpWarnToPhoneFromDB = NoPhones

(* Every camera whose name main can find has phones, so that the           *)
(* "return -1" in the middle of the alarm loop, which would skip the       *)
(* release of the batch and the whole clean-up, is never reached.          *)
NamedMeansPhones ==
    pc = "done" => \A i \in DOMAIN CameraInfoFromDB :
        LET ip == CameraInfoFromDB[i]["ip"] IN
        GetCameraName(ip) # Null => GetCameraWarnPhone(ip).ok

(* What SQL says of the table: the rows that have every field, in order,   *)
(* and the value of a field there.                                         *)
Field(row, name) == row[CHOOSE f \in DOMAIN table.fields : table.fields[f] = name]
IsComplete(row) == \A k \in ToSet(Keys) : Field(row, k) # Null
Complete ==
    LET kept[n \in 0 .. Len(table.rows)] ==
            IF n = 0 THEN <<>>
            ELSE IF IsComplete(table.rows[n]) THEN Append(kept[n - 1], table.rows[n])
            ELSE kept[n - 1]
    IN  kept[Len(table.rows)]

(* The phones of a camera as the table has them: a comma before each but   *)
(* the first.                                                              *)
CommaFirst(phones) == [k \in DOMAIN phones |-> <<Comma>> \o phones[k]]
JoinPhones(phones) == Tail(FlattenSeq(CommaFirst(phones)))

(* Once read, the cameras are the complete rows, in order, wherever their  *)
(* columns stand.  One with an ip and a decimal port is logged in to with  *)
(* the row's own values, the port being the number modulo 2^16 although it *)
(* was read modulo 2^32; any other is passed over.  A camera whose ip is   *)
(* in one row only has the name and the phones of that row: joined with    *)
(* commas its phones are the phonenums of the table, and none contains a   *)
(* comma.                                                                  *)
LoginMatches(idx, row) ==
    LET port == Field(row, "login_port") IN
    IF Field(row, "ip") # NoIp /\ \A c \in ToSet(port) : IsDigit(c)
    THEN /\ HikDev(idx).sDevIp = Field(row, "ip")
         /\ HikDev(idx).wDevPort = DecimalValue(port) % PortMod
         /\ HikDev(idx).sDevUserName = Field(row, "username")
         /\ HikDev(idx).sDevPassword = Field(row, "password")
    ELSE HikDev(idx) = Null

AlarmMatches(row) ==
    LET phones == GetCameraWarnPhone(Field(row, "ip")).vecPhone IN
    /\ GetCameraName(Field(row, "ip")) = Field(row, "name")
    /\ phones # <<>> /\ JoinPhones(phones) = Field(row, "phonenums")
    /\ \A p \in ToSet(phones) : Comma \notin ToSet(p)

LookupMatchesTable ==
    pc = "done" /\ ret /\ ToSet(Keys) \subseteq ToSet(table.fields) =>
        /\ GetCameraNum = Len(Complete)
        /\ \A n \in DOMAIN Complete :
              /\ LoginMatches(n, Complete[n])
              /\ (\A m \in DOMAIN Complete \ {n} :
                      Field(Complete[m], "ip") # Field(Complete[n], "ip"))
                  => AlarmMatches(Complete[n])

=============================================================================
