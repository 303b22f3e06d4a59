---------------------------- MODULE MessageText ----------------------------
(***************************************************************************)
(* The text of an alarm message (SerialPort.cpp): ConvertToUtf16Be, which  *)
(* turns UTF-8 bytes into the hexadecimal digits of UTF-16BE, and          *)
(* PackMsgToAlarm, which inserts phone, time, name and ip into the fixed   *)
(* command of the message module at counted places, and main's copy of it  *)
(* into BufSent.                                                           *)
(*                                                                         *)
(* The input is a sequence of pieces: characters in UTF-8, each with its   *)
(* code point, and fragments that are not UTF-8 (code -1).  The shifts and *)
(* masks of the code are written as products and remainders; a uint16_t    *)
(* keeps 16 bits.                                                          *)
(***************************************************************************)
EXTENDS Integers, SequencesExt

CONSTANTS
    Pieces,     \* what a camera name may be made of
    MaxPieces,  \* bound: pieces in a name
    PhoneSizes, \* lengths of the phone numbers tried
    TimeSizes,  \* lengths of the times and of the ips, in characters
    IpSizes,
    BufSize     \* size of BufSent, 512 in the code

(* The UTF-8 form of a code point. *)
Utf8(code) ==
    IF code < 128 THEN << code >>
    ELSE IF code < 2048 THEN << 192 + (code \div 64), 128 + (code % 64) >>
    ELSE IF code < 65536
    THEN << 224 + (code \div 4096), 128 + ((code \div 64) % 64), 128 + (code % 64) >>
    ELSE << 240 + (code \div 262144), 128 + ((code \div 4096) % 64),
            128 + ((code \div 64) % 64), 128 + (code % 64) >>

Continues(b) == b \div 64 = 2

(* A character; a byte that continues nothing, or a character that is cut  *)
(* short (needs: the bytes that the first one announces).                  *)
IsCharacter(p) == p.code \in Nat /\ p.code < 1114112 /\ p.bytes = Utf8(p.code)
IsFragment(p) ==
    LET first == p.bytes[1]
        needs == IF first < 224 THEN 2 ELSE IF first < 240 THEN 3 ELSE 4
    IN  /\ p.code = -1 /\ p.bytes \in Seq(128 .. 255)
        /\ Len(p.bytes) \in 1 .. needs - 1
        /\ \A k \in 2 .. Len(p.bytes) : Continues(p.bytes[k])

ASSUME TextAssumption ==
    /\ \A p \in Pieces : IsCharacter(p) \/ IsFragment(p)
    /\ MaxPieces \in Nat /\ BufSize \in Nat
    /\ PhoneSizes \subseteq Nat /\ TimeSizes \subseteq Nat /\ IpSizes \subseteq Nat

VARIABLES
    name,    \* the pieces of strName
    phone,   \* length of strPhoneNum
    time,    \* length of strDataTime
    ip,      \* length of strIp
    stage,   \* start, convert, pack, copy, then done, thrown or overrun
    i,       \* the place ConvertToUtf16Be is at
    strOut,  \* what it has put out
    strMsg   \* the message

inVars == <<name, phone, time, ip>>
textVars == <<inVars, stage, i, strOut, strMsg>>

strIn == FlattenSeq([k \in DOMAIN name |-> name[k].bytes])

TextInit ==
    /\ name \in UNION {[1 .. n -> Pieces] : n \in 0 .. MaxPieces}
    /\ phone \in PhoneSizes /\ time \in TimeSizes /\ ip \in IpSizes
    /\ stage = "start"
    /\ i = 0
    /\ strOut = <<>>
    /\ strMsg = <<>>

(* An empty phone number gives an empty message (the ip is never empty     *)
(* here: main has looked the camera up by it).                             *)
Start ==
    /\ stage = "start"
    /\ stage' = IF phone = 0 THEN "copy" ELSE "convert"
    /\ UNCHANGED <<inVars, i, strOut, strMsg>>

-----------------------------------------------------------------------------
(* ConvertToUtf16Be. *)

ToChar(val) == IF val < 10 THEN val + 48 ELSE val + 55

(* The four digits of a code: high byte first, high half first. *)
Digits(code) ==
    << ToChar(code \div 4096), ToChar((code \div 256) % 16),
       ToChar((code \div 16) % 16), ToChar(code % 16) >>

(* The byte k places on, 0 past the end. *)
Byte(k) == IF i + k < Len(strIn) THEN strIn[i + k + 1] ELSE 0

(* A turn of the while: how many bytes are taken, and what they stand for. *)
OneByte == Byte(0) < 128
TwoByte == Byte(0) \div 32 = 6 /\ Continues(Byte(1))
ThreeByte == Byte(0) \div 16 = 14 /\ Continues(Byte(1)) /\ Continues(Byte(2))

Take(n, code) ==
    /\ strOut' = strOut \o Digits(code % 65536)
    /\ i' = i + n

(* Bytes that cannot be decoded are passed over one by one. *)
Skipped_Two == 2
Skipped_None == 0
Skipped == 1

ConvertToUtf16Be ==
    /\ stage = "convert" /\ i < Len(strIn)
    /\ \/ OneByte /\ Take(1, Byte(0))
       \/ TwoByte /\ Take(2, Byte(0) * 64 + (Byte(1) % 64))
       \/ ThreeByte /\ Take(3, Byte(0) * 4096 + (Byte(1) % 64) * 64 + (Byte(2) % 64))
       \/ /\ ~OneByte /\ ~TwoByte /\ ~ThreeByte
          /\ i' = i + Skipped /\ UNCHANGED strOut
    /\ UNCHANGED <<inVars, stage, strMsg>>

EndOfText ==
    /\ stage = "convert" /\ i >= Len(strIn)
    /\ stage' = "pack"
    /\ UNCHANGED <<inVars, i, strOut, strMsg>>

-----------------------------------------------------------------------------
(* PackMsgToAlarm.  A literal is the sequence of its n places. *)

Literal(part, n) == [k \in 1 .. n |-> <<part, k>>]

(* strMsgSent: send_message(" "," text of the alarm, label of the ip ")... *)
strMsgSent ==
    Literal("command", 14) \o Literal("comma", 3) \o Literal("alarm", 64)
        \o Literal("label", 28) \o Literal("end", 4)

(* Time and ip are characters of one byte, four digits each. *)
strPhoneNum        == Literal("phone", phone)
strDataTimeUtf16be == Literal("time", 4 * time)
strIpUtf16be       == Literal("ip", 4 * ip)

(* std::string::insert, and the four places the code inserts at. *)
Insert(s, pos, t) == SubSeq(s, 1, pos) \o t \o SubSeq(s, pos + 1, Len(s))

PosPhone    == 14
PosDateTime == PosPhone + 3 + 11
PosName     == PosDateTime + 64 + Len(strDataTimeUtf16be)

PosIp_NoNameSize == PosName + 28
PosIp_OffByOne   == PosName + 29 + Len(strOut)
PosIp            == PosName + 28 + Len(strOut)

WithPhone    == Insert(strMsgSent, PosPhone, strPhoneNum)
WithDateTime == Insert(WithPhone, PosDateTime, strDataTimeUtf16be)
WithName     == Insert(WithDateTime, PosName, strOut)

(* An insert past the end throws std::out_of_range, which nothing catches. *)
PackMsgToAlarm ==
    /\ stage = "pack"
    /\ \/ /\ PosIp <= Len(WithName)
          /\ strMsg' = Insert(WithName, PosIp, strIpUtf16be) /\ stage' = "copy"
       \/ /\ PosIp > Len(WithName)
          /\ stage' = "thrown" /\ UNCHANGED strMsg
    /\ UNCHANGED <<inVars, i, strOut>>

(* main copies the message, byte by byte and without a test, into BufSent. *)
CopyToBufSent ==
    /\ stage = "copy"
    /\ stage' = IF Len(strMsg) <= BufSize THEN "done" ELSE "overrun"
    /\ UNCHANGED <<inVars, i, strOut, strMsg>>

Ended == stage \in {"done", "thrown", "overrun"}
Done == Ended /\ UNCHANGED textVars

TextNext == Start \/ ConvertToUtf16Be \/ EndOfText \/ PackMsgToAlarm \/ CopyToBufSent
        \/ Done

TextSpec == TextInit /\ [][TextNext]_textVars /\ WF_textVars(TextNext)

-----------------------------------------------------------------------------
(* Properties. *)

(* A code point in hexadecimal, most significant digit first. *)
HexDigits == <<48, 49, 50, 51, 52, 53, 54, 55, 56, 57, 65, 66, 67, 68, 69, 70>>
Hex(code) == [k \in 1 .. 4 |-> HexDigits[((code \div <<4096, 256, 16, 1>>[k]) % 16) + 1]]

Size(piece) == Len(piece.bytes)

(* The characters of one and of three bytes in a name come out as their    *)
(* code points, in order, whatever stands between them: a fragment that is *)
(* not UTF-8 and characters of four bytes are left out without taking a    *)
(* neighbour with them.  (Two fragments side by side may make a character. *)
(* Characters of two bytes do not come out as their code points: the bits  *)
(* that mark their first byte stay in; nothing is said of names with one.) *)
Regular ==
    /\ \A k \in DOMAIN name : name[k].code # -1 => Size(name[k]) # 2
    /\ \A k \in 1 .. Len(name) - 1 : name[k].code # -1 \/ name[k + 1].code # -1
HexOf(p) == IF p.code = -1 \/ Size(p) = 4 THEN <<>> ELSE Hex(p.code)
DecodesUtf8 ==
    Ended /\ phone # 0 /\ Regular =>
        strOut = FlattenSeq([k \in DOMAIN name |-> HexOf(name[k])])

(* With a phone number of the eleven digits the code counts on, every part *)
(* of the message is where the message module expects it, for times, names *)
(* and ips of any length.                                                  *)
PartsInPlace ==
    stage \in {"copy", "done", "overrun"} /\ phone = 11 =>
        strMsg = Literal("command", 14) \o strPhoneNum \o Literal("comma", 3)
                     \o strDataTimeUtf16be \o Literal("alarm", 64) \o strOut
                     \o Literal("label", 28) \o strIpUtf16be \o Literal("end", 4)

(* How a message can bring the service down.  The fixed places make the    *)
(* last insert throw only on a phone number of one to six digits.  The     *)
(* copy leaves BufSent only when the name has more characters than the     *)
(* rest of the message leaves room for: whatever bytes it is made of, no   *)
(* character takes more than four places (in the code, 63 characters fit   *)
(* with a phone of eleven digits and the longest time and ip).             *)
FailsOnlyOutOfBounds ==
    /\ stage = "thrown" => phone \in 1 .. 6
    /\ stage = "overrun" => Len(strMsgSent) + phone + 4 * (time + ip + Len(name)) > BufSize

(* PackMsgToAlarm comes to an end on every input: a byte ConvertToUtf16Be  *)
(* cannot decode does not keep main in its while for ever.                 *)
MessageIsPacked == <>Ended

=============================================================================
