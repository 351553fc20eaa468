------------------------------- MODULE Messages -------------------------------
(***************************************************************************)
(* The payload of a frame, byte for byte: the header, the bodies that the  *)
(* platform builds, and how each of the two stacks reads them.  jt808 is   *)
(* jt808/protocol.py with the handlers that take bodies apart, the legacy  *)
(* stack is protocol/.  Byte stuffing is in FrameCodec, the body of a      *)
(* location report in LocationReport.  Texts (manufacturer, plate, code)   *)
(* are sequences of bytes; their character sets are left out.              *)
(***************************************************************************)
EXTENDS Naturals, Dict

U16(n) == <<n \div 256, n % 256>>
U32(n) == U16(n \div 65536) \o U16(n % 65536)
Number16(data, i) == 256 * data[i] + data[i + 1]

\* XOR of all bytes: a bit of it is the parity of that bit.
Checksum(data) ==
    LET set(k) == {i \in DOMAIN data : (data[i] \div 2^k) % 2 = 1}
    IN  MapThenSumSet(LAMBDA k : 2^k * (Cardinality(set(k)) % 2), 0..7)

\* Mutant of Zfill: ljust, so that the zeros follow the digits.
ZfillRight(digits) == digits \o [i \in 1..(12 - Len(digits)) |-> 0]

\* str.zfill(12), and two digits to a byte.
Zfill(digits) == [i \in 1..(12 - Len(digits)) |-> 0] \o digits
BcdEncode(digits) ==
    [i \in 1..6 |-> 16 * Zfill(digits)[2 * i - 1] + Zfill(digits)[2 * i]]
BcdDecode(data) ==
    [i \in 1..12 |-> IF i % 2 = 1 THEN data[(i + 1) \div 2] \div 16
                     ELSE data[i \div 2] % 16]

-----------------------------------------------------------------------------
(* Header, build and parse *)

\* encode_header as build_message calls it, and build_frame: ten bits of the
\* length, no encryption, no sub-package.
Encoded(id, phone, serial, body) ==
    U16(id) \o U16(Len(body) % 1024) \o BcdEncode(phone) \o U16(serial) \o body

Payload(id, phone, serial, body) ==
    LET inner == Encoded(id, phone, serial, body)
    IN  Append(inner, Checksum(inner))

BodyLength(payload) == Number16(payload, 3) % 1024
IsSubpackage(payload) == (Number16(payload, 3) \div 8192) % 2 = 1

Nothing == [outcome |-> "none"]
Raises == [outcome |-> "raises"]

Offset(payload) == IF IsSubpackage(payload) THEN 16 ELSE 12

MessageOf(payload, body) ==
    [outcome |-> "message", id |-> Number16(payload, 1),
     phone |-> BcdDecode(SubSeq(payload, 5, 10)),
     serial_no |-> Number16(payload, 11), body |-> body,
     packet |-> IF IsSubpackage(payload)
                THEN <<Number16(payload, 13), Number16(payload, 15)>>
                ELSE <<0, 0>>]

Sound(payload) ==
    /\ Len(payload) >= 13
    /\ Checksum(Front(payload)) = Last(payload)

\* parse_message: what the header says of the length is not looked at, and the
\* packet numbers are read wherever the payload ends.
JtParse(payload) ==
    CASE ~Sound(payload) -> Nothing
      [] Sound(payload) /\ Len(payload) < Offset(payload) -> Raises
      [] OTHER -> MessageOf(payload, SubSeq(payload, Offset(payload) + 1,
                                            Len(payload) - 1))

\* Mutant of LegacyParse: the length of a sub-package is not checked.
LegacyParseUnchecked(payload) ==
    IF ~Sound(payload) THEN Nothing
    ELSE LET body == SubSeq(payload, Offset(payload) + 1,
                            Min({Len(payload),
                                 Offset(payload) + BodyLength(payload)}))
         IN  IF Len(body) < BodyLength(payload) THEN Nothing
             ELSE IF Len(payload) < Offset(payload) THEN Raises
             ELSE MessageOf(payload, body)

\* parse_frame: the body is as long as the header says, and may take in the
\* checksum; a shorter one is refused.
LegacyParse(payload) ==
    IF ~Sound(payload) \/ (IsSubpackage(payload) /\ Len(payload) < 17)
    THEN Nothing
    ELSE LET body == SubSeq(payload, Offset(payload) + 1,
                            Min({Len(payload),
                                 Offset(payload) + BodyLength(payload)}))
         IN  IF Len(body) < BodyLength(payload) THEN Nothing
             ELSE MessageOf(payload, body)

-----------------------------------------------------------------------------
(* Answers of the platform, and an acknowledgement *)

\* Mutant of GeneralResponse: serial number and message id exchanged.
GeneralResponseSwapped(serial, id, result) ==
    U16(id) \o U16(serial) \o <<result>>
GeneralResponse(serial, id, result) == U16(serial) \o U16(id) \o <<result>>

RegisterResponse(serial, result, code) ==
    U16(serial) \o <<result>> \o (IF result = 0 THEN code ELSE <<>>)

\* The first five bytes, whatever follows; a shorter body is refused.
ReadGeneralResponse(body) ==
    IF Len(body) < 5 THEN Nothing
    ELSE [serial |-> Number16(body, 1), id |-> Number16(body, 3),
          result |-> body[5]]

\* run() of the simulator.
ReadRegisterResponse(body) ==
    [result |-> body[3],
     code |-> IF body[3] = 0 THEN SubSeq(body, 4, Len(body)) ELSE <<>>]

-----------------------------------------------------------------------------
(* Commands *)

\* A parameter is an id of four bytes and a value.
Item(param) == U32(param.id) \o <<Len(param.value)>> \o param.value

SetParams(params) ==
    <<Len(params)>> \o FlattenSeq([i \in DOMAIN params |-> Item(params[i])])

-----------------------------------------------------------------------------
(* handle_params_response *)

\* What the loop stores from position i on, later[k] being what it stores from
\* position k on: the value, cut at the end of the bytes, under the four bytes
\* of the id; what is stored later overrides it.
ParamIteration(data, i, later, last) ==
    LET end == Len(data)
        next == i + 5 + data[i + 4]
        value == SubSeq(data, i + 5, IF next > end THEN end ELSE next - 1)
    IN  IF i > last THEN NoFields
        ELSE Updated(Field(SubSeq(data, i, i + 3), value),
                     IF next > end THEN NoFields ELSE later[next])

ParamLoop(data, last) ==
    LET from[i \in 1..(Len(data) + 1)] == ParamIteration(data, i, from, last)
    IN  from[1]

\* The number of parameters that the body announces is skipped.
ParamPart(body) == SubSeq(body, 4, Len(body))

\* Mutant of ReadParams: < for <=, so that an empty value at the end is lost.
ReadParamsStopsEarly(body) ==
    ParamLoop(ParamPart(body), Len(ParamPart(body)) - 5)

ReadParams(body) == ParamLoop(ParamPart(body), Len(ParamPart(body)) - 4)

-----------------------------------------------------------------------------
(* Registration *)

Pad(text, n) == [i \in 1..n |-> IF i <= Len(text) THEN text[i] ELSE 0]

\* build_registration of the simulator.
BuildRegistration(r) ==
    U16(r.province_id) \o U16(r.city_id) \o Pad(r.manufacturer, 5)
      \o Pad(r.device_model, 20) \o Pad(r.device_id, 20)
      \o <<r.plate_color>> \o r.plate_no

\* rstrip('\x00')
Stripped(text) ==
    SubSeq(text, 1, Max({0} \cup {i \in DOMAIN text : text[i] # 0}))

Fields(body, device, rest) ==
    [province_id |-> Number16(body, 1), city_id |-> Number16(body, 3),
     manufacturer |-> Stripped(SubSeq(body, 5, 9)),
     device_model |-> Stripped(SubSeq(body, 10, 29)),
     device_id |-> Stripped(SubSeq(body, 30, device)),
     plate_color |-> body[device + 1],
     plate_no |-> Stripped(SubSeq(body, rest, Len(body)))]

\* Mutant of JtRegistration: a device id of seven bytes, as in
\* parse_registration of protocol/parser.py.
JtRegistrationShortId(body) ==
    IF Len(body) < 37 THEN Nothing ELSE Fields(body, 36, 38)

\* handle_registration: body[49] is the last byte it needs.
JtRegistration(body) ==
    IF Len(body) < 50 THEN Nothing ELSE Fields(body, 49, 51)

=============================================================================
