---------------------------- MODULE LocationReport ----------------------------
(***************************************************************************)
(* The body of a location report (0x0200): the two parsers of it, one in   *)
(* jt808/protocol.py and one in protocol/parser.py, and how the simulator  *)
(* writes it.  Of the 28 bytes of the basic part, the head, this module    *)
(* keeps what the parsers branch on: whether it is whole, whether its date *)
(* is one, the status bits and the position; the additional items that     *)
(* follow are kept byte for byte.                                          *)
(***************************************************************************)
EXTENDS Integers, Dict

\* Big-endian number.  The legacy parser divides mileage, fuel and speed by 10:
\* here they stay in tenths on both sides.
Value(data) ==
    LET upto[i \in 0..Len(data)] ==
          IF i = 0 THEN 0 ELSE 256 * upto[i - 1] + data[i]
    IN  upto[Len(data)]

CUSTOM == 238   \* 0xEE

Custom(data) ==
    Updated(Field("alarm_status", data[1]), Field("ecu_ignition", data[2]))

Fixed(id, field, size) == [id |-> id, field |-> field, size |-> size]

\* The items of one number that both parsers know, and those of jt808 as well.
CommonItems ==
    {Fixed(1, "mileage", 4), Fixed(2, "fuel", 2), Fixed(3, "speed_can", 2),
     Fixed(48, "signal_strength", 1), Fixed(49, "gnss_satellites", 1)}

JtItems ==
    CommonItems \cup
    {Fixed(4, "alarm_id", 2), Fixed(37, "ext_signal", 4),
     Fixed(42, "io_status", 2), Fixed(43, "analog", 4)}

\* The field of a known item filled; none if there is no such item.
FieldsOf(known, value) == [f \in {row.field : row \in known} |-> value]

Read(fields) == [raised |-> FALSE, fields |-> fields]
Raised == [raised |-> TRUE, fields |-> NoFields]

-----------------------------------------------------------------------------
(* jt808/protocol.py *)

IsCustom(id, size) == id = CUSTOM /\ size >= 2
JtKnown(id, size) == {row \in JtItems : row.id = id /\ row.size = size}

\* Mutant of JtItem: a number is read from the bytes that are there.
JtReadsShort(id, size, data) ==
    IF IsCustom(id, size)
    THEN IF Len(data) < 2 THEN Raised ELSE Read(Custom(data))
    ELSE Read(FieldsOf(JtKnown(id, size), Value(data)))

\* One item of the declared size; `data` is shorter when the body ends first.
JtItem(id, size, data) ==
    IF IsCustom(id, size)
    THEN IF Len(data) < 2 THEN Raised ELSE Read(Custom(data))
    ELSE IF JtKnown(id, size) # {} /\ Len(data) < size THEN Raised
         ELSE Read(FieldsOf(JtKnown(id, size), Value(data)))

\* What an item says, and what those after it say, which override it.
Followed(item, rest) ==
    [raised |-> item.raised \/ rest.raised,
     fields |-> Updated(item.fields, rest.fields)]

\* What the loop reads from position i on, later[k] being what it reads from
\* position k on; an item that is cut short raises.  `step` is what the loop
\* skips besides the data of an item.
JtIteration(extra, i, later, step) ==
    LET end == Len(extra)
        size == extra[i + 1]
        last == IF i + 1 + size > end THEN end ELSE i + 1 + size
        next == i + step + size
    IN  IF i + 1 > end THEN Read(NoFields)
        ELSE Followed(JtItem(extra[i], size, SubSeq(extra, i + 2, last)),
                      IF next > end THEN Read(NoFields) ELSE later[next])

JtLoop(extra, step) ==
    LET from[i \in 1..(Len(extra) + 1)] == JtIteration(extra, i, from, step)
    IN  from[1]

\* Mutant of JtExtras: id and size are skipped twice.
JtSkipsTooFar(extra) == JtLoop(extra, 4)

JtExtras(extra) == JtLoop(extra, 2)

Refused == [refused |-> TRUE]
Report(lat, lng, fields) ==
    [refused |-> FALSE, latitude |-> lat, longitude |-> lng, fields |-> fields]

Signed(n, negative) == IF negative THEN 0 - n ELSE n

\* parse_location_report raises on a short body and on a date that is none.
JtLocation(head, extra) ==
    LET extras == JtExtras(extra)
    IN  IF ~head.whole \/ ~head.dated \/ extras.raised THEN Refused
        ELSE Report(Signed(head.lat, 4 \in head.status),
                    Signed(head.lng, 5 \in head.status), extras.fields)

-----------------------------------------------------------------------------
(* protocol/parser.py *)

\* An item longer than its number is read as well.
LegacyKnown(id, size) == {row \in CommonItems : row.id = id /\ row.size <= size}

LegacyItem(id, data) ==
    LET known == LegacyKnown(id, Len(data))
        size == (CHOOSE row \in known : TRUE).size
    IN  IF IsCustom(id, Len(data)) THEN Custom(data)
        ELSE FieldsOf(known, Value(SubSeq(data, 1, size)))

\* The loop ends at an item that would reach beyond `end`.
LegacyIteration(extra, i, later, end) ==
    LET last == i + 1 + extra[i + 1]
    IN  IF i + 1 > Len(extra) \/ last > end THEN NoFields
        ELSE Updated(LegacyItem(extra[i], SubSeq(extra, i + 2, last)),
                     later[last + 1])

LegacyLoop(extra, end) ==
    LET from[i \in 1..(Len(extra) + 1)] == LegacyIteration(extra, i, from, end)
    IN  from[1]

\* Mutant of LegacyExtras: an item that ends with the body counts as cut.
LegacyStopsEarly(extra) == LegacyLoop(extra, Len(extra) - 1)

LegacyExtras(extra) == LegacyLoop(extra, Len(extra))

\* A date that is none becomes the current time; the hemispheres are taken from
\* other bits of the status than in jt808.
LegacyLocation(head, extra) ==
    IF ~head.whole THEN Refused
    ELSE Report(Signed(head.lat, 2 \in head.status),
                Signed(head.lng, 3 \in head.status), LegacyExtras(extra))

-----------------------------------------------------------------------------
(* test_simulator.py *)

Distance(n) == IF n < 0 THEN 0 - n ELSE n

BuildHead(lat, lng) ==
    [whole |-> TRUE, dated |-> TRUE,
     status |-> {0, 1} \cup (IF lat < 0 THEN {4} ELSE {})
                       \cup (IF lng < 0 THEN {5} ELSE {}),
     lat |-> Distance(lat), lng |-> Distance(lng)]

BuildItem(id, data) == <<id, Len(data)>> \o data

=============================================================================
