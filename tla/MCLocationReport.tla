--------------------------- MODULE MCLocationReport ---------------------------
(***************************************************************************)
(* Checks both parsers of location reports on every sequence of additional *)
(* items up to a length, and on every cut of it: a report grows by one     *)
(* item at a time.                                                         *)
(***************************************************************************)
EXTENDS LocationReport

CONSTANT MaxItems   \* bound: additional items of a report

\* An item; what each parser should make of it; and how many bytes of its data
\* jt808 needs if the item is cut, 0 if it does not look at them.
An(id, data, jt, legacy, needs) ==
    [id |-> id, data |-> data, jt |-> jt, legacy |-> legacy, needs |-> needs]
Same(id, data, says) == An(id, data, says, says, Len(data))

Alarm(status, ignition) ==
    [f \in {"alarm_status", "ecu_ignition"} |->
       IF f = "alarm_status" THEN status ELSE ignition]

\* Values are chosen so that data bytes can be mistaken for ids and sizes; a
\* known item of the wrong size and an unknown one are among them.
SomeItems ==
    {Same(1, <<0, 0, 1, 2>>, Field("mileage", 258)),
     Same(2, <<1, 4>>, Field("fuel", 260)),
     Same(2, <<48, 1>>, Field("fuel", 12289)),
     Same(48, <<1>>, Field("signal_strength", 1)),
     An(48, <<2, 48, 1>>, NoFields, Field("signal_strength", 2), 0),
     An(2, <<1>>, NoFields, NoFields, 0),
     An(42, <<2, 2>>, Field("io_status", 514), NoFields, 2),
     Same(238, <<1, 0>>, Alarm(1, 0)),
     An(238, <<0, 1, 1>>, Alarm(0, 1), Alarm(0, 1), 2),
     An(99, <<1, 4, 2>>, NoFields, NoFields, 0),
     An(99, <<>>, NoFields, NoFields, 0)}

VARIABLE items

LocationInit == items = <<>>
LocationNext ==
    Len(items) < MaxItems /\ \E item \in SomeItems : items' = Append(items, item)

Itemized(sent) ==
    FlattenSeq([i \in 1..Len(sent) |-> BuildItem(sent[i].id, sent[i].data)])

\* Of every field what the latest item says of it.
JtSaid(sent) == Said([i \in 1..Len(sent) |-> sent[i].jt])
LegacySaid(sent) == Said([i \in 1..Len(sent) |-> sent[i].legacy])

LocationSpec == LocationInit /\ [][LocationNext]_items

-----------------------------------------------------------------------------
\* The server reads from a report of the simulator the position in all four
\* quadrants, and of every item it knows the latest value, whatever other items
\* stand between them.
ReportIsRead ==
    \A lat, lng \in -1..1 :
        JtLocation(BuildHead(lat, lng), Itemized(items))
            = Report(lat, lng, JtSaid(items))

\* The items that are whole among the first n bytes.
Whole(n) ==
    LET k == Max({j \in 0..Len(items) : Len(Itemized(SubSeq(items, 1, j))) <= n})
    IN  SubSeq(items, 1, k)

\* A report that ends within an item is refused if jt808 lacks bytes of the
\* item that it reads; otherwise all items before that one count.
CutIsRefusedOrHarmless ==
    \A n \in 0..Len(Itemized(items)) :
        LET whole == Whole(n)
            tail == n - Len(Itemized(whole)) - 2
            cut == items[Len(whole) + 1]
            report == JtLocation(BuildHead(1, 0), SubSeq(Itemized(items), 1, n))
        IN  IF tail < 0 THEN report = Report(1, 0, JtSaid(whole))
            ELSE IF tail < cut.needs THEN report = Refused
            ELSE report = Report(1, 0, JtSaid(Append(whole, cut)))

\* The legacy parser never refuses a report for its items: wherever the report
\* ends, the items that are whole are read and nothing else.
LegacyReadsWholeItems ==
    \A n \in 0..Len(Itemized(items)) :
        LegacyLocation(BuildHead(1, 0), SubSeq(Itemized(items), 1, n)).fields
            = LegacySaid(Whole(n))

=============================================================================
