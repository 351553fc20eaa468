------------------------------ MODULE MCMessages ------------------------------
(***************************************************************************)
(* Checks the payloads of Messages: a body grows by one byte at a time, and *)
(* a set of parameters by one parameter.  The builders and the parsers are *)
(* functions, so the properties are about every body, parameter set and cut *)
(* of it that the states name.                                             *)
(***************************************************************************)
EXTENDS Messages

CONSTANTS
    MaxSize,    \* bound: bytes of a body
    MaxParams   \* bound: parameters of a message

VARIABLES size, params
messageVars == <<size, params>>

\* Values that can be mistaken for lengths and ids; one is empty.
SomeParams ==
    {[id |-> 1, value |-> <<0, 0, 0, 60>>], [id |-> 19, value |-> <<5, 1>>],
     [id |-> 65537, value |-> <<>>]}

MessageInit == size = 0 /\ params = <<>>

MessageNext ==
    \/ /\ size < MaxSize /\ params = <<>>
       /\ size' = size + 1
       /\ UNCHANGED params
    \/ /\ Len(params) < MaxParams /\ size = 0
       /\ \E param \in SomeParams : params' = Append(params, param)
       /\ UNCHANGED size

MessageSpec == MessageInit /\ [][MessageNext]_messageVars

BodyOf(n) == [i \in 1..n |-> (37 * i) % 256]
Phone11 == <<1, 3, 8, 0, 0, 1, 3, 8, 0, 0, 1>>
AsSent(serial, body) ==
    [outcome |-> "message", id |-> 512, phone |-> <<0>> \o Phone11,
     serial_no |-> serial, body |-> body, packet |-> <<0, 0>>]

-----------------------------------------------------------------------------
\* A message that one end builds is read by the other with the same id, phone
\* number (of twelve digits), serial number and body; only the legacy parser
\* takes the length modulo 1024, and loses the rest of a longer body.
\* The multiples are such that a body of 1023, of 1024 and of 1025 bytes occurs.
BuiltIsParsed ==
    \A n \in {k * size : k \in {1, 64, 93, 205}}, serial \in {0, 65535} :
        LET payload == Payload(512, Phone11, serial, BodyOf(n))
        IN  /\ JtParse(payload) = AsSent(serial, BodyOf(n))
            /\ LegacyParse(payload) = AsSent(serial, BodyOf(n % 1024))

\* A payload with any header: a length of its own, and perhaps the bit that
\* announces packet numbers.
Raw(props, n) ==
    LET inner == U16(512) \o U16(props) \o BcdEncode(Phone11) \o U16(7)
                   \o BodyOf(n)
    IN  Append(inner, Checksum(inner))

\* The header that jt808 reads, and its body cut at a length, the checksum being
\* at hand for a length one too large.
Alike(payload, length) ==
    LET jt == JtParse(payload)
    IN  /\ jt.outcome = "message"
        /\ LegacyParse(payload)
             = [jt EXCEPT !.body = SubSeq(Append(@, Last(payload)), 1, length)]

\* The two stacks agree on a payload: what the legacy stack accepts, jt808 does
\* not refuse or raise on, and both read the same header.  The bodies are the
\* same except that the legacy one is cut at the length in the header, and that
\* a header one byte too long makes it take in the checksum.
StacksAgree ==
    \A long \in 0..(size + 2), flag \in {0, 8192} :
        LET payload == Raw(flag + long, size)
        IN  LegacyParse(payload) # Nothing => Alike(payload, long % 1024)

\* The values that a terminal answers a query with are stored, the later of two
\* values of one parameter; where the message is cut, every parameter before
\* the cut is stored and nothing follows it but the one that is cut.
Answer(sent) == U16(7) \o SetParams(sent)
Meaning(sent) ==
    Said([i \in 1..Len(sent) |-> Field(U32(sent[i].id), sent[i].value)])
Heads(n) ==
    {k \in 1..Len(params) :
       Len(Answer(SubSeq(params, 1, k))) - Len(params[k].value) <= n}
ParamsAreRead ==
    \A n \in 3..Len(Answer(params)) :
        LET k == Max({0} \cup Heads(n))
            kept == SubSeq(params, 1, k)
            missing == Len(Answer(kept)) - n
            cut == [i \in 1..k |->
                      IF i < k THEN kept[i]
                      ELSE [kept[i] EXCEPT !.value =
                              SubSeq(@, 1, Len(@) - Max({0, missing}))]]
        IN  ReadParams(SubSeq(Answer(params), 1, n)) = Meaning(cut)

SomeRegistration(plate) ==
    [province_id |-> 13, city_id |-> 300, manufacturer |-> <<83, 69, 76>>,
     device_model |-> <<65, 66, 67>>, plate_color |-> 1, plate_no |-> plate,
     device_id |-> [i \in 1..8 |-> 48 + i]]

\* The server reads every field of a registration of the simulator, whatever
\* the length of its plate, and refuses the ones that end before the colour of
\* the plate; the terminal reads the answers of the server, code and all.
DialogueIsRead ==
    LET sent == SomeRegistration([i \in 1..size |-> 64 + i])
        body == BuildRegistration(sent)
    IN  /\ JtRegistration(body) = sent
        /\ \A n \in 0..Len(body) :
             JtRegistration(SubSeq(body, 1, n)) = Nothing <=> n < 50
        /\ ReadRegisterResponse(RegisterResponse(7, 0, BodyOf(size)))
             = [result |-> 0, code |-> BodyOf(size)]
        /\ ReadRegisterResponse(RegisterResponse(7, 1, BodyOf(size)))
             = [result |-> 1, code |-> <<>>]
        /\ \A n \in 0..5 + size :
             LET answer == GeneralResponse(300 + size, 512, 0) \o BodyOf(size)
             IN  ReadGeneralResponse(SubSeq(answer, 1, n)) =
                   IF n < 5 THEN Nothing
                   ELSE [serial |-> 300 + size, id |-> 512, result |-> 0]

=============================================================================
