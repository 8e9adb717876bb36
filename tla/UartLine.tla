------------------------------- MODULE UartLine -------------------------------
(***************************************************************************)
(* The serial line from the MCU to the terminal: the firmware's tick       *)
(* (firmware/mcu-emu) writes frames, the line may damage them, and the     *)
(* terminal reads whatever bytes have come and decodes them (protocol's    *)
(* mcu.rs).  EdgeAgent::ingest_uart gives each chunk to two FrameDecoders, *)
(* one for samples and one for pads; their buffers are always equal and    *)
(* the model keeps one.                                                    *)
(*                                                                         *)
(* A byte is 0..7.  Payloads have two bytes: a sample's force and          *)
(* distance, a button's pad and event, a byte for each number.             *)
(***************************************************************************)
EXTENDS Integers, SequencesExt

CONSTANTS
    Samples,    \* what the sensors may say: records of force and tof
    Pads,       \* the pads that may be pressed
    NoiseBytes, \* the bytes that the line may put in place of others
    MaxNoise,   \* bound: disturbances of the line
    MaxWire,    \* bound: bytes under way
    MaxBuf      \* bound: bytes the decoder holds

Byte == 0..7
MAGIC0 == 6
MAGIC1 == 5
Sense == 1
Button == 2
NoTof == 8                      \* no distance, beside the bytes
MsgType == {Sense, Button, 3}   \* 3 stands for Led, Ping and Pong

Sample == [force : Byte, tof : (Byte \ {0}) \cup {NoTof}]
Pressed == [pad : 0..3]

\* A sensor at a distance of 0 could not be told from one that sees nothing.
ASSUME LineAssumption ==
    /\ Samples \subseteq Sample
    /\ Pads \subseteq 0..3
    /\ NoiseBytes \subseteq Byte
    /\ MaxNoise \in Nat /\ MaxWire \in Nat /\ MaxBuf \in Nat

VARIABLES
    wire,   \* bytes written and not read
    buf,    \* FrameDecoder's buf
    got,    \* what the last chunk brought: samples and presses
    owed,   \* history: what was written after the last disturbance and is not yet decoded
    noise   \* how many disturbances there were

vars == <<wire, buf, got, owed, noise>>

Press(pad) == [pad |-> pad]
Messages == Samples \cup {Press(p) : p \in Pads}

----------------------------------------------------------------------------
\* Frames

Bit(a, w) == (a \div w) % 2
BitXor(a, b, w) == w * ((Bit(a, w) + Bit(b, w)) % 2)
XorByte == [a \in Byte |-> [b \in Byte |-> BitXor(a, b, 1) + BitXor(a, b, 2) + BitXor(a, b, 4)]]
checksum[bytes \in Seq(Byte)] ==
    IF bytes = <<>> THEN 0 ELSE XorByte[Head(bytes)][checksum[Tail(bytes)]]

encode(msg, payload) ==
    LET body == <<msg, Len(payload)>> \o payload
    IN  <<MAGIC0, MAGIC1>> \o body \o <<checksum[body]>>

\* to_bytes of SensePayload, which has 0 for no distance, and of ButtonPayload
Encoded == [m \in Messages |->
    IF "pad" \in DOMAIN m
      THEN encode(Button, <<m.pad, 1>>)
      ELSE encode(Sense, <<m.force, IF m.tof = NoTof THEN 0 ELSE m.tof>>)]

\* The frames of all these messages, one behind the other; every frame has seven bytes.
FrameLen == 7
AllEncoded(ms) ==
    [k \in 1..FrameLen * Len(ms) |-> Encoded[ms[1 + (k - 1) \div FrameLen]][1 + ((k - 1) % FrameLen)]]

AtMagic(s) == s[1] = MAGIC0 /\ s[2] = MAGIC1
Complete(s) == Len(s) >= 5 /\ AtMagic(s) /\ Len(s) >= 5 + s[4]
ChecksumOk(s) == s[5 + s[4]] = checksum[SubSeq(s, 3, 4 + s[4])]

\* A distance of 0 taken for one.
MeaningZeroTof(f) ==
    CASE f.msg = Sense /\ Len(f.payload) >= 2 ->
           <<[force |-> f.payload[1], tof |-> f.payload[2]]>>
      [] OTHER -> <<>>

\* What SensePipeline::push_bytes and EdgeAgent::ingest_uart make of a frame.
Meaning(f) ==
    CASE f.msg = Sense /\ Len(f.payload) >= 2 ->
           <<[force |-> f.payload[1], tof |-> IF f.payload[2] = 0 THEN NoTof ELSE f.payload[2]]>>
      [] f.msg = Button /\ Len(f.payload) >= 2 /\ f.payload[2] = 1 /\ f.payload[1] \in 0..3 ->
           <<Press(f.payload[1])>>
      [] OTHER -> <<>>

\* try_pop in a loop: what stays in the buffer, and what the frames found in it say.
\* Bytes before a magic are dropped; a frame with a wrong checksum costs its first byte
\* and ends the loop; one of unknown type ends it and stays.  The code keeps the bytes
\* behind that one, too; nothing will look at them, and the model drops them.
Pops[s \in Seq(Byte)] ==
    CASE Len(s) >= 2 /\ ~ AtMagic(s) -> Pops[Tail(s)]
      [] Len(s) < 2 \/ (AtMagic(s) /\ ~ Complete(s)) -> [buf |-> s, found |-> <<>>]
      [] Complete(s) /\ ~ ChecksumOk(s) -> [buf |-> Tail(s), found |-> <<>>]
      [] Complete(s) /\ ChecksumOk(s) /\ s[3] \notin MsgType ->
           [buf |-> SubSeq(s, 1, 5 + s[4]), found |-> <<>>]
      [] OTHER ->
           LET f == [msg |-> s[3], payload |-> SubSeq(s, 5, 4 + s[4])]
           IN  [Pops[SubSeq(s, 6 + s[4], Len(s))] EXCEPT !.found = Meaning(f) \o @]

\* The checksum is not drained with its frame.
PushShort(data) ==
    LET r == Pops[buf \o data]
    IN  IF r.found = <<>> THEN r ELSE [r EXCEPT !.buf = <<0>> \o @]

\* A wrong checksum leaves the buffer as it is.
PushKeepsBad(data) ==
    CHOOSE kept \in {IF Complete(<<MAGIC0>> \o r.buf) /\ ~ ChecksumOk(<<MAGIC0>> \o r.buf)
                       THEN [r EXCEPT !.buf = <<MAGIC0>> \o @] ELSE r : r \in {Pops[buf \o data]}} :
        TRUE

\* push
Push(data) == Pops[buf \o data]

----------------------------------------------------------------------------
\* Of what is owed, what can still be whole when n bytes are left.
LastOf(ms, m) == SubSeq(ms, Len(ms) - m + 1, Len(ms))
StillOwed(ms, n) == IF FrameLen * Len(ms) <= n THEN ms ELSE LastOf(ms, n \div FrameLen)

Init ==
    /\ wire = <<>> /\ buf = <<>>
    /\ got = <<>> /\ owed = <<>>
    /\ noise = 0

\* tick_50ms: a sample, and the presses since the last tick.
Tick(sample, presses) ==
    LET said == <<sample>> \o presses
    IN  /\ Len(wire) + Len(AllEncoded(said)) <= MaxWire
        /\ wire' = wire \o AllEncoded(said)
        /\ owed' = owed \o said
        /\ UNCHANGED <<buf, got, noise>>

\* The terminal reads n bytes: ingest_uart.
Ingest(n) ==
    /\ n <= Len(wire)
    /\ Len(buf) + n <= MaxBuf
    /\ wire' = SubSeq(wire, n + 1, Len(wire))
    /\ \E r \in {Push(SubSeq(wire, 1, n))} :
          /\ buf' = r.buf
          /\ got' = r.found
          /\ owed' = StillOwed(owed, Len(r.buf) + Len(wire) - n)
    /\ UNCHANGED noise

\* A byte at i changes, is lost, or comes from nowhere.
Disturb(i) ==
    /\ noise < MaxNoise
    /\ noise' = noise + 1
    /\ \/ \E b \in NoiseBytes \ {wire[i]} : wire' = ReplaceAt(wire, i, b)
       \/ wire' = RemoveAt(wire, i)
       \/ \E b \in NoiseBytes : wire' = InsertAt(wire, i, b)
    /\ owed' = StillOwed(owed, Len(wire) - i)
    /\ UNCHANGED <<buf, got>>

\* The terminal's process starts again.
Restart ==
    /\ noise < MaxNoise
    /\ noise' = noise + 1
    /\ buf # <<>>
    /\ buf' = <<>>
    /\ owed' = StillOwed(owed, Len(wire))
    /\ UNCHANGED <<wire, got>>

AnyTick == \E s \in Samples : \E ps \in {<<>>} \cup {<<Press(p)>> : p \in Pads} : Tick(s, ps)
AnyIngest == \E n \in 1..Len(wire) : Ingest(n)

Next ==
    \/ AnyTick
    \/ AnyIngest
    \/ \E i \in 1..Len(wire) : Disturb(i)
    \/ Restart

\* The MCU ticks on, and the terminal reads on.
Spec == Init /\ [][Next]_vars /\ WF_vars(AnyTick) /\ WF_vars(AnyIngest)

----------------------------------------------------------------------------
\* The line and the buffer hold bytes; what comes out is a sample whose distance is none
\* or not 0, or a press of a pad there is.
TypeOK ==
    /\ wire \in Seq(Byte) /\ Len(wire) <= MaxWire + noise
    /\ buf \in Seq(Byte) /\ Len(buf) <= MaxBuf
    /\ got \in Seq(Sample \cup Pressed)
    /\ owed \in Seq(Messages)
    /\ noise \in 0..MaxNoise

\* The decoder is at the start of a frame, and all that is before it is whole.
Aligned == buf \o wire = AllEncoded(owed)

\* The head of the buffer is a frame of unknown type with a right checksum.
Blocked == Complete(buf) /\ ChecksumOk(buf) /\ buf[3] \notin MsgType

\* However the bytes are cut into chunks, a terminal in step with the line gets each
\* sample and each press once, in order, and nothing else, and stays in step.
AlignedIsExact ==
    [][Aligned /\ noise' = noise =>
          /\ Aligned'
          /\ Len(wire') < Len(wire) => owed = got' \o owed']_vars

\* After noise, lost bytes or a start in the middle of a frame the terminal finds the
\* frames again, unless a frame of unknown type with a right checksum has come up.
Resyncs == []<>(Aligned \/ Blocked)

\* What the decoder's own comment and its test say of it: it drops what is no frame and
\* finds the next magic, whatever came before.
FindsFrames == []<>Aligned
=============================================================================
