---------------------------- MODULE FrameParser ----------------------------
(***************************************************************************)
(* The byte parser of the Web viewer (parseAvailableFrames of app.js).     *)
(* A byte is a record whose field v is its value, so that the modules that *)
(* use the parser can tell where each byte came from.  A parser state is   *)
(* what is left in state.rx, the frames handed to decodeFrame, and the     *)
(* counters syncDrops and checksumErrors (the latter kept as the number of *)
(* bytes thrown away with such frames).                                    *)
(***************************************************************************)
EXTENDS Naturals, Sequences, SequencesExt

CONSTANTS SOF,          \* the value that starts a frame
          MAX_PAYLOAD,  \* the longest payload a frame may have
          RADIX         \* number of values of a byte

HEADER == 5   \* bytes of a frame besides its payload

\* xor of bytes, exact for bytes of one or two bits
Xor(a, b) == 2 * (((a \div 2) + (b \div 2)) % 2) + (((a % 2) + (b % 2)) % 2)

checksum(values) == FoldLeft(Xor, 0, values) % RADIX

Values(bytes) == [i \in DOMAIN bytes |-> bytes[i].v]

Fresh(rx) == [rx |-> rx, frames |-> <<>>, drops |-> 0, bad |-> 0]

\* Mutant: the length is read one byte too early.
total_Early(p) == HEADER + p.rx[3].v

total(p) == HEADER + p.rx[4].v

\* SOF and a length that a frame may have
Plausible(p) == p.rx[1].v = SOF /\ p.rx[4].v <= MAX_PAYLOAD

\* The loop goes on: a byte to drop, or a whole frame to take.
CanStep(p) == Len(p.rx) >= HEADER /\ (Plausible(p) => Len(p.rx) >= total(p))

ChecksumHolds(raw) ==
    checksum(Values(SubSeq(raw, 2, Len(raw) - 1))) = raw[Len(raw)].v

Step(p) ==
    IF ~Plausible(p)
    THEN [p EXCEPT !.rx = Tail(@), !.drops = @ + 1]
    ELSE LET raw  == SubSeq(p.rx, 1, total(p))
             rest == SubSeq(p.rx, total(p) + 1, Len(p.rx))
         IN IF ChecksumHolds(raw)
            THEN [p EXCEPT !.rx = rest, !.frames = Append(@, raw)]
            ELSE [p EXCEPT !.rx = rest, !.bad = @ + Len(raw)]

\* parseAvailableFrames: every turn of the loop takes a byte or more.
parseAvailableFrames(p) ==
    FoldLeft(LAMBDA q, i : IF CanStep(q) THEN Step(q) ELSE q,
             p, [i \in 1..Len(p.rx) |-> i])

\* Mutant: what was left of a frame is forgotten when more bytes come.
Feed_Forgets(p, bytes) == parseAvailableFrames([p EXCEPT !.rx = bytes])

\* appendRxBytes followed by parseAvailableFrames
Feed(p, bytes) == parseAvailableFrames([p EXCEPT !.rx = @ \o bytes])

\* The whole of a byte sequence parsed at once
Batch(bytes) == Feed(Fresh(<<>>), bytes)
=============================================================================
