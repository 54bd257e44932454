------------------------------ MODULE Telegram ------------------------------
(***************************************************************************)
(* The wire format of telegrams (src/telegram.c): the encoders             *)
(* tg_encode_text and tg_encode_cmd and the decoder tg_decode.             *)
(*                                                                         *)
(* Data.  A text is a sequence of symbols.  Line feed, carriage return,    *)
(* the N of the terminator and the space keep their meaning; a number, the *)
(* words "ZCZC TEXT" and "ZCZC CMD" and the prefix "R:" are one symbol     *)
(* each, and the space or dash between two numbers is implied, so lengths  *)
(* count symbols and the capacities are scaled to match.                   *)
(***************************************************************************)
EXTENDS SerialNumbers, SequencesExt

CONSTANTS
    TG_FIELD_MAX,       \* capacity of a key field, with its NUL
    TG_BODY_MAX,        \* capacity of a body, with its NUL
    LineSize,           \* the decoder's line buffer: TG_FIELD_MAX + 16
    TerminatorLength,   \* 4 in the code: "NNNN"
    IntMax, LongMax     \* 2^31 - 1 and 2^63 - 1 in the code

ASSUME TelegramAssumption ==
    /\ TG_FIELD_MAX \in Nat /\ TG_FIELD_MAX > 2 /\ TG_BODY_MAX \in Nat \ {0}
    /\ LineSize \in Nat /\ LineSize > TG_FIELD_MAX
    /\ TerminatorLength \in Nat \ {0} /\ TerminatorLength < LineSize
    /\ IntMax \in Nat /\ LongMax \in Nat
    /\ TG_SN_MAX <= IntMax /\ IntMax <= LongMax

LF == "lf"
CR == "cr"
SP == " "
N  == "N"
TG_TERMINATOR == [i \in 1 .. TerminatorLength |-> N]

\* Decimal numbers on the wire; those beyond a long are as good as the first.
Numeral(n) == ToString(n)
Longs      == -(LongMax + 1) .. LongMax
Numbers    == -(LongMax + 2) .. LongMax + 1
Numerals   == {Numeral(n) : n \in Numbers}
IsNumeral(s) == s \in Numerals
ValueOf(s) == CHOOSE n \in Numbers : Numeral(n) = s

\* strtol: a number beyond a long is read as the nearest long.
Saturated(n) == IF n > LongMax THEN LongMax ELSE IF n < -(LongMax + 1) THEN -(LongMax + 1) ELSE n
strtol(s) == Saturated(ValueOf(s))

\* The cast of a long to an int keeps its low bits.
ToInt(v) == ((v + IntMax + 1) % (2 * (IntMax + 1))) - (IntMax + 1)

\* Different numbers are written differently, and on one line.
ASSUME NumeralAssumption ==
    /\ \A m, n \in Numbers : Numeral(m) = Numeral(n) => m = n
    /\ \A n \in Numbers : Numeral(n) \notin {LF, CR}

Positions(text, symbols) == {p \in 1 .. Len(text) : text[p] \in symbols}

-----------------------------------------------------------------------------
(* Encoding *)

tg_field_ok(field) ==
    /\ field # <<>>
    /\ Len(field) < TG_FIELD_MAX
    /\ Positions(field, {LF, CR}) = {}

tg_body_ok_AtEnd(body) == ~IsSuffix(TG_TERMINATOR, body)

\* No line of the body ends in the terminator.  Only a line feed ends a line
\* here.
tg_body_ok(body) ==
    \A end \in Positions(body, {LF}) \cup {Len(body) + 1} :
        ~IsSuffix(TG_TERMINATOR, SubSeq(body, 1, end - 1))

Failed(code) == [result |-> code, out |-> <<>>]
Written(wire) == [result |-> "TG_OK", out |-> wire]

\* The string builder: all of it or nothing, with room for the NUL.
Built(out_size, wire) ==
    IF Len(wire) + 1 > out_size THEN Failed("TG_ERR_TOOSMALL") ELSE Written(wire)

Header(word, receiver, sender) ==
    <<word, LF>> \o receiver \o <<LF>> \o sender \o <<LF>>

tg_encode_text(out_size, receiver, sender, sn, timestamp, body) ==
    IF ~tg_field_ok(receiver) \/ ~tg_field_ok(sender) THEN Failed("TG_ERR_FORMAT")
    ELSE IF ~tg_sn_valid(sn) THEN Failed("TG_ERR_RANGE")
    ELSE IF ~tg_body_ok(body) THEN Failed("TG_ERR_FORMAT")
    ELSE Built(out_size, Header("ZCZC TEXT", receiver, sender)
                         \o <<Numeral(sn), Numeral(timestamp), LF>>
                         \o body \o TG_TERMINATOR \o <<LF>>)

tg_encode_cmd(out_size, receiver, sender, from, to) ==
    IF ~tg_field_ok(receiver) \/ ~tg_field_ok(sender) THEN Failed("TG_ERR_FORMAT")
    ELSE IF ~tg_sn_valid(from) \/ ~tg_sn_valid(to) THEN Failed("TG_ERR_RANGE")
    ELSE Built(out_size, Header("ZCZC CMD", receiver, sender)
                         \o <<"R:", Numeral(from), Numeral(to), LF>>
                         \o TG_TERMINATOR \o <<LF>>)

-----------------------------------------------------------------------------
(* Decoding *)

\* Where the line that starts at p ends, and where the next one starts: after
\* a carriage return, a line feed, or the two in this order.
EndOfLine(raw, p) ==
    LET breaks == {q \in Positions(raw, {LF, CR}) : q >= p}
    IN  IF breaks = {} THEN Len(raw) + 1 ELSE Min(breaks)

AfterLine(raw, p) ==
    LET end == EndOfLine(raw, p)
        lf  == IF end <= Len(raw) /\ raw[end] = CR THEN end + 1 ELSE end
    IN  IF lf <= Len(raw) /\ raw[lf] = LF THEN lf + 1 ELSE lf

\* A line as it arrives in the buffer, cut to what fits.
tg_next_line(raw, p) ==
    LET end == EndOfLine(raw, p)
        cut == IF end - p > LineSize - 1 THEN p + LineSize - 1 ELSE end
    IN  [text |-> SubSeq(raw, p, cut - 1), complete |-> cut = end]

\* All lines of raw, in order.
Lines(raw) ==
    LET from[p \in 1 .. Len(raw) + 1] ==
            IF p > Len(raw) THEN <<>>
            ELSE <<tg_next_line(raw, p)>> \o from[AfterLine(raw, p)]
    IN  from[1]

TG_INVALID == [kind |-> "TG_INVALID"]

FieldLine(line) ==
    line.complete /\ line.text # <<>> /\ Len(line.text) < TG_FIELD_MAX

\* strtol stops at what is not a digit: what follows the second number does
\* not matter.  It is the int that is looked at, not the long.
TextMeta(text) ==
    /\ Len(text) >= 2 /\ IsNumeral(text[1]) /\ IsNumeral(text[2])
    /\ tg_sn_valid(ToInt(strtol(text[1])))

CmdMeta(text) ==
    /\ Len(text) >= 3 /\ text[1] = "R:" /\ IsNumeral(text[2]) /\ IsNumeral(text[3])
    /\ tg_sn_valid(ToInt(strtol(text[2]))) /\ tg_sn_valid(ToInt(strtol(text[3])))

Terminates(line) == IsSuffix(TG_TERMINATOR, line.text)

BodyOf_Whole(lines, last) ==
    FlattenSeq([i \in 1 .. last |-> Append(lines[i].text, LF)])

\* The lines before the closing one, each with a line feed, and what stands
\* before the terminator.
BodyOf(lines, last) ==
    FlattenSeq([i \in 1 .. last - 1 |-> Append(lines[i].text, LF)])
    \o SubSeq(lines[last].text, 1, Len(lines[last].text) - TerminatorLength)

\* The body grows line by line and is refused as soon as it does not leave room
\* for two more bytes, which is decided by its final length.
tg_decode(raw) ==
    LET lines == Lines(raw)
        kind  == IF lines[1].text = <<"ZCZC TEXT">> THEN "TG_TEXT" ELSE "TG_CMD"
        rest  == SubSeq(lines, 5, Len(lines))
        last  == SelectInSeq(rest, Terminates)
        body  == BodyOf(rest, last)
    IN  IF \/ Len(lines) < 4
           \/ ~lines[1].complete
           \/ lines[1].text \notin {<<"ZCZC TEXT">>, <<"ZCZC CMD">>}
           \/ ~FieldLine(lines[2]) \/ ~FieldLine(lines[3])
           \/ ~lines[4].complete
           \/ kind = "TG_TEXT" /\ ~TextMeta(lines[4].text)
           \/ kind = "TG_CMD" /\ ~CmdMeta(lines[4].text)
           \/ last = 0
           \/ Len(body) + 1 >= TG_BODY_MAX
        THEN TG_INVALID
        ELSE [kind      |-> kind,
              receiver  |-> lines[2].text,
              sender    |-> lines[3].text,
              sn        |-> ToInt(strtol(lines[4].text[IF kind = "TG_TEXT" THEN 1 ELSE 2])),
              sn_to     |-> IF kind = "TG_TEXT" THEN 0 ELSE ToInt(strtol(lines[4].text[3])),
              timestamp |-> IF kind = "TG_TEXT" THEN strtol(lines[4].text[2]) ELSE 0,
              body      |-> body]

-----------------------------------------------------------------------------
(* What encoder and decoder promise together *)

CONSTANTS
    BodyLength,         \* bound: symbols of a body that is tried
    WireMax             \* out_size of the callers

ASSUME WireAssumption == BodyLength \in Nat /\ WireMax \in Nat \ {0}

Bodies == BoundedSeq({"1", N, LF, CR}, BodyLength)
AnyKey == <<"k">>

\* The lines end in line feeds and fit the decoder's buffer, the last one with
\* the terminator that follows it.
Representable(body) ==
    /\ Positions(body, {CR}) = {}
    /\ \A p \in 1 .. Len(body) + 1 :
          Len(tg_next_line(body \o TG_TERMINATOR, p).text)
             = EndOfLine(body \o TG_TERMINATOR, p) - p

\* tg_decode(tg_encode_text(body)) = body
ReadsBack(body) ==
    LET sent == tg_encode_text(WireMax, AnyKey, AnyKey, 1, 1, body)
    IN  sent.result = "TG_OK" =>
          tg_decode(sent.out) =
            IF Len(body) + 1 < TG_BODY_MAX
              THEN [kind |-> "TG_TEXT", receiver |-> AnyKey, sender |-> AnyKey,
                    sn |-> 1, sn_to |-> 0, timestamp |-> 1, body |-> body]
              ELSE TG_INVALID

\* A request of any build for the numbers from .. to is read as one for the
\* ints that are left of them, if these are serials.  The encoder takes serials
\* only, and they arrive as they are.
RequestReadsBack(from, to) ==
    LET sent == tg_encode_cmd(WireMax, AnyKey, AnyKey, from, to)
        raw  == Header("ZCZC CMD", AnyKey, AnyKey)
                \o <<"R:", Numeral(from), Numeral(to), LF>> \o TG_TERMINATOR \o <<LF>>
        asked(sn, sn_to) == [kind |-> "TG_CMD", receiver |-> AnyKey, sender |-> AnyKey,
                             sn |-> sn, sn_to |-> sn_to, timestamp |-> 0, body |-> <<>>]
        first == ToInt(Saturated(from))
        final == ToInt(Saturated(to))
    IN  /\ tg_decode(raw) = IF {first, final} \subseteq Serials THEN asked(first, final)
                            ELSE TG_INVALID
        /\ IF {from, to} \subseteq Serials THEN tg_decode(sent.out) = asked(from, to)
           ELSE sent.out = <<>>

\* raw with every line end written as one line feed.
OneLineFeed(raw, p) ==
    IF raw[p] # CR THEN <<raw[p]>>
    ELSE IF p < Len(raw) /\ raw[p + 1] = LF THEN <<>> ELSE <<LF>>

Normalised(raw) == FlattenSeq([p \in 1 .. Len(raw) |-> OneLineFeed(raw, p)])

\* A telegram whose metadata line is followed by text, written by any build.
ReadsAnyLineEnd(text) ==
    LET raw == Header("ZCZC TEXT", AnyKey, AnyKey) \o <<Numeral(1), Numeral(1), LF>> \o text
        message == tg_decode(raw)
    IN  /\ message = tg_decode(Normalised(raw))
        /\ message # TG_INVALID =>
             /\ Len(message.body) < TG_BODY_MAX
             /\ tg_decode(raw \o <<LF, "1", N>>) = message

=============================================================================
