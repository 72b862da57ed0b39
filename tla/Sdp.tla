-------------------------------- MODULE Sdp --------------------------------
(***************************************************************************)
(* Session descriptions and their text.  A text is a sequence of lines     *)
(* [key, value]; the value of a line is what its characters say:           *)
(*   o  [session_id, session_version]                                      *)
(*   b  [prefixes, type], with the number of "X-" before the type          *)
(*   r  a sequence of times, z a sequence alternating numbers and times,   *)
(*      where a time is <<number, unit>>                                   *)
(*   a  the parts between colons                                           *)
(*   m  [media]                                                            *)
(* and an opaque text for the others.  A value that the line's function    *)
(* refuses, for its number of fields, a number that cannot be read or a    *)
(* name that is not registered, is Malformed.                              *)
(* The lexer is the table of state functions s1 to s16, one line a step.   *)
(***************************************************************************)
EXTENDS Naturals, Sequences, SequencesExt

CONSTANTS
    None,       \* what is absent
    Malformed,  \* the value of a line that its function refuses
    MaxTime     \* the largest time, i64::MAX

ASSUME SdpAssumption == MaxTime \in Nat

NoDescription ==
    [origin |-> None, session_name |-> None, session_information |-> None, uri |-> None,
     email_address |-> None, phone_number |-> None, connection_information |-> None,
     bandwidth |-> <<>>, time_descriptions |-> <<>>, time_zones |-> <<>>,
     encryption_key |-> None, attributes |-> <<>>, media_descriptions |-> <<>>]

(* The lexer between two lines.                                              *)
Lexer(state, desc) == [state |-> state, desc |-> desc]
SyntaxError == Lexer("error", NoDescription)

(* A value is checked before anything is stored.                             *)
Checked(x, lexer) == IF x = Malformed THEN SyntaxError ELSE lexer

-----------------------------------------------------------------------------
(* The keys each state function takes.                                       *)
S1 == {"v"}
S2 == {"o"}
S3 == {"s"}
S4 == {"i", "u", "e", "p", "c", "b", "t"}
S5 == {"b", "t"}
S6 == {"p", "c", "b", "t"}
S7 == {"u", "e", "p", "c", "b", "t"}
S8 == {"c", "b", "t"}
S9 == {"z", "k", "a", "r", "t", "m"}
S10 == {"e", "p", "c", "b", "t"}
S11 == {"a", "m"}
S12 == {"a", "k", "b", "c", "i", "m"}
S13 == {"a", "k", "m"}
S14 == {"a", "k", "b", "c", "i", "m"}

S15 == {"a", "k", "b", "c", "i", "m"}
S16 == {"a", "k", "c", "b", "i", "m"}

Keys(state) ==
    CASE state = "s1" -> S1 [] state = "s2" -> S2 [] state = "s3" -> S3 [] state = "s4" -> S4
      [] state = "s5" -> S5 [] state = "s6" -> S6 [] state = "s7" -> S7 [] state = "s8" -> S8
      [] state = "s9" -> S9 [] state = "s10" -> S10 [] state = "s11" -> S11
      [] state = "s12" -> S12 [] state = "s13" -> S13 [] state = "s14" -> S14
      [] state = "s15" -> S15 [] state = "s16" -> S16 [] OTHER -> {}

(* The states in which the text may end, and those after a line m.           *)
MayEnd == {"s9", "s11", "s12", "s13", "s14", "s15", "s16"}
InMedia == {"s12", "s14", "s15", "s16"}

-----------------------------------------------------------------------------
(* The value of a line, and back.                                            *)

Factor(unit) ==
    CASE unit = "d" -> 86400 [] unit = "h" -> 3600 [] unit = "m" -> 60 [] OTHER -> 1

(* A shorthand is turned into seconds, unless they overflow; seconds are     *)
(* printed.                                                                  *)
ParseTimeUnits(x) ==
    LET product == x[1] * Factor(x[2]) IN IF product > MaxTime THEN Malformed ELSE product
TimeText(n) == <<n, "">>

(* A number has no unit.                                                     *)
ParseNumber(x) == IF x[2] = "" THEN x[1] ELSE Malformed

(* Any number of "X-" marks an experimental type; one is printed.            *)
UnmarshalBandwidth(x) ==
    IF x = Malformed \/ (x.prefixes = 0 /\ x.type \notin {"CT", "AS"}) THEN Malformed
    ELSE [experimental |-> x.prefixes > 0, type |-> x.type]

(* Mutant: the type is printed without its prefix. *)
BandwidthTextPlain(b) == [prefixes |-> 0, type |-> b.type]

BandwidthText(b) == [prefixes |-> IF b.experimental THEN 1 ELSE 0, type |-> b.type]

(* The text up to the first colon is the key of an attribute.                *)
UnmarshalAttribute(x) ==
    [key |-> <<Head(x)>>, value |-> IF Len(x) > 1 THEN Tail(x) ELSE None]
AttributeText(a) == IF a.value = None THEN a.key ELSE a.key \o a.value

-----------------------------------------------------------------------------
(* The functions that take the value of a line of the session, ...           *)

UnmarshalProtocolVersion(d, x) == IF x = 0 THEN Lexer("s2", d) ELSE SyntaxError
UnmarshalOrigin(d, x) == Checked(x, Lexer("s3", [d EXCEPT !.origin = x]))
UnmarshalSessionName(d, x) == Lexer("s4", [d EXCEPT !.session_name = x])
UnmarshalSessionInformation(d, x) == Lexer("s7", [d EXCEPT !.session_information = x])
UnmarshalUri(d, x) == Checked(x, Lexer("s10", [d EXCEPT !.uri = x]))
UnmarshalEmail(d, x) == Lexer("s6", [d EXCEPT !.email_address = x])
UnmarshalPhone(d, x) == Lexer("s8", [d EXCEPT !.phone_number = x])

UnmarshalSessionConnectionInformation(d, x) ==
    Checked(x, Lexer("s5", [d EXCEPT !.connection_information = x]))

UnmarshalSessionBandwidth(d, x) ==
    LET b == UnmarshalBandwidth(x)
    IN Checked(b, Lexer("s5", [d EXCEPT !.bandwidth = Append(@, b)]))

UnmarshalTiming(d, x) ==
    Checked(x, Lexer("s9", [d EXCEPT !.time_descriptions =
                               Append(@, [timing |-> x, repeat_times |-> <<>>])]))

UnmarshalRepeatTimes(d, x) ==
    LET repeat == [i \in DOMAIN x |-> ParseTimeUnits(x[i])]
    IN IF Len(x) < 3 \/ Malformed \in Range(repeat) THEN SyntaxError
       ELSE Lexer("s9", [d EXCEPT !.time_descriptions[Len(d.time_descriptions)].repeat_times =
                            Append(@, repeat)])

(* Numbers and offsets alternate.                                            *)
UnmarshalTimeZones(d, x) ==
    LET zones == [i \in 1 .. Len(x) \div 2 |->
                     [adjustment_time |-> ParseNumber(x[2 * i - 1]),
                      offset |-> ParseTimeUnits(x[2 * i])]]
    IN IF \/ Len(x) % 2 # 0
          \/ \E z \in Range(zones) : Malformed \in {z.adjustment_time, z.offset}
       THEN SyntaxError
       ELSE Lexer("s13", [d EXCEPT !.time_zones = @ \o zones])

UnmarshalSessionEncryptionKey(d, x) == Lexer("s11", [d EXCEPT !.encryption_key = x])

UnmarshalSessionAttribute(d, x) ==
    Lexer("s11", [d EXCEPT !.attributes = Append(@, UnmarshalAttribute(x))])

UnmarshalMediaDescription(d, x) ==
    Checked(x, Lexer("s12", [d EXCEPT !.media_descriptions = Append(@,
        [media_name |-> x, media_title |-> None, connection_information |-> None,
         bandwidth |-> <<>>, encryption_key |-> None, attributes |-> <<>>])]))

SessionLine(key, d, x) ==
    CASE key = "v" -> UnmarshalProtocolVersion(d, x)
      [] key = "o" -> UnmarshalOrigin(d, x)
      [] key = "s" -> UnmarshalSessionName(d, x)
      [] key = "i" -> UnmarshalSessionInformation(d, x)
      [] key = "u" -> UnmarshalUri(d, x)
      [] key = "e" -> UnmarshalEmail(d, x)
      [] key = "p" -> UnmarshalPhone(d, x)
      [] key = "c" -> UnmarshalSessionConnectionInformation(d, x)
      [] key = "b" -> UnmarshalSessionBandwidth(d, x)
      [] key = "t" -> UnmarshalTiming(d, x)
      [] key = "r" -> UnmarshalRepeatTimes(d, x)
      [] key = "z" -> UnmarshalTimeZones(d, x)
      [] key = "k" -> UnmarshalSessionEncryptionKey(d, x)
      [] key = "a" -> UnmarshalSessionAttribute(d, x)
      [] key = "m" -> UnmarshalMediaDescription(d, x)

(* ... and of a line of the last media description.                          *)
UnmarshalMediaTitle(d, m, x) ==
    Lexer("s16", [d EXCEPT !.media_descriptions[m].media_title = x])

UnmarshalMediaConnectionInformation(d, m, x) ==
    Checked(x, Lexer("s15", [d EXCEPT !.media_descriptions[m].connection_information = x]))

UnmarshalMediaBandwidth(d, m, x) ==
    LET b == UnmarshalBandwidth(x)
    IN Checked(b, Lexer("s15", [d EXCEPT !.media_descriptions[m].bandwidth = Append(@, b)]))

UnmarshalMediaEncryptionKey(d, m, x) ==
    Lexer("s14", [d EXCEPT !.media_descriptions[m].encryption_key = x])

UnmarshalMediaAttribute(d, m, x) ==
    Lexer("s14", [d EXCEPT !.media_descriptions[m].attributes =
                     Append(@, UnmarshalAttribute(x))])

MediaLine(key, d, x) ==
    LET m == Len(d.media_descriptions)
    IN CASE key = "i" -> UnmarshalMediaTitle(d, m, x)
         [] key = "c" -> UnmarshalMediaConnectionInformation(d, m, x)
         [] key = "b" -> UnmarshalMediaBandwidth(d, m, x)
         [] key = "k" -> UnmarshalMediaEncryptionKey(d, m, x)
         [] key = "a" -> UnmarshalMediaAttribute(d, m, x)

(* One line: read_type, the state function, and the function of the line.    *)
ReadLine(lexer, line) ==
    IF line.key \notin Keys(lexer.state) THEN SyntaxError
    ELSE IF lexer.state \in InMedia /\ line.key # "m"
      THEN MediaLine(line.key, lexer.desc, line.value)
      ELSE SessionLine(line.key, lexer.desc, line.value)

(* SessionDescription::unmarshal.                                            *)
Unmarshal(text) ==
    LET Read[i \in 0 .. Len(text)] ==
            IF i = 0 THEN Lexer("s1", NoDescription) ELSE ReadLine(Read[i - 1], text[i])
    IN Read[Len(text)]
IsParsed(lexer) == lexer.state \in MayEnd

-----------------------------------------------------------------------------
(* SessionDescription::marshal.                                              *)

Line(key, value) == [key |-> key, value |-> value]

(* key_value_build: an absent value has no line.                             *)
KeyValueBuild(key, value) == IF value = None THEN <<>> ELSE <<Line(key, value)>>

(* One line for every element.                                               *)
BandwidthLines(seq) == [i \in DOMAIN seq |-> Line("b", BandwidthText(seq[i]))]
AttributeLines(seq) == [i \in DOMAIN seq |-> Line("a", AttributeText(seq[i]))]
RepeatLines(seq) ==
    [k \in DOMAIN seq |-> Line("r", [i \in DOMAIN seq[k] |-> TimeText(seq[k][i])])]

MarshalTime(t) == <<Line("t", t.timing)>> \o RepeatLines(t.repeat_times)

MarshalTimeZones(zones) ==
    IF zones = <<>> THEN <<>>
    ELSE <<Line("z", FlattenSeq([i \in DOMAIN zones |->
                        <<TimeText(zones[i].adjustment_time), TimeText(zones[i].offset)>>]))>>

MarshalMedia(m) ==
    <<Line("m", m.media_name)>>
    \o KeyValueBuild("i", m.media_title) \o KeyValueBuild("c", m.connection_information)
    \o BandwidthLines(m.bandwidth) \o KeyValueBuild("k", m.encryption_key)
    \o AttributeLines(m.attributes)

Marshal(d) ==
    <<Line("v", 0), Line("o", d.origin), Line("s", d.session_name)>>
    \o KeyValueBuild("i", d.session_information) \o KeyValueBuild("u", d.uri)
    \o KeyValueBuild("e", d.email_address) \o KeyValueBuild("p", d.phone_number)
    \o KeyValueBuild("c", d.connection_information)
    \o BandwidthLines(d.bandwidth)
    \o FlattenSeq([i \in DOMAIN d.time_descriptions |-> MarshalTime(d.time_descriptions[i])])
    \o MarshalTimeZones(d.time_zones) \o KeyValueBuild("k", d.encryption_key)
    \o AttributeLines(d.attributes)
    \o FlattenSeq([i \in DOMAIN d.media_descriptions |->
                      MarshalMedia(d.media_descriptions[i])])
=============================================================================
