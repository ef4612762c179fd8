------------------------------ MODULE Sentences ------------------------------
(***************************************************************************)
(* NMEA 0183 sentences (NMEA0183Encoder, NMEA0183N2KMessages and the end of*)
(* Performance::update()).  A sentence is built in one buffer, field by    *)
(* field; a field has one or two columns, and is empty when its value is   *)
(* not available.                                                          *)
(*                                                                         *)
(* A number is as wide as the widest the NMEA 2000 field it comes from can *)
(* make it; an angle is a whole number of degrees.  When a sentence may be *)
(* sent is the business of SentenceRoute.                                  *)
(***************************************************************************)
EXTENDS Integers, Sequences

CONSTANTS
  Bearings,   \* degrees: headings and courses, and those with the variation added
  Relatives   \* degrees: what the bus says of wind, variation, deviation, roll and rudder

\* A heading or course is a circle at most, half as much again with the variation; the bus has
\* an angle from -180 or from 0.
ASSUME SentencesAssumption == Bearings \subseteq -180 .. 540 /\ Relatives \subseteq -180 .. 360

VARIABLES
  name, todo,   \* the sentence being built and the fields it still needs
  columns,      \* what has been appended, each "x" for digits, "empty", "side" for the letter
                \* of the right side, or the text itself
  angles,       \* the angles among them
  p, cut        \* NMEA0183Encoder::p; history: text was cut off

sentenceVars == <<name, todo, columns, angles, p, cut>>

\* Mutant of OUTBUF_LEN: the 82 characters NMEA 0183 allows a sentence.
OUTBUF_LENStandard == 82
OUTBUF_LEN == 255
INBUF_LEN  == 20
NumberWidth == 14   \* -1e9 degrees Celsius, or an altitude of 8 bytes

----------------------------------------------------------------------------
(* The sentences. *)

sendHDG == <<"bearing", "relativeEW", "relativeEW">>
sendHDM == <<"bearing", "M">>
sendHDT == <<"bearing", "T">>
sendXDR_roll == <<"A", "signed", "D", "ROLL">>
sendVHW == <<"bearing", "T", "bearing", "M", "number", "N", "number", "K">>
sendDBT == <<"number", "f", "number", "M", "number", "F">>
sendDPT == <<"number", "number">>
sendVLW == <<"number", "N", "number", "N">>
sendGGA == <<"time", "latitude", "longitude", "count", "count", "number", "number", "M",
             "number", "M", "empty", "empty">>
sendGLL == <<"latitude", "longitude", "time", "A", "A">>
sendZDA == <<"time", "dmy", "0", "0">>
sendRMC ==
  <<"time", "A", "latitude", "longitude", "number", "bearing", "date", "relativeEW", "A">>
sendVTG == <<"bearing", "T", "bearing", "M", "number", "N", "number", "K", "A">>
sendXTE == <<"A", "A", "number", "side", "N", "A">>
sendVWR == <<"relativeRL", "number", "N", "number", "M", "number", "K">>
sendMVR == <<"signed", "R", "number", "N", "A">>
sendVWT == <<"relativeRL", "number", "N", "number", "M", "number", "K">>
sendMVT == <<"signed", "T", "number", "N", "A">>
sendMTW == <<"number", "C">>
sendXDR_airtemp == <<"C", "number", "C", "TempAir">>
sendMTA == <<"number", "C">>
sendXDR_barometer == <<"P", "number", "B", "Barometer">>
sendRSA == <<"signed", "A", "empty", "empty">>
KEP01 == <<"01", "number", "N", "number", "K">>
KEP02 == <<"02", "signed">>
KEP03 == <<"03", "signed", "number", "number">>
KEP99 == <<"99", "signed", "number", "signed", "number", "number", "number", "number">>

Sentence ==
  [HDG |-> sendHDG, HDM |-> sendHDM, HDT |-> sendHDT, XDR |-> sendXDR_roll, VHW |-> sendVHW,
   DBT |-> sendDBT, DPT |-> sendDPT, VLW |-> sendVLW, GGA |-> sendGGA, GLL |-> sendGLL,
   ZDA |-> sendZDA, RMC |-> sendRMC, VTG |-> sendVTG, XTE |-> sendXTE, VWR |-> sendVWR,
   MWR |-> sendMVR, VWT |-> sendVWT, MWV |-> sendMVT, MTW |-> sendMTW, AIR |-> sendXDR_airtemp,
   MTA |-> sendMTA, BAR |-> sendXDR_barometer, RSA |-> sendRSA,
   P01 |-> KEP01, P02 |-> KEP02, P03 |-> KEP03, P99 |-> KEP99]

----------------------------------------------------------------------------
(* The encoder. *)

\* start(): the talker and the key, "$IIHDG"
Start(key) ==
  /\ name = "none"
  /\ name' = key
  /\ todo' = Sentence[key]
  /\ p' = 6
  /\ UNCHANGED <<columns, angles, cut>>

\* append(const char *): the comma always, the text while there is room.
AppendText(position, width) ==
  IF position + 1 + width <= OUTBUF_LEN - 5 THEN position + 1 + width
  ELSE IF position + 1 <= OUTBUF_LEN - 5 THEN OUTBUF_LEN - 5
  ELSE position + 1

\* The texts, where they end and where they would if the buffer had no end
Appended(texts, end, whole) ==
  /\ columns' = columns \o texts
  /\ p' = end
  /\ cut' = (cut \/ end # whole)
  /\ todo' = Tail(todo)
  /\ UNCHANGED name

AppendOne(text, width) == Appended(<<text>>, AppendText(p, width), p + 1 + width)
AppendTwo(one, width, two, widthTwo) ==
  Appended(<<one, two>>, AppendText(AppendText(p, width), widthTwo), p + 2 + width + widthTwo)

\* append(value, factor, fixed) and append of a count, which String() may leave empty
AppendNumber ==
  /\ Head(todo) \in {"number", "count"}
  /\ AppendOne("empty", 0) \/ AppendOne("x", NumberWidth)
  /\ UNCHANGED angles

Circle == 360

\* appendBearing()
Bearing(a) == IF a < 0 THEN a + Circle ELSE IF a > Circle THEN a - Circle ELSE a

\* Mutant of Signed: what is on the port side is left as it is.
SignedStarboard(a) == a
\* appendRelativeSignedAngle(), and the angle before its sign goes in appendRelativeAngle()
Signed(a) == IF 2 * a > Circle THEN a - Circle ELSE a

Magnitude(a) == IF a < 0 THEN -a ELSE a

Angle(kind, given, shown) ==
  angles' = Append(angles, [kind |-> kind, given |-> given, shown |-> shown])

AppendBearing ==
  /\ Head(todo) = "bearing"
  /\ \/ AppendOne("empty", 0) /\ UNCHANGED angles
     \/ \E a \in Bearings : AppendOne("x", 5) /\ Angle("bearing", a, Bearing(a))

\* Mutant of RelativeNA: one column for an angle there is none of.
RelativeNAOne == AppendOne("empty", 0)
RelativeNA == AppendTwo("empty", 0, "empty", 0)

\* appendRelativeAngle(): both branches append pos, neither of them neg
AppendRelative(pos, neg) ==
  \/ RelativeNA /\ UNCHANGED angles
  \/ \E a \in Relatives :
       /\ AppendTwo("x", 5, pos, 1)
       /\ Angle("relative", a, Magnitude(Signed(a)))

AppendSide ==
  \/ Head(todo) = "relativeEW" /\ AppendRelative("E", "W")
  \/ Head(todo) = "relativeRL" /\ AppendRelative("R", "L")

AppendSigned ==
  /\ Head(todo) = "signed"
  /\ \/ AppendOne("empty", 0) /\ UNCHANGED angles
     \/ \E a \in Relatives : AppendOne("x", 6) /\ Angle("signed", a, Signed(a))

\* appendTimeUTC() and appendDate(), as wide as snprintf() lets them be
AppendTime ==
  /\ Head(todo) \in {"time", "date"}
  /\ AppendOne("x", INBUF_LEN - 1)
  /\ UNCHANGED angles

\* appendLatitude() and appendLongitude()
AppendPosition ==
  /\ Head(todo) \in {"latitude", "longitude"}
  /\ AppendTwo("x", INBUF_LEN - 1, "side", 1)
  /\ UNCHANGED angles

\* appendDMY(): one text of ten characters that has two commas of its own
AppendDMY ==
  /\ Head(todo) = "dmy"
  /\ Appended(<<"x", "x", "x">>, AppendText(p, 10), p + 1 + 10)
  /\ UNCHANGED angles

FieldKinds == {"number", "count", "bearing", "relativeEW", "relativeRL", "signed", "time", "date",
               "latitude", "longitude", "dmy"}

\* A word of at most nine letters.
AppendWord == Head(todo) \notin FieldKinds /\ AppendOne(Head(todo), 9) /\ UNCHANGED angles

SentenceStep ==
  \/ \E key \in DOMAIN Sentence : Start(key)
  \/ /\ todo # <<>>
     /\ \/ AppendNumber \/ AppendBearing \/ AppendSide \/ AppendSigned
        \/ AppendTime \/ AppendPosition \/ AppendDMY \/ AppendWord

\* end() puts four characters at p, which it first takes back to where they fit.
EndOf(position) == (IF position > OUTBUF_LEN - 4 THEN OUTBUF_LEN - 4 ELSE position) + 4

SentenceInit ==
  /\ name = "none" /\ todo = <<>>
  /\ columns = <<>> /\ angles = <<>>
  /\ p = 0 /\ cut = FALSE

----------------------------------------------------------------------------
(* Properties. *)

\* The columns NMEA0183N2KMessages.cpp documents; "free" is one it leaves so.
Documented ==
  [HDG |-> <<"x", "free", "free", "free", "free">>, HDM |-> <<"x", "M">>, HDT |-> <<"x", "T">>,
   VHW |-> <<"x", "T", "x", "M", "x", "N", "x", "K">>, VLW |-> <<"x", "N", "x", "N">>,
   GLL |-> <<"x", "side", "x", "side", "x", "A", "A">>,
   ZDA |-> <<"x", "x", "x", "x", "free", "free">>,
   RMC |-> <<"x", "A", "x", "side", "x", "side", "x", "x", "x", "x", "side", "A">>,
   VTG |-> <<"x", "T", "x", "M", "x", "N", "x", "K", "A">>,
   XTE |-> <<"A", "A", "x", "side", "N", "A">>,
   VWR |-> <<"x", "side", "x", "N", "x", "M", "x", "K">>,
   VWT |-> <<"x", "side", "x", "N", "x", "M", "x", "K">>,
   MWR |-> <<"x", "R", "x", "N", "A">>, MWV |-> <<"x", "T", "x", "N", "A">>]

Letters == {"side", "E", "W", "R", "L"}
InColumn(documented, text) ==
  CASE documented = "free" -> TRUE
    [] documented = "x"    -> text \in {"x", "empty"}
    [] documented = "side" -> text \in Letters \cup {"empty"}
    [] OTHER               -> text = documented

\* Whichever values are missing, every unit, letter and number of a sentence is in
\* the column its documentation gives it, and there are neither more nor fewer.  A
\* column for a side has some letter of one.  Of a relative angle that is always R, also of
\* one to port, although NMEA0183N2KMessages.cpp:335 and :369 have "L=port, R=starboard".
ColumnsAsDocumented ==
  name \in DOMAIN Documented =>
    LET layout == Documented[name]
    IN
    /\ Len(columns) <= Len(layout)
    /\ todo = <<>> => Len(columns) = Len(layout)
    /\ \A i \in DOMAIN columns : InColumn(layout[i], columns[i])

AngleKept(angle) ==
  LET Same(a) == (a - angle.given) % Circle = 0
  IN  CASE angle.kind = "bearing"  -> angle.shown \in 0 .. Circle /\ Same(angle.shown)
        [] angle.kind = "signed"   -> 2 * angle.shown \in -Circle .. Circle /\ Same(angle.shown)
        [] angle.kind = "relative" -> /\ 2 * angle.shown \in 0 .. Circle
                                      /\ Same(angle.shown) \/ Same(-angle.shown)

\* An angle is shown in the range of its kind and points where the value did, even
\* if the variation has taken it beyond the circle; a relative one, which has no sign,
\* on one side or the other.
AnglesKept == \A i \in DOMAIN angles : AngleKept(angles[i])

\* With the widest values there are, no sentence loses text or leaves the buffer.
SentenceWhole == ~cut /\ EndOf(p) <= OUTBUF_LEN

\* Each value of a sentence is in its column and each angle in the range of its kind.
\* That is not always what is said of the sentence: MWV has a signed angle, negative to port,
\* although NMEA0183N2KMessages.cpp:391 has "0 to 359 degrees".
SentencesReadable == ColumnsAsDocumented /\ AnglesKept
=============================================================================
