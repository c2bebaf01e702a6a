------------------------------ MODULE OidText ------------------------------
(***************************************************************************)
(* Object identifiers as text (codec/oid.rs): what from_str reads and what *)
(* Display shows.  A text is a sequence of characters: the digits 0 to 9   *)
(* and the three below.  The application hands a text to the parser, or    *)
(* the arcs of an OID to try_from and the OID to Display.                  *)
(***************************************************************************)
EXTENDS Ber

CONSTANTS
    Characters,   \* characters an application writes
    MaxText,      \* bound: characters of a text it writes
    Components    \* sequences of arcs it makes OIDs of

Dot == 10
Plus == 11
Letter == 12      \* any other character

ASSUME TextAssumption ==
    /\ Characters \subseteq 0..Letter
    /\ Components \subseteq Seq(0..(Word - 1))

VARIABLES
    text,   \* the text
    shown   \* the arcs it shows, or Typed

textVars == <<text, shown>>

Typed == <<-1>>

\* An error and its OidErrorCategory.
Refused(category) == [ok |-> FALSE, category |-> category]

-----------------------------------------------------------------------------
\* validate_oid_components; Oid::try_from, and from_slice, which panics where
\* try_from returns the error
TryFrom(arcs) ==
    IF Len(arcs) < 2 THEN Refused("TooFewComponents")
    ELSE IF arcs[1] > 2 THEN Refused("InvalidFirstArc")
    ELSE IF arcs[1] <= 1 /\ arcs[2] > 39 THEN Refused("InvalidSecondArc")
    ELSE IF Len(arcs) > MAX_OID_SUB_IDENTIFIERS THEN Refused("TooManySubIdentifiers")
    ELSE Ok(arcs)

\* split('.'): a dot begins a part, any other character belongs to the last.
Split(parts, c) ==
    IF c = Dot THEN Append(parts, <<>>) ELSE [parts EXCEPT ![Len(parts)] = Append(@, c)]
Parts(s) ==
    LET parts[n \in 0..Len(s)] == IF n = 0 THEN << <<>> >> ELSE Split(parts[n - 1], s[n])
    IN  parts[Len(s)]

Decimal(digits) ==
    LET value[n \in 0..Len(digits)] == IF n = 0 THEN 0 ELSE value[n - 1] * 10 + digits[n]
    IN  value[Len(digits)]

\* str::parse::<u32>: digits, perhaps behind one plus sign.
ParseU32(part) ==
    LET digits == IF part # <<>> /\ part[1] = Plus THEN Tail(part) ELSE part
    IN  IF digits = <<>> \/ \E i \in DOMAIN digits : digits[i] > 9 THEN Error
        ELSE IF Decimal(digits) >= Word THEN Error
        ELSE Ok(Decimal(digits))

\* Faulty variant: leading zeros pass.
ParseComponent_AnyZeros(part) ==
    IF ParseU32(part).ok THEN ParseU32(part) ELSE Refused("InvalidComponent")

\* The number first, then the leading zero: the closure in from_str.
ParseComponent(part) ==
    IF ~ParseU32(part).ok THEN Refused("InvalidComponent")
    ELSE IF Len(part) > 1 /\ part[1] = 0 THEN Refused("LeadingZero")
    ELSE ParseU32(part)

\* collect::<Result<Vec<u32>, _>>()?: the first error, or the validated arcs.
Collect(components) ==
    LET failed == {i \in DOMAIN components : ~components[i].ok}
    IN  IF failed # {} THEN components[CHOOSE i \in failed : \A j \in failed : i <= j]
        ELSE TryFrom([i \in DOMAIN components |-> components[i].value])

FromStr(s) ==
    IF s = <<>> THEN Refused("EmptyString")
    ELSE IF s[1] = Dot THEN Refused("LeadingDot")
    ELSE IF s[Len(s)] = Dot THEN Refused("TrailingDot")
    ELSE IF \E i \in 1..(Len(s) - 1) : s[i] = Dot /\ s[i + 1] = Dot THEN Refused("ConsecutiveDots")
    ELSE Collect([i \in DOMAIN Parts(s) |-> ParseComponent(Parts(s)[i])])

Digits(n) ==
    LET digits[m \in 0..n] == IF m < 10 THEN <<m>> ELSE Append(digits[m \div 10], m % 10)
    IN  digits[n]

\* Display
Display(arcs) ==
    IF arcs = <<>> THEN <<>>
    ELSE Digits(arcs[1]) \o FlattenSeq([i \in 1..(Len(arcs) - 1) |-> <<Dot>> \o Digits(arcs[i + 1])])

-----------------------------------------------------------------------------
TextInit == text = <<>> /\ shown = Typed

Types(c) ==
    /\ shown = Typed /\ Len(text) < MaxText
    /\ text' = Append(text, c)
    /\ UNCHANGED shown

Shows(arcs) ==
    /\ shown = Typed /\ text = <<>>
    /\ text' = Display(arcs)
    /\ shown' = arcs

TextNext ==
    \/ \E c \in Characters : Types(c)
    \/ \E arcs \in Components : Shows(arcs)

TextSpec == TextInit /\ [][TextNext]_textVars

-----------------------------------------------------------------------------
(* Properties *)

\* A component without what the parser of integers overlooks: a plus sign, and
\* the zeros it hides from the check for leading zeros.
Plain(part) ==
    IF part[1] = Plus THEN From(Tail(part), LeadingCount(Tail(part), 0) + 1) ELSE part

\* Text and OID stand for each other.  The text Display gives is read back as
\* the OID, and text with arcs an OID cannot have is refused for the reason
\* try_from gives; and whatever text is accepted is the one Display gives for
\* the result, plus signs aside, so no OID has two spellings by zeros, signs,
\* dots or overflow (from_str, Display, validate_oid_components).
OidTextsExact ==
    LET r == FromStr(text)
    IN  /\ shown # Typed =>
               IF text = <<>> THEN ~r.ok ELSE r = TryFrom(shown)
        /\ r.ok => [i \in DOMAIN Parts(text) |-> Plain(Parts(text)[i])]
                       = [i \in DOMAIN r.value |-> Digits(r.value[i])]
=============================================================================
