----------------------------- MODULE OptionParse -----------------------------
(***************************************************************************)
(* parse_options (ppp_control.rs), one round of its loop at a time, over    *)
(* any bytes; and the bytes of an option, PppControlOption::to_bytes.       *)
(* PppFsm takes the outcome for granted: a sequence of options, or          *)
(* Malformed.                                                               *)
(***************************************************************************)
EXTENDS Wire

CONSTANT MaxLen     \* length of an option area, at most

ASSUME AreaAssumption == MaxLen \in Nat

Areas == UNION {[1 .. n -> Byte] : n \in 0 .. MaxLen}

VARIABLES
    area,           \* the bytes of the option area
    pos, options,   \* the bytes walked, the options found in them
    outcome         \* of the walk

parseVars == <<area, pos, options, outcome>>

ParseInit == area \in Areas /\ pos = 0 /\ options = <<>> /\ outcome = "walking"

Outcome(result) == outcome' = result /\ UNCHANGED <<area, pos, options>>

\* The length of the option at pos, its header of two bytes included.
length == area[pos + 2]

\* Mutant: a length is not compared with the whole header it includes.
WholeOption_Short == pos + 2 <= Len(area) /\ length >= 1 /\ pos + length <= Len(area)

\* The option at pos has its header, and the data its length promises.
WholeOption == pos + 2 <= Len(area) /\ length >= 2 /\ pos + length <= Len(area)

Push == /\ outcome = "walking" /\ pos < Len(area) /\ WholeOption
        /\ options' = Append(options, [type |-> area[pos + 1],
                                       data |-> SubSeq(area, pos + 3, pos + length)])
        /\ pos' = pos + length
        /\ UNCHANGED <<area, outcome>>

Bail == outcome = "walking" /\ pos < Len(area) /\ ~ WholeOption /\ Outcome("refused")

Return == outcome = "walking" /\ pos = Len(area) /\ Outcome("parsed")

ParseNext == Push \/ Bail \/ Return

ParseSpec == ParseInit /\ [][ParseNext]_parseVars

-----------------------------------------------------------------------------
\* PppControlOption::to_bytes; the length is a u8.
to_bytes(option) == <<option.type, (2 + Len(option.data)) % Base>> \o option.data

ParseTypeOK ==
    /\ area \in Areas /\ pos \in 0 .. Len(area)
    /\ options \in Seq([type : Byte, data : Seq(Byte)])
    /\ outcome \in {"walking", "parsed", "refused"}

\* cut divides the area into n parts, each as long as its second byte says.
Divides(cut, n) ==
    /\ cut[0] = 0 /\ cut[n] = Len(area)
    /\ \A k \in 1 .. n : /\ cut[k - 1] + 2 <= cut[k]
                         /\ area[cut[k - 1] + 2] = cut[k] - cut[k - 1]

\* Whatever bytes arrive, an area is refused only if it is no sequence of whole
\* options, and what was parsed, written again, is that area: no length loses,
\* adds or repeats a byte (parse_options and PppControlOption::to_bytes).
ParsedAsWritten ==
    /\ outcome = "parsed" =>
        \E cut \in [0 .. Len(options) -> 0 .. Len(area)] :
            /\ Divides(cut, Len(options))
            /\ \A k \in 1 .. Len(options) :
                    to_bytes(options[k]) = SubSeq(area, cut[k - 1] + 1, cut[k])
    /\ outcome = "refused" =>
        \A n \in 0 .. Len(area) : \A cut \in [0 .. n -> 0 .. Len(area)] : ~ Divides(cut, n)
=============================================================================
