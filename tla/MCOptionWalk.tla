---------------------------- MODULE MCOptionWalk ----------------------------
(* Options: two types with alternatives, one wildcard, one type the table    *)
(* lacks; the desired options repeat a type; every list of up to three.      *)
(* Areas: every one up to MaxLen bytes.                                      *)
EXTENDS OptionWalk, OptionParse

Opt(type, val) == [type |-> type, val |-> val]

MCOption == {Opt("Auth", v) : v \in {"pap", "chap", "eap"}}
            \cup {Opt("Mru", v) : v \in {"a", "b"}}
            \cup {Opt("Acc", "x"), Opt("Pfc", "on")}

MCWanted   == <<Opt("Mru", "a"), Opt("Auth", "pap"), Opt("Mru", "a")>>
MCTable    == <<Opt("Auth", "pap"), Opt("Mru", "b"), Opt("Acc", Wildcard),
                Opt("Auth", "chap")>>
MCDemanded == <<Opt("Mru", "a")>>

\* What the peer names; the table offers two options more.
Named   == MCOption \ {Opt("Auth", "chap"), Opt("Mru", "b")}
MCLists == UNION {[1 .. n -> Named] : n \in 0 .. 3}

\* The two share no state: any area is parsed, and frames come after one of them.
MCNext == \/ ParseNext /\ UNCHANGED walkVars
          \/ area = <<>> /\ outcome = "parsed" /\ WalkNext /\ UNCHANGED parseVars

MCInit == ParseInit /\ WalkInit

MCSpec == MCInit /\ [][MCNext]_<<walkVars, parseVars>>
=============================================================================
