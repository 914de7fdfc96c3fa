---------------------------- MODULE MCFsmEndpoint ----------------------------
(* A small LCP automaton: one desired option, a wildcard entry, and two      *)
(* entries of one type that can be offered as alternatives.                  *)
EXTENDS FsmEndpoint

Opt(type, val) == [type |-> type, val |-> val]

MCOption == {Opt("Mru", "a"), Opt("Mru", "b"), Opt("Auth", "pap"),
             Opt("Auth", "chap"), Opt("Auth", "eap"), Opt("Pfc", "on")}

MCDesired    == <<Opt("Mru", "a")>>
MCAcceptable == <<Opt("Mru", Wildcard), Opt("Auth", "pap"), Opt("Auth", "chap")>>

\* Acceptable, to be countered, to be refused, unknown, not parsable.
MCPeerAreas == {<<Opt("Mru", "b")>>,
                <<Opt("Mru", "a"), Opt("Auth", "chap")>>,
                <<Opt("Auth", "eap")>>,
                <<Opt("Pfc", "on")>>,
                Malformed}
=============================================================================
