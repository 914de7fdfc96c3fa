----------------------------- MODULE MCDataLoop -----------------------------
(* The server renegotiates LCP, answers the request that follows, and may    *)
(* terminate IPCP; the tables have one option each.                          *)
EXTENDS DataLoop

Opt(type, val) == [type |-> type, val |-> val]

MCOption == {Opt("Mru", "a"), Opt("Auth", "pap"), Opt("Addr", "ip")}

MCLcpDesired     == <<Opt("Mru", "a")>>
MCLcpAcceptable  == <<Opt("Auth", "pap")>>
MCLcpRequest     == <<Opt("Auth", "pap")>>
MCIpcpDesired    == <<Opt("Addr", "ip")>>
MCIpcpAcceptable == <<Opt("Addr", Wildcard)>>
MCIpcpRequest    == <<Opt("Addr", "ip")>>

Frames(code, areas) == [code : {code}, id : Ids, opts : areas]

\* The server renegotiates.
Renegotiation == Frames("ConfReq", {<<Opt("Auth", "pap")>>})
                 \cup Frames("ConfAck", {<<Opt("Mru", "a")>>})

\* Or sends what cannot be parsed.
MCLcpFrames == Renegotiation \cup Frames("ConfRej", {Malformed})

MCIpcpFrames == Frames("TermReq", {<<>>})

NoFrames == {}
=============================================================================
