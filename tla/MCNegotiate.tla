---------------------------- MODULE MCNegotiate ----------------------------
(* One option per table; the server asks for PAP or for nothing, assigns an  *)
(* address or acknowledges without one, terminates either automaton, and     *)
(* sends answers that do not parse.                                          *)
EXTENDS Negotiate

Opt(type, val) == [type |-> type, val |-> val]

MCOption == {Opt("Mru", "a"), Opt("Auth", "pap"), Opt("Addr", "zero"), Opt("Addr", "ip")}

MCLcpDesired     == <<Opt("Mru", "a")>>
MCLcpAcceptable  == <<Opt("Auth", "pap")>>
MCIpcpDesired    == <<Opt("Addr", "zero")>>
MCIpcpAcceptable == <<Opt("Addr", Wildcard)>>

\* Answers to our requests; what the server sends of its own, whose identifier is
\* only copied into the reply.
Frames(code, areas) == [code : {code}, id : Ids, opts : areas]
Own(code, areas)    == [code : {code}, id : {0}, opts : areas]

MCLcpFrames ==
    Own("ConfReq", {<<Opt("Auth", "pap")>>, <<>>})
    \cup Frames("ConfAck", {<<Opt("Mru", "a")>>})
    \cup Frames("ConfRej", {Malformed})
    \cup Own("TermReq", {<<>>})

MCIpcpFrames ==
    Own("ConfReq", {<<Opt("Addr", "ip")>>})
    \cup Frames("ConfAck", {<<Opt("Addr", "ip")>>, <<>>})
    \cup Frames("ConfNak", {<<Opt("Addr", "ip")>>, Malformed})
    \cup Own("TermReq", {<<>>})
=============================================================================
