----------------------------- MODULE MCFraming -----------------------------
(* Bytes have four values, so that a length needs both of its bytes.          *)
EXTENDS Framing

MCMessage ==
    [kind : {"sstp"}, command : {CLOSE, REPLY}]
    \cup [kind : {"ip"}, protocol : {1}, information : {<<>>, <<0, 2>>}]
    \cup [kind : {"control"}, frame : [code : {1}, identifier : {2}, data : {<<>>, <<3>>}]]

MCPadding == {<<>>, <<0>>}
=============================================================================
