---------------------------- MODULE MCDhcpMessage ----------------------------
(* DhcpMessage with requests of up to three option fields: one or two of      *)
(* each kind of payload, inside and outside what RFC 2132 allows.             *)
EXTENDS DhcpMessage

F(code, payload, sound) == [code |-> code, payload |-> payload, sound |-> sound]

MCFields == {
    F(Pad, << >>, TRUE), F(End, << >>, TRUE),
    F(53, <<1>>, TRUE), F(53, <<3>>, TRUE), F(53, <<7>>, TRUE), F(53, <<9>>, FALSE),
    F(57, <<2, 64>>, TRUE), F(57, <<2, 63>>, FALSE),
    F(3, <<10, 0, 0, 1, 10, 0, 0, 2>>, TRUE), F(3, <<10, 0, 0, 1, 53>>, FALSE),
    F(12, <<107, 255>>, TRUE), F(61, <<1>>, FALSE), F(77, <<1>>, FALSE)}

\* Every description is used: each code has one type, and a positive element size.
ASSUME DescriptionsAgree ==
    /\ \A s, t \in DOMAIN PayloadTypes : s # t => PayloadTypes[s] \cap PayloadTypes[t] = {}
    /\ \A code \in Codes \ VariableLength : FixedLength(code) \in 1 .. 4
    /\ DOMAIN Allowed \cap VariableLength = {}
=============================================================================
