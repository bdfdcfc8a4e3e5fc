------------------------------- MODULE MCWire -------------------------------
(***************************************************************************)
(* The messages of a small instance of Wire: one of every type, with       *)
(* missing, empty and singular fields, and the limits of an integer.       *)
(***************************************************************************)
EXTENDS Wire

F == <<70>>             \* a feed's name
T == <<195, 169>>       \* a topic's name, of two bytes
Id == [i \in 1..GuidBytes |-> 256 - i]
Packet(es, d) == [entitlements |-> es, data |-> d]

EveryType == {
    [type |-> 1, body |-> <<F, <<>>, Null, <<Packet({1, -1}, <<0>>), Packet(Null, Null)>>>>],
    [type |-> 2, body |-> <<Id, F, T, <<>>, <<>>>>],
    [type |-> 3, body |-> <<<<>>, F, Id, F, T, TRUE>>],
    [type |-> 4, body |-> <<F, FALSE>>],
    [type |-> 5, body |-> <<F, T, FALSE>>],
    [type |-> 6, body |-> <<Id, F, <<>>, F, T>>],
    [type |-> 7, body |-> <<Id, F, T, TRUE, {2147483647, -2147483647 - 1}>>],
    [type |-> 8, body |-> <<F, <<>>, F, T, <<>>, Null>>],
    [type |-> 9, body |-> <<<<>>, F, Id, F, <<>>, <<>>, <<Packet({}, <<1, 2>>)>>>>] }
=============================================================================
