------------------------------ MODULE MCDevices ------------------------------
(* Two objects of every kind that share something. *)
EXTENDS Devices, TLC

CONSTANTS o1, o2

TwoObjects == {o1, o2}

Pairs == {<<"spi", "spi">>, <<"flash", "flash">>, <<"spi", "flash">>, <<"uart", "flash">>, <<"net", "spi">>,
          <<"uart", "uart">>, <<"uart", "net">>, <<"net", "net">>, <<"net1", "net1">>,
          <<"osd", "osd">>}

TwoCasts == {(o1 :> p[1]) @@ (o2 :> p[2]) : p \in Pairs}
            \cup {(o1 :> p[2]) @@ (o2 :> p[1]) : p \in Pairs}

Symmetry == Permutations(TwoObjects)

\* Rates 1 and 2: a slow and a fast clock, 8 and 16 bits.
OneSpiCalls == [op : {"open"}, bits : {{}, {"cpha"}, {"lsb"}, {"cpha", "low", "high"}}, rate : {1}]
               \cup [op : {"setMode"}, bits : {{}, {"cpha"}}, rate : {0}]
               \cup [op : {"setOrder"}, bits : {{}, {"lsb"}}, rate : {0}]
               \cup [op : {"setFlags"}, bits : {{}, {"low"}}, rate : {0}]
               \cup [op : {"setFlags32"}, bits : {{"high"}}, rate : {0}]
               \cup [op : {"setSpeed", "setBits"}, bits : {{}}, rate : {2}]
               \cup [op : {"get", "transfer"}, bits : {{}}, rate : {0}]
=============================================================================
