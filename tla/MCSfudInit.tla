----------------------------- MODULE MCSfudInit -----------------------------
(***************************************************************************)
(* Instances of SfudInit for TLC: chips with and without tables of their   *)
(* own, good and bad ones.  Sizes are scaled: 16 stands for 16 MB.         *)
(***************************************************************************)
EXTENDS SfudInit

Header == [major |-> 1, basicMajor |-> 1, len |-> 9, erase4k |-> 1, gran |-> 1,
           addressing |-> 0, density |-> [large |-> FALSE, value |-> 127],
           types |-> <<<<2, 32>>, <<3, 82>>, <<4, 216>>, <<0, 255>>>>]

Chip(id, sfdp, valid) ==
    [id |-> id, sfdp |-> sfdp, valid |-> valid, capacity |-> 16, write_mode |-> {"page"},
     erasers |-> {<<4, 32>>, <<8, 82>>, <<16, 216>>}, protected |-> FALSE,
     keepsArmed |-> TRUE]

W25Q128BV == Chip(<<239, 64, 24>>, <<Header>>, TRUE)

\* Above 16 MB, and above 2 Gbit; the erase types in any order.
W25Q256FV == [Chip(<<239, 64, 25>>,
                   <<[Header EXCEPT !.addressing = 1, !.density.value = 255, !.erase4k = 3,
                                    !.types = <<<<4, 216>>, <<0, 0>>, <<3, 82>>, <<2, 32>>>>]>>,
                   TRUE) EXCEPT !.capacity = 32]
TwoGbit == [Chip(<<239, 64, 26>>,
                 <<[Header EXCEPT !.addressing = 2, !.density = [large |-> TRUE, value |-> 9]]>>,
                 TRUE) EXCEPT !.capacity = 64, !.keepsArmed = FALSE]

\* Without tables: known to the static table, or to nobody.
SST25VF016B == [Chip(<<191, 37, 65>>, <<>>, FALSE)
                EXCEPT !.capacity = 4, !.write_mode = {"byte", "aai"},
                       !.erasers = {<<4, 32>>}, !.protected = TRUE]
AT45DB161E == [Chip(<<31, 38, 0>>, <<>>, FALSE)
               EXCEPT !.capacity = 4, !.write_mode = {"byte", "dual"},
                      !.erasers = {<<1, 129>>}, !.keepsArmed = FALSE]
Unknown == Chip(<<1, 2, 3>>, <<>>, FALSE)

\* Tables the driver does not take, of a chip the static table knows.
Bad(h) == Chip(<<239, 64, 23>>, <<h>>, FALSE)
BadChips == {Bad([Header EXCEPT !.major = 2]), Bad([Header EXCEPT !.basicMajor = 2]),
             Bad([Header EXCEPT !.len = 8]), Bad([Header EXCEPT !.erase4k = 0]),
             Bad([Header EXCEPT !.addressing = 3]),
             Bad([Header EXCEPT !.density = [large |-> TRUE, value |-> Width + 4]])}

\* No erase type in the tables: nothing to erase with.
NoErasers == Chip(<<1, 2, 4>>, <<[Header EXCEPT !.types = [i \in 1 .. 4 |-> <<0, 0>>]]>>, FALSE)

\* All blocks protected at first, and the protection is not volatile.
MX25 == [Chip(MX25L3206E, <<[Header EXCEPT !.density.value = 31]>>, TRUE)
         EXCEPT !.capacity = 4, !.protected = TRUE]

Entry(c, small) == [capacity |-> c.capacity, write_mode |-> c.write_mode,
                    erase_gran |-> small[1], erase_gran_cmd |-> small[2]]

KnownIds == {W25Q128BV.id, W25Q256FV.id, SST25VF016B.id, AT45DB161E.id, Bad(Header).id}

KnownChips == [i \in KnownIds |->
    CASE i = SST25VF016B.id -> Entry(SST25VF016B, <<4, 32>>)
      [] i = AT45DB161E.id -> Entry(AT45DB161E, <<1, 129>>)
      [] i = W25Q256FV.id -> Entry(W25Q256FV, <<4, 32>>)
      [] OTHER -> Entry(W25Q128BV, <<4, 32>>)]

All == BadChips \cup {W25Q128BV, W25Q256FV, TwoGbit, SST25VF016B, AT45DB161E,
                    Unknown, NoErasers, MX25}
=============================================================================
