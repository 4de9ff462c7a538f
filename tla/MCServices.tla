----------------------------- MODULE MCServices -----------------------------
(* A TLC instance of Services: one run for all nine, because each is small. *)
EXTENDS Services

PortsOfs == [s1 |-> {1}, s2 |-> {1, 2}]
Selected == {{"metamod", "sharp"}, {"css", "swiftlys2"}}
FolderOfs == [d1 |-> "crash1", d2 |-> "crash1", d3 |-> "root"]
=============================================================================
