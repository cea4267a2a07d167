---------------------------- MODULE MCPcapMerge ----------------------------
(* Files in both byte orders and of both formats; blocks with and without  *)
(* an interface, with padding, and with data that looks like a header.     *)
EXTENDS PcapMerge

Section(o) == [type |-> "section", order |-> o]
SomeFirst ==
  {Section("le"), Section("be"),
   [type |-> "classic", order |-> "be", unit |-> "micro", snap |-> 9, link |-> 101],
   [type |-> "classic", order |-> "le", unit |-> "nano", snap |-> 9, link |-> 1]}
SomeBlocks ==
  {Section("le"),
   [type |-> "interface", link |-> 101, resol |-> <<2>>], [type |-> "interface", link |-> 113, resol |-> <<>>],
   [type |-> "enhanced", iface |-> 0, ticks |-> 7, data |-> <<6, 90>>, orig |-> 4],
   [type |-> "enhanced", iface |-> 1, ticks |-> 2, data |-> <<7>>, orig |-> 1],
   [type |-> "simple", data |-> <<8, 8>>, orig |-> 2],
   [type |-> "secrets", data |-> <<6, 8, 90>>],
   [type |-> "record", sec |-> 1, frac |-> 2, data |-> <<7, 8>>, orig |-> 3],
   [type |-> "record", sec |-> 2, frac |-> 0, data |-> <<>>, orig |-> 0]}
=============================================================================
