--------------------------- MODULE MCTopoParameter ---------------------------
(***************************************************************************)
(* A few keys and values for TopoParameter: three links, two of them with  *)
(* the same identifier, and changes of them, with two ways to write the    *)
(* key of the first link and of a change of it (netemAt_c2r_0 and          *)
(* netemAt_c2r_00, both of which int() reads as 0).  Loading ends, so that *)
(* states without a successor are expected.                                *)
(***************************************************************************)
EXTENDS TopoParameter

MCSortedKeys ==
    <<"changeNetem", "netemAt_c2r", "netemAt_c2r_0", "netemAt_c2r_00", "netemAt_c2r_1",
      "netemAt_r2s_0", "path_c2r", "path_c2r_0", "path_c2r_00", "path_c2r_1", "path_r2s_0">>

MCPathKeys == {"path_c2r", "path_c2r_0", "path_c2r_00", "path_c2r_1", "path_r2s_0"}

MCNetemKeys ==
    {"netemAt_c2r", "netemAt_c2r_0", "netemAt_c2r_00", "netemAt_c2r_1", "netemAt_r2s_0"}

MCLinkOf ==
    [k \in MCPathKeys \cup MCNetemKeys |->
        IF k \in {"netemAt_c2r", "path_c2r"} THEN NoLink
        ELSE [link_type |-> IF k \in {"netemAt_r2s_0", "path_r2s_0"} THEN "r2s" ELSE "c2r",
              id |-> IF k \in {"netemAt_c2r_1", "path_c2r_1"} THEN 1 ELSE 0]]

MCLines ==
    [key : {"changeNetem", "netemAt_c2r"}, value : {"yes"}]
    \cup [key : {"netemAt_c2r_0", "netemAt_c2r_00"}, value : {"1,loss", "2,loss"}]
    \cup [key : {"netemAt_c2r_1"}, value : {"yes", "1,loss"}]
    \cup [key : {"netemAt_r2s_0"}, value : {"1,loss"}]
    \cup [key : {"path_c2r", "path_c2r_00", "path_r2s_0"}, value : {"10,20,4"}]
    \cup [key : {"path_c2r_0"}, value : {"10,20,4", "10,20,0"}]
    \cup [key : {"path_c2r_1"}, value : {"yes", "10,20,4"}]
    \cup [key : {NoKey}, value : {"yes"}]

MCAtOf == [v \in {"1,loss", "2,loss"} |-> IF v = "1,loss" THEN 1 ELSE 2]
=============================================================================
