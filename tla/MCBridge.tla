------------------------------ MODULE MCBridge ------------------------------
(* Bridge on a small instance: two request ids, the tool names that tell  *)
(* the screenshot lists of the two bridges apart ("" stands for the rest), *)
(* every kind of line.                                                     *)
EXTENDS Bridge

CONSTANTS i1, i2

MCIds == {i1, i2}
MCTools == {"app_screenshot", "active_window_screenshot", "screenshot"}
MCInput == Lines

(* Every line except those whose params are not an object.                 *)
MCInputObjectParams == {l \in Lines : l.params # NonObjectParams}

(* Only requests with a non-null id and object params: what remains is the *)
(* tool server's side.                                                     *)
MCInputRequests ==
  {l \in MCInputObjectParams : l.kind = "object" /\ l.id \in MCIds}

(* The client keeps reading the bridge's stdout: every step but Hangup.    *)
(* The runs about lost requests use it, so that a response lost on a      *)
(* closed pipe (the bridge_hangup run) is not found again in their place.  *)
MCNextNoHangup ==
  Close \/ (\E l \in Input : Send(l)) \/ BridgeStep \/ Interrupt

MCSpecNoHangup == Init /\ [][MCNextNoHangup]_vars
=============================================================================
