--------------------------- MODULE MCPluginBridge ---------------------------
(* PluginBridge on the instance of MCBridge: two request ids, the tool     *)
(* names of both screenshot lists, every kind of line.                     *)
EXTENDS PluginBridge

CONSTANTS i1, i2

MCIds == {i1, i2}
MCTools == {"app_screenshot", "active_window_screenshot", "screenshot"}
MCInput == Lines
=============================================================================
