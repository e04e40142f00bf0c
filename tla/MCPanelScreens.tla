--------------------------- MODULE MCPanelScreens ----------------------------
(* PanelScreens for TLC; the bounds are in the configurations.             *)
EXTENDS PanelScreens
=============================================================================
