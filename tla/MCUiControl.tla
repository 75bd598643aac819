----------------------------- MODULE MCUiControl -----------------------------
(***************************************************************************)
(* Small instances of UiControl: one key each in a SYSTEM, a LAUNCHER and  *)
(* an application's namespace; values of two lengths.                      *)
(***************************************************************************)
EXTENDS UiControl, TLC

CONSTANTS wifi, phy, ssid, l_wifi, scores, game, short, long

mcNsOf  == wifi :> phy @@ ssid :> l_wifi @@ scores :> game
mcClass == phy :> "system" @@ l_wifi :> "launcher" @@ game :> "application"
=============================================================================
