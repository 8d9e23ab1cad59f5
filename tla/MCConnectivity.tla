--------------------------- MODULE MCConnectivity ---------------------------
(* A small instance of Connectivity for TLC: a wired and a wireless uplink.  *)
EXTENDS Connectivity, TLC
Wired  == "eth0"
Radio  == "wlan0"
MCOrder  == <<Wired, Radio>>
MCRouter == (Wired :> "10.0.0.1") @@ (Radio :> "10.0.1.1")
=============================================================================
