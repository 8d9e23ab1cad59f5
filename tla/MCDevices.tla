----------------------------- MODULE MCDevices -----------------------------
(* A small instance of Devices for TLC: two devices that take turns at an    *)
(* address.                                                                  *)
EXTENDS Devices, TLC
TV    == "aa:01"
Phone == "aa:02"
MCNameOf == (TV :> "tv.local") @@ (Phone :> "phone.local")
=============================================================================
