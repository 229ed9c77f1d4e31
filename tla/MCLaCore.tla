------------------------------ MODULE MCLaCore ------------------------------
(* LaCore with every single pulse and the pairs one LA_COMMAND write can   *)
(* carry that meet in one state.                                           *)
EXTENDS LaCore

MCModes == {"falling"}
MCCommands == {{}, {"arm"}, {"stop"}, {"off"}, {"force"}, {"start"}, {"done"},
               {"stop", "force"}, {"arm", "start"}}
=============================================================================
