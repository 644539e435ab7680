---------------------------- MODULE MCProducerCache ----------------------------
(* Small instances of ProducerCache.                                       *)
EXTENDS ProducerCache

CONSTANTS device, simulator

Device == <<device>>
DeviceAndSimulator == <<device, simulator>>
TwoMacroFiles == <<"provider", "server">>
OneMacroFile == <<"server">>
=============================================================================
