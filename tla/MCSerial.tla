------------------------------ MODULE MCSerial ------------------------------
(* Small instances of Serial for TLC. *)
EXTENDS Serial

CONSTANTS b1

MCBatches == {<<b1>>, <<b1, b1>>}

MCIerValues == {{}, {"ERBFI"}, {"ETBEI"}, {"ELSI", "ERBFI"}, {"EDSSI"}, IerBits}

MCMcrValues == {{}, {"OUT2"}, {"OUT1", "OUT2"}, {"OUT2", "LOOPBACK"}, {"DTR", "LOOPBACK"}}
=============================================================================
