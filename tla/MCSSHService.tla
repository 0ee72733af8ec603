--------------------------- MODULE MCSSHService ---------------------------
(* Instantiates SSHService for TLC: two data channels and two forward       *)
(* requests, enough for a forward to wait on a second command, two          *)
(* heartbeats to race into Close and two pairing cycles to complete.        *)
EXTENDS SSHService, TLC

CONSTANTS c1, c2, f1, f2

MCChan == {c1, c2}
MCChan1 == {c1}
MCFwd == {f1, f2}
MCFwd1 == {f1}

MCSymmetry == Permutations(MCChan) \cup Permutations(MCFwd)
=============================================================================
