-------------------------------- MODULE MCIrc --------------------------------
(* Instances of Irc for TLC. *)
EXTENDS Irc

LowFds == 4..5
OneLimit == {1}

=============================================================================
