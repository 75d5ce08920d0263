---------------------------- MODULE MCSrtpSession ----------------------------
(* Two sessions of a process, with a key of every kind that matters.  *)
EXTENDS SrtpSession

MCKeys ==
    {[type |-> "out", suite |-> "cm32", fits |-> TRUE],
     [type |-> "out", suite |-> "gcm", fits |-> TRUE],
     [type |-> "out", suite |-> "gcm", fits |-> FALSE],
     [type |-> "in", suite |-> "cm80", fits |-> TRUE],
     [type |-> "in", suite |-> "unsupported", fits |-> TRUE]}
=============================================================================
