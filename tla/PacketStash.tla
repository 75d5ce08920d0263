----------------------------- MODULE PacketStash -----------------------------
(***************************************************************************)
(* What a buffer of packets of unknown streams promises: it keeps a packet *)
(* until its stream turns up, hands each packet out at most once and only  *)
(* to its stream, hands out all it has for that stream, and when it is     *)
(* full gives up one packet for each new one.                              *)
(***************************************************************************)
EXTENDS Naturals, FiniteSets

CONSTANTS Ssrcs, Capacity, MaxPackets

VARIABLES stash, given, arrived

vars == <<stash, given, arrived>>

Packet(ssrc) == [ssrc |-> ssrc, number |-> arrived + 1]

Init == stash = {} /\ given = {} /\ arrived = 0

Keep(ssrc) ==
    /\ arrived < MaxPackets
    /\ \/ Cardinality(stash) < Capacity /\ stash' = stash \cup {Packet(ssrc)}
       \/ /\ Cardinality(stash) = Capacity
          /\ \E lost \in stash : stash' = (stash \ {lost}) \cup {Packet(ssrc)}
    /\ arrived' = arrived + 1
    /\ UNCHANGED given

HandOut(ssrcs) ==
    /\ given' = {p \in stash : p.ssrc \in ssrcs}
    /\ stash' = stash \ given'
    /\ UNCHANGED arrived

Next ==
    \/ \E ssrc \in Ssrcs : Keep(ssrc)
    \/ \E ssrcs \in SUBSET Ssrcs : HandOut(ssrcs)

Spec == Init /\ [][Next]_vars
=============================================================================
