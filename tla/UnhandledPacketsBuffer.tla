----------------------- MODULE UnhandledPacketsBuffer -----------------------
(***************************************************************************)
(* UnhandledPacketsBuffer (engine/unhandled_packets_buffer.cpp): a ring of *)
(* packets whose SSRC has no receive stream yet.  A packet is its SSRC and *)
(* the number of its arrival.  Positions are 0-based in the code.          *)
(***************************************************************************)
EXTENDS Naturals, Sequences, Functions

CONSTANTS
    Ssrcs,       \* SSRCs without a receive stream
    Capacity,    \* kMaxStashedPackets
    MaxPackets   \* bound: packets that arrive

ASSUME CapacityAssumption == Capacity \in Nat \ {0} /\ MaxPackets \in Nat

VARIABLES
    buffer,     \* buffer_
    insertPos,  \* insert_pos_
    consumed,   \* what the last BackfillPackets gave its consumer, in order
    arrived,    \* number of packets that have arrived
    leftOver    \* history: some BackfillPackets left packets in the buffer

vars == <<buffer, insertPos, consumed, arrived, leftOver>>

At(pos) == buffer[pos + 1]

AddPacket(ssrc) ==
    LET packet == [ssrc |-> ssrc, number |-> arrived + 1]
    IN  /\ arrived < MaxPackets
        /\ buffer' = IF Len(buffer) < Capacity THEN Append(buffer, packet)
                     ELSE [buffer EXCEPT ![insertPos + 1] = packet]
        /\ insertPos' = (insertPos + 1) % Capacity
        /\ arrived' = arrived + 1
        /\ UNCHANGED <<consumed, leftOver>>

\* Mutant: the ring is read from its first position.
ReadFromZero == 0

\* Where BackfillPackets starts to read.
Start == IF Len(buffer) < Capacity THEN 0 ELSE insertPos

\* Mutant: the reading stops one packet early.
AllButLast ==
    LET visited == [i \in 1 .. Len(buffer) |-> At((i - 1 + Start) % Capacity)]
    IN  SubSeq(visited, 1, Len(buffer) - 1)

\* The packets in the order BackfillPackets visits them.
Visited == [i \in 1 .. Len(buffer) |-> At((i - 1 + Start) % Capacity)]

\* The packets that belong to some streams, by one pass over a list.
Of(packets, ssrcs) ==
    LET taken[n \in 0 .. Len(packets)] ==
            IF n = 0 THEN <<>>
            ELSE IF packets[n].ssrc \in ssrcs THEN Append(taken[n - 1], packets[n])
            ELSE taken[n - 1]
    IN  taken[Len(packets)]

BackfillPackets(ssrcs) ==
    /\ consumed' = Of(Visited, ssrcs)
    /\ buffer' = Of(Visited, Ssrcs \ ssrcs)
    /\ insertPos' = 0
    /\ leftOver' = (leftOver \/ buffer' # <<>>)
    /\ UNCHANGED arrived

Init ==
    /\ buffer = <<>> /\ insertPos = 0
    /\ consumed = <<>> /\ arrived = 0 /\ leftOver = FALSE

Next ==
    \/ \E ssrc \in Ssrcs : AddPacket(ssrc)
    \/ \E ssrcs \in SUBSET Ssrcs : BackfillPackets(ssrcs)

Spec == Init /\ [][Next]_vars

-----------------------------------------------------------------------------
(* Properties *)

InOrder(s) == \A i, j \in DOMAIN s : i < j => s[i].number < s[j].number

Stash == INSTANCE PacketStash WITH stash <- Range(buffer), given <- Range(consumed)

\* The ring, however it wraps around, is a stash: no packet is lost but to make
\* room for a new one, none is given twice, and all packets of the streams that
\* turn up are given.
ImplementsStash == Stash!Spec

\* As long as every backfill has emptied the buffer, a stream gets its packets
\* in the order they arrived in, whether the ring has wrapped around or not.
OrderedUntilLeftOver == ~leftOver => InOrder(consumed)

\* "insert_pos is only used when buffer is full"
\* (engine/unhandled_packets_buffer.cpp:76), so that resetting it is harmless
\* and a backfill always gives the packets in the order they arrived in.
BackfillIsOrdered == InOrder(consumed)
=============================================================================
