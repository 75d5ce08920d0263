----------------------- MODULE JsepTransportCollection -----------------------
(***************************************************************************)
(* JsepTransportCollection (jsep_transport_collection.cc): it owns the     *)
(* JsepTransports, maps media sections (mids) to them and keeps a snapshot *)
(* of that mapping to roll back to.  Several mids may share (bundle) one   *)
(* transport.  The two mappings hold raw pointers; a transport lives as    *)
(* long as it is owned.  The object lives on the network thread.           *)
(*                                                                         *)
(* Two parties are told of changes: the subscriber behind                  *)
(* map_change_callback_, which may refuse a change, and the aggregate      *)
(* connection state, recomputed over ActiveTransports() by                 *)
(* state_change_callback_.  A missing map entry and nullptr are None.      *)
(***************************************************************************)
CONSTANTS
    None,
    Mids,        \* media sections; also the names transports are owned under
    Transports,  \* JsepTransport objects, by identity
    Reregister   \* may a name that is still registered be registered again?

ASSUME TransportsAssumption == None \notin Transports

ASSUME ModesAssumption == Reregister \in BOOLEAN

VARIABLES
    owner,      \* jsep_transports_by_name_
    current,    \* mid_to_transport_
    stable,     \* stable_mid_to_transport_
    view,       \* the mapping the subscriber was told
    refused,    \* has a map_change_callback_ returned false?
    aggregate,  \* the transports in the last aggregate state
    destroyed   \* DestroyAllTransports was called

vars == <<owner, current, stable, view, refused, aggregate, destroyed>>

Maps == [Mids -> Transports \cup {None}]

\* TransportInUse, TransportNeededForRollback and ownership: is t mapped?
In(map, t) == \E mid \in Mids : map[mid] = t

ActiveTransports(map) == {t \in Transports : In(map, t)}

\* Mutant: the snapshot does not keep a transport alive.
KeptForCurrentOnly(cur, stb, t) == In(cur, t)

\* Is t kept by MaybeDestroyJsepTransport and DestroyUnusedTransports?
Kept(cur, stb, t) == In(cur, t) \/ In(stb, t)

Without(own, t) == [name \in Mids |-> IF own[name] = t THEN None ELSE own[name]]

\* MaybeDestroyJsepTransport(old): the owners after it ...
MaybeDestroy(own, cur, old) ==
    IF Kept(cur, stable, old) THEN own ELSE Without(own, old)

\* Mutant: no state_change_callback_ for a transport kept for a rollback.
ReaggregateOnDestroy(own, cur, old) ==
    IF ~Kept(cur, stable, old) /\ In(own, old)
    THEN ActiveTransports(cur) ELSE aggregate

\* ... and the aggregate state, recomputed when `old` left the active set and
\* still is an object.
Reaggregate(own, cur, old) ==
    IF ~In(cur, old) /\ (In(stable, old) \/ In(own, old))
    THEN ActiveTransports(cur) ELSE aggregate

\* Mutant: unused transports are left behind.
AllUsed(own, cur, stb) == own

\* DestroyUnusedTransports.
Used(own, cur, stb) ==
    [name \in Mids |-> IF Kept(cur, stb, own[name]) THEN own[name] ELSE None]

\* Mutant: the subscriber is not told of removals.
MapChangeWithoutRemovals(mid, t, ok) ==
    /\ view' = IF ok /\ t # None THEN [view EXCEPT ![mid] = t] ELSE view
    /\ refused' = (refused \/ ~ok)

\* map_change_callback_(mid, t).
MapChange(mid, t, ok) ==
    /\ view' = IF ok THEN [view EXCEPT ![mid] = t] ELSE view
    /\ refused' = (refused \/ ~ok)

\* The body of SetTransportForMid past its early return.
Remap(mid, t, ok) ==
    LET old == current[mid]
    IN  /\ MapChange(mid, t, ok)
        /\ current' = [current EXCEPT ![mid] = t]
        /\ aggregate' = IF old = None THEN aggregate
                        ELSE Reaggregate(owner, current', old)

OwnersAfterRemap(mid) ==
    IF current[mid] = None THEN owner
    ELSE MaybeDestroy(owner, current', current[mid])

-----------------------------------------------------------------------------
\* RegisterTransport: the assignment to jsep_transports_by_name_[mid] destroys
\* the transport that was owned under that name.
RegisterTransport(mid, t, ok) ==
    /\ ~(In(owner, t) \/ In(current, t) \/ In(stable, t) \/ In(view, t))
    /\ Reregister \/ owner[mid] = None
    /\ Remap(mid, t, ok)
    /\ owner' = [OwnersAfterRemap(mid) EXCEPT ![mid] = t]
    /\ UNCHANGED <<stable, destroyed>>

\* SetTransportForMid, for a transport of the collection.
SetTransportForMid(mid, t, ok) ==
    /\ In(owner, t)
    /\ current[mid] # t
    /\ Remap(mid, t, ok)
    /\ owner' = OwnersAfterRemap(mid)
    /\ UNCHANGED <<stable, destroyed>>

RemoveTransportForMid(mid, ok) ==
    /\ Remap(mid, None, ok)
    /\ owner' = OwnersAfterRemap(mid)
    /\ UNCHANGED <<stable, destroyed>>

\* `told` are the mids whose callback is reached and accepted.  Mids that are
\* new since the snapshot come first; `ret && ...` stops calling at the first
\* refusal.
RollbackTransports(told) ==
    LET changed == {mid \in Mids : current[mid] # stable[mid]}
        new     == {mid \in changed : stable[mid] = None}
    IN  /\ told \subseteq changed
        /\ told \subseteq new \/ new \subseteq told
        /\ view' = [mid \in Mids |-> IF mid \in told THEN stable[mid] ELSE view[mid]]
        /\ refused' = (refused \/ told # changed)
        /\ current' = stable
        /\ aggregate' = ActiveTransports(stable)
        /\ owner' = Used(owner, stable, stable)
        /\ UNCHANGED <<stable, destroyed>>

CommitTransports ==
    /\ stable' = current
    /\ owner' = Used(owner, current, current)
    /\ aggregate' = IF owner' # owner THEN ActiveTransports(current) ELSE aggregate
    /\ UNCHANGED <<current, view, refused, destroyed>>

\* One callback per owned name; the mappings are not cleared.
DestroyAllTransports ==
    /\ destroyed' = TRUE
    /\ view' = [mid \in Mids |-> IF owner[mid] # None THEN None ELSE view[mid]]
    /\ owner' = [mid \in Mids |-> None]
    /\ UNCHANGED <<current, stable, refused, aggregate>>

-----------------------------------------------------------------------------
Init ==
    /\ owner = [mid \in Mids |-> None]
    /\ current = [mid \in Mids |-> None]
    /\ stable = [mid \in Mids |-> None]
    /\ view = [mid \in Mids |-> None]
    /\ refused = FALSE
    /\ aggregate = {}
    /\ destroyed = FALSE

Next ==
    /\ ~destroyed
    /\ \/ \E mid \in Mids, t \in Transports, ok \in BOOLEAN :
              RegisterTransport(mid, t, ok) \/ SetTransportForMid(mid, t, ok)
       \/ \E mid \in Mids, ok \in BOOLEAN : RemoveTransportForMid(mid, ok)
       \/ \E told \in SUBSET Mids : RollbackTransports(told)
       \/ CommitTransports
       \/ DestroyAllTransports

Spec == Init /\ [][Next]_vars

-----------------------------------------------------------------------------
(* Properties *)

\* The maps have their types, and no transport is owned under two names
\* (two unique_ptrs would delete it twice).
TypeOK ==
    /\ owner \in Maps /\ current \in Maps /\ stable \in Maps /\ view \in Maps
    /\ refused \in BOOLEAN
    /\ aggregate \subseteq Transports
    /\ destroyed \in BOOLEAN
    /\ \A m, n \in Mids : owner[m] = owner[n] /\ owner[m] # None => m = n

\* What IsConsistent() verifies after every call: an owned transport is in use
\* or needed for a rollback, so none is leaked.
IsConsistent ==
    \A name \in Mids : owner[name] # None => Kept(current, stable, owner[name])

\* "Don't destroy the JsepTransport if there are still media sections
\* referring to it, or if it will be needed in case of rollback"
\* (jsep_transport_collection.cc:330): every transport a mid maps to, now or in
\* the snapshot, is alive, so GetTransportForMid and a later rollback never
\* hand out a dangling pointer.
PointersAreOwned ==
    ~destroyed => \A mid \in Mids : /\ current[mid] # None => In(owner, current[mid])
                                    /\ stable[mid] # None => In(owner, stable[mid])

\* map_change_callback_ is "used to inform subscribers of altered transports"
\* (jsep_transport_collection.h:174): a subscriber that has refused nothing
\* knows the transport of every mid, through moves, commits and rollbacks.
SubscribersAreInformed == ~destroyed /\ ~refused => view = current

\* A transport that left the mapping is left out of the aggregate state as
\* well, in whatever order mids are moved, removed, committed and rolled back.
AggregateIsActive == aggregate \subseteq ActiveTransports(current)
=============================================================================
