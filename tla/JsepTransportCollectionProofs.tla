-------------------- MODULE JsepTransportCollectionProofs --------------------
(***************************************************************************)
(* Proofs about JsepTransportCollection for every set of media sections    *)
(* and transports.  A caller that registers a name twice breaks ownership, *)
(* so the results about live pointers assume it does not.  Then the other  *)
(* class of the same file, the bundle manager.                             *)
(***************************************************************************)
EXTENDS JsepTransportCollection, SequentialParts, FiniteSetTheorems, SequenceTheorems, TLAPS

\* The active transports are all in the mapping, so a transport that leaves it
\* is known to leave the aggregate state only because it is still owned.
IInv == TypeOK /\ IsConsistent /\ PointersAreOwned /\ AggregateIsActive

\* What a remapping of one mid (registering, moving or removing it) leaves.
LEMMA RemapStep ==
    ASSUME IInv, ~destroyed, NEW mid \in Mids, NEW t \in Transports \cup {None},
           NEW ok \in BOOLEAN, Remap(mid, t, ok), UNCHANGED stable
    PROVE  /\ current' \in Maps /\ view' \in Maps /\ refused' \in BOOLEAN
           /\ current' = [current EXCEPT ![mid] = t]
           /\ OwnersAfterRemap(mid) \in Maps
           /\ \A name \in Mids : OwnersAfterRemap(mid)[name] \in {None, owner[name]}
           /\ \A name \in Mids : (/\ owner[name] # None
                                  /\ OwnersAfterRemap(mid)[name] = None)
                  => ~Kept(current', stable, owner[name])
           /\ \A name \in Mids : OwnersAfterRemap(mid)[name] # None
                  => Kept(current', stable, OwnersAfterRemap(mid)[name])
           /\ aggregate' \subseteq ActiveTransports(current')
<1> DEFINE old == current[mid]
<1> USE TransportsAssumption
<1>1. /\ owner \in Maps /\ current \in Maps /\ stable \in Maps /\ view \in Maps
      /\ refused \in BOOLEAN
  BY DEF IInv, TypeOK
<1>2. /\ current' = [current EXCEPT ![mid] = t]
      /\ current' \in Maps /\ view' \in Maps /\ refused' \in BOOLEAN
  BY <1>1 DEF Remap, MapChange, Maps
<1>3. /\ current'[mid] = t
      /\ \A m \in Mids \ {mid} : current'[m] = current[m]
  BY <1>1, <1>2 DEF Maps
<1>4. \A x : In(current, x) /\ x # old => In(current', x)
  BY <1>3 DEF In
<1>5. CASE old = None
  <2>1. OwnersAfterRemap(mid) = owner
    BY <1>5 DEF OwnersAfterRemap
  <2>2. aggregate' = aggregate
    BY <1>5 DEF Remap
  <2>3. \A name \in Mids : owner[name] # None => Kept(current', stable, owner[name])
    BY <1>4, <1>5 DEF IInv, IsConsistent, Kept
  <2>4. aggregate' \subseteq ActiveTransports(current')
    BY <2>2, <1>4, <1>5 DEF IInv, AggregateIsActive, ActiveTransports
  <2>5. QED  BY <1>1, <1>2, <2>1, <2>3, <2>4
<1>6. CASE old # None
  <2>1. OwnersAfterRemap(mid) = IF Kept(current', stable, old) THEN owner
                                ELSE Without(owner, old)
    BY <1>6 DEF OwnersAfterRemap, MaybeDestroy
  <2>2. aggregate' \subseteq ActiveTransports(current')
    <3>1. In(owner, old)
      BY <1>6 DEF IInv, PointersAreOwned
    <3>2. aggregate' = IF ~In(current', old) THEN ActiveTransports(current')
                       ELSE aggregate
      BY <1>6, <3>1 DEF Remap, Reaggregate
    <3>3. QED  BY <3>2, <1>4 DEF IInv, AggregateIsActive, ActiveTransports
  <2>3. \A name \in Mids : owner[name] # None /\ owner[name] # old
            => Kept(current', stable, owner[name])
    BY <1>4 DEF IInv, IsConsistent, Kept
  <2>4. CASE Kept(current', stable, old)
    BY <1>1, <1>2, <2>1, <2>2, <2>3, <2>4
  <2>5. CASE ~Kept(current', stable, old)
    <3>1. OwnersAfterRemap(mid) = Without(owner, old)
      BY <2>1, <2>5
    <3>2. Without(owner, old) \in Maps
      BY <1>1 DEF Without, Maps
    <3>3. \A name \in Mids : Without(owner, old)[name]
              = IF owner[name] = old THEN None ELSE owner[name]
      BY DEF Without
    <3> HIDE DEF old
    <3>4. QED  BY <1>2, <2>2, <2>3, <2>5, <3>1, <3>2, <3>3
  <2>6. QED  BY <2>4, <2>5
<1>7. QED  BY <1>5, <1>6

-----------------------------------------------------------------------------
\* A remapping that adds no owner keeps the invariant.
LEMMA RemapKeeps ==
    ASSUME IInv, ~destroyed, NEW mid \in Mids, NEW t \in Transports \cup {None},
           NEW ok \in BOOLEAN, Remap(mid, t, ok), UNCHANGED <<stable, destroyed>>,
           owner' = OwnersAfterRemap(mid), t # None => In(owner, t)
    PROVE  IInv'
<1> USE TransportsAssumption
<1>1. /\ owner' \in Maps /\ current' \in Maps /\ stable' \in Maps /\ view' \in Maps
      /\ refused' \in BOOLEAN /\ aggregate' \subseteq Transports
      /\ destroyed' \in BOOLEAN
  BY RemapStep DEF IInv, TypeOK, ActiveTransports
<1>2. \A name \in Mids : owner'[name] \in {None, owner[name]}
  BY RemapStep
<1>3. TypeOK'
  BY <1>1, <1>2 DEF IInv, TypeOK
<1>4. IsConsistent' /\ AggregateIsActive'
  BY RemapStep DEF IsConsistent, AggregateIsActive, Kept, In
<1>5. \A x : Kept(current', stable, x) /\ In(owner, x) /\ x # None => In(owner', x)
  BY RemapStep, <1>2 DEF In
<1>6. \A m \in Mids : current'[m] \in {t, current[m]}
  BY RemapStep DEF IInv, TypeOK, Maps
<1>7. PointersAreOwned'
  <2>1. SUFFICES ASSUME NEW m \in Mids
                 PROVE  /\ current'[m] # None => In(owner', current'[m])
                        /\ stable[m] # None => In(owner', stable[m])
    BY DEF PointersAreOwned, In
  <2>2. Kept(current', stable, current'[m]) /\ Kept(current', stable, stable[m])
    BY DEF Kept, In
  <2>3. current'[m] # None => In(owner, current'[m])
    BY <1>6 DEF IInv, PointersAreOwned
  <2>4. stable[m] # None => In(owner, stable[m])
    BY DEF IInv, PointersAreOwned
  <2>5. QED  BY <1>5, <2>2, <2>3, <2>4
<1>8. QED  BY <1>3, <1>4, <1>7 DEF IInv

\* Registering a transport under a free name keeps the invariant.
LEMMA RegisterKeeps ==
    ASSUME IInv, ~destroyed, ~Reregister, NEW mid \in Mids, NEW t \in Transports,
           NEW ok \in BOOLEAN, RegisterTransport(mid, t, ok)
    PROVE  IInv'
<1> DEFINE own == OwnersAfterRemap(mid)
<1> USE TransportsAssumption
<1>1. /\ Remap(mid, t, ok) /\ UNCHANGED <<stable, destroyed>>
      /\ owner' = [own EXCEPT ![mid] = t]
      /\ owner[mid] = None /\ ~In(owner, t) /\ t # None
  BY DEF RegisterTransport
<1>2. /\ own \in Maps /\ current' \in Maps
      /\ \A name \in Mids : own[name] \in {None, owner[name]}
      /\ \A name \in Mids : own[name] # None => Kept(current', stable, own[name])
      /\ \A name \in Mids : owner[name] # None /\ own[name] = None
             => ~Kept(current', stable, owner[name])
      /\ current' = [current EXCEPT ![mid] = t]
      /\ aggregate' \subseteq ActiveTransports(current')
      /\ view' \in Maps /\ refused' \in BOOLEAN
  BY <1>1, RemapStep
<1> HIDE DEF own
<1>3. /\ owner' \in Maps /\ owner'[mid] = t
      /\ \A name \in Mids \ {mid} : owner'[name] = own[name]
  BY <1>1, <1>2 DEF Maps
<1>4. /\ current'[mid] = t
      /\ \A m \in Mids \ {mid} : current'[m] = current[m]
  BY <1>2 DEF IInv, TypeOK, Maps
<1>5. TypeOK'
  <2>1. \A m, n \in Mids : owner'[m] = owner'[n] /\ owner'[m] # None => m = n
    BY <1>1, <1>2, <1>3 DEF IInv, TypeOK, In
  <2>2. QED
    BY <1>1, <1>2, <1>3, <2>1 DEF IInv, TypeOK, ActiveTransports
<1>6. IsConsistent'
  <2>1. In(current', t)
    BY <1>4 DEF In
  <2>2. \A name \in Mids : owner'[name] # None => Kept(current', stable, owner'[name])
    BY <2>1, <1>2, <1>3 DEF Kept
  <2>3. QED  BY <1>1, <2>2 DEF IsConsistent, Kept, In
<1>7. AggregateIsActive'
  BY <1>2 DEF AggregateIsActive, ActiveTransports, In
<1>8. PointersAreOwned'
  <2>1. SUFFICES ASSUME NEW m \in Mids
                 PROVE  /\ current'[m] # None => In(owner', current'[m])
                        /\ stable[m] # None => In(owner', stable[m])
    BY <1>1 DEF PointersAreOwned, In
  <2>2. \A x : Kept(current', stable, x) /\ In(owner, x) /\ x # None => In(owner', x)
    BY <1>1, <1>2, <1>3 DEF In
  <2>3. Kept(current', stable, current'[m]) /\ Kept(current', stable, stable[m])
    BY DEF Kept, In
  <2>4. current'[m] = t \/ (current'[m] # None => In(owner, current'[m]))
    BY <1>4 DEF IInv, PointersAreOwned
  <2>5. stable[m] # None => In(owner, stable[m])
    BY DEF IInv, PointersAreOwned
  <2>6. In(owner', t)
    BY <1>3 DEF In
  <2>7. QED  BY <2>2, <2>3, <2>4, <2>5, <2>6
<1>9. QED  BY <1>5, <1>6, <1>7, <1>8 DEF IInv

\* What DestroyUnusedTransports keeps, for the mappings it runs over.
LEMMA UsedStep ==
    ASSUME owner \in Maps, NEW map \in Maps
    PROVE  /\ Used(owner, map, map) \in Maps
           /\ \A name \in Mids : Used(owner, map, map)[name] \in {None, owner[name]}
           /\ \A name \in Mids : Used(owner, map, map)[name] # None
                  => Kept(map, map, Used(owner, map, map)[name])
           /\ \A x : In(map, x) /\ In(owner, x) => In(Used(owner, map, map), x)
<1>1. \A name \in Mids : Used(owner, map, map)[name]
          = IF Kept(map, map, owner[name]) THEN owner[name] ELSE None
  BY DEF Used
<1>2. Used(owner, map, map) \in Maps
  BY DEF Used, Maps
<1>3. \A x : In(map, x) /\ In(owner, x) => In(Used(owner, map, map), x)
  BY <1>1 DEF In, Kept
<1>4. QED  BY <1>1, <1>2, <1>3

\* Settling both mappings on one of them (commit, rollback) keeps the invariant.
LEMMA SettleKeeps ==
    ASSUME IInv, ~destroyed, NEW map \in Maps, map = current \/ map = stable,
           current' = map, stable' = map, owner' = Used(owner, map, map),
           aggregate' \subseteq ActiveTransports(map),
           view' \in Maps, refused' \in BOOLEAN, UNCHANGED destroyed
    PROVE  IInv'
<1> USE TransportsAssumption
<1>1. owner \in Maps
  BY DEF IInv, TypeOK
<1>2. TypeOK'
  BY <1>1, UsedStep DEF IInv, TypeOK, ActiveTransports
<1>3. IsConsistent'
  BY <1>1, UsedStep DEF IsConsistent, Kept, In
<1>4. PointersAreOwned'
  <2>1. \A m \in Mids : map[m] # None => In(owner, map[m]) /\ In(map, map[m])
    BY DEF IInv, PointersAreOwned, In
  <2>2. \A m \in Mids : map[m] # None => In(owner', map[m])
    BY <1>1, <2>1, UsedStep
  <2>3. QED  BY <2>2 DEF PointersAreOwned, In
<1>5. AggregateIsActive'
  BY DEF AggregateIsActive, ActiveTransports, In
<1>6. QED  BY <1>2, <1>3, <1>4, <1>5 DEF IInv

\* The invariant holds initially and is kept by every call, as long as no name
\* is registered twice.
LEMMA IInvHolds ==
    ASSUME ~Reregister
    PROVE  Spec => []IInv
<1> USE TransportsAssumption
<1>1. Init => IInv
  BY DEF Init, IInv, TypeOK, IsConsistent, PointersAreOwned, AggregateIsActive,
         Maps, ActiveTransports
<1>2. IInv /\ [Next]_vars => IInv'
  <2>1. SUFFICES ASSUME IInv, [Next]_vars
                 PROVE  IInv'
    OBVIOUS
  <2>2. CASE UNCHANGED vars
    BY <2>1, <2>2 DEF vars, IInv, TypeOK, IsConsistent, PointersAreOwned,
                      AggregateIsActive, Kept, In, ActiveTransports
  <2>3. CASE Next
    <3>1. ~destroyed
      BY <2>3 DEF Next
    <3>2. ASSUME NEW mid \in Mids, NEW t \in Transports, NEW ok \in BOOLEAN,
                 RegisterTransport(mid, t, ok)
          PROVE  IInv'
      BY <2>1, <3>1, <3>2, RegisterKeeps
    <3>3. ASSUME NEW mid \in Mids, NEW t \in Transports, NEW ok \in BOOLEAN,
                 SetTransportForMid(mid, t, ok)
          PROVE  IInv'
      BY <2>1, <3>1, <3>3, RemapKeeps DEF SetTransportForMid
    <3>4. ASSUME NEW mid \in Mids, NEW ok \in BOOLEAN, RemoveTransportForMid(mid, ok)
          PROVE  IInv'
      <4> DEFINE t == None
      <4>1. /\ t \in Transports \cup {None} /\ (t # None => In(owner, t))
            /\ Remap(mid, t, ok) /\ UNCHANGED <<stable, destroyed>>
            /\ owner' = OwnersAfterRemap(mid)
        BY <3>4 DEF RemoveTransportForMid
      <4> HIDE DEF t
      <4>2. QED  BY <4>1, <2>1, <3>1, RemapKeeps
    <3>5. ASSUME NEW told \in SUBSET Mids, RollbackTransports(told)
          PROVE  IInv'
      <4>1. /\ stable \in Maps /\ view' \in Maps /\ refused' \in BOOLEAN
        BY <2>1, <3>5 DEF RollbackTransports, IInv, TypeOK, Maps
      <4>2. QED
        BY <2>1, <3>1, <3>5, <4>1, SettleKeeps DEF RollbackTransports
    <3>6. ASSUME CommitTransports
          PROVE  IInv'
      <4>1. /\ current \in Maps /\ view' \in Maps /\ refused' \in BOOLEAN
            /\ aggregate' \subseteq ActiveTransports(current)
        BY <2>1, <3>6 DEF CommitTransports, IInv, TypeOK, AggregateIsActive
      <4>2. QED
        BY <2>1, <3>1, <3>6, <4>1, SettleKeeps DEF CommitTransports
    <3>7. ASSUME DestroyAllTransports
          PROVE  IInv'
      BY <2>1, <3>7 DEF DestroyAllTransports, IInv, TypeOK, IsConsistent,
             PointersAreOwned, AggregateIsActive, Maps, ActiveTransports, In
    <3>8. QED  BY <2>3, <3>2, <3>3, <3>4, <3>5, <3>6, <3>7 DEF Next
  <2>4. QED  BY <2>1, <2>2, <2>3
<1>3. QED  BY <1>1, <1>2, PTL DEF Spec

-----------------------------------------------------------------------------
(* The theorems *)

\* The maps keep their types and a transport has one owner.
THEOREM TypeCorrect == ASSUME ~Reregister PROVE Spec => []TypeOK
<1>1. IInv => TypeOK
  BY DEF IInv
<1>2. QED  BY <1>1, IInvHolds, PTL

\* IsConsistent() never fails: moving, removing, committing and rolling back
\* leave no owned transport that nothing needs.
THEOREM NothingIsLeaked == ASSUME ~Reregister PROVE Spec => []IsConsistent
<1>1. IInv => IsConsistent
  BY DEF IInv
<1>2. QED  BY <1>1, IInvHolds, PTL

\* No mid, now or after a rollback, maps to a destroyed transport.
THEOREM NothingDangles == ASSUME ~Reregister PROVE Spec => []PointersAreOwned
<1>1. IInv => PointersAreOwned
  BY DEF IInv
<1>2. QED  BY <1>1, IInvHolds, PTL

\* The aggregate connection state never covers a transport no mid uses.
THEOREM AggregateStaysActive == ASSUME ~Reregister PROVE Spec => []AggregateIsActive
<1>1. IInv => AggregateIsActive
  BY DEF IInv
<1>2. QED  BY <1>1, IInvHolds, PTL

\* Until the subscriber refuses a change its view is the mapping itself.
Told ==
    /\ current \in Maps /\ stable \in Maps /\ view \in Maps
    /\ refused \in BOOLEAN
    /\ ~destroyed /\ ~refused => view = current

\* As long as it has refused no change a subscriber knows every mid's transport,
\* whatever is registered, moved, removed, committed and rolled back.
THEOREM SubscribersStayInformed == Spec => []SubscribersAreInformed
<1>1. Init => Told
  BY DEF Init, Told, Maps
<1>2. Told /\ [Next]_vars => Told'
  <2>1. SUFFICES ASSUME Told, [Next]_vars
                 PROVE  Told'
    OBVIOUS
  <2>2. CASE UNCHANGED vars
    BY <2>1, <2>2 DEF vars, Told
  <2>3. CASE Next
    <3>1. ~destroyed /\ (~refused => view = current)
      BY <2>1, <2>3 DEF Next, Told
    <3>2. ASSUME NEW mid \in Mids, NEW t \in Transports \cup {None},
                 NEW ok \in BOOLEAN, Remap(mid, t, ok), UNCHANGED <<stable, destroyed>>
          PROVE  Told'
      BY <2>1, <3>1, <3>2 DEF Remap, MapChange, Told, Maps
    <3>3. ASSUME NEW told \in SUBSET Mids, RollbackTransports(told)
          PROVE  Told'
      <4>1. /\ current' = stable /\ UNCHANGED <<stable, destroyed>>
            /\ view' \in Maps /\ refused' \in BOOLEAN
            /\ ~refused' =>
                  /\ ~refused
                  /\ view' = [m \in Mids |-> IF current[m] # stable[m] THEN stable[m]
                                                                    ELSE view[m]]
        BY <2>1, <3>3 DEF RollbackTransports, Told, Maps
      <4>2. ~refused' => view' = stable
        BY <2>1, <3>1, <4>1 DEF Told, Maps
      <4>3. QED  BY <2>1, <4>1, <4>2 DEF Told
    <3>4. ASSUME CommitTransports \/ DestroyAllTransports
          PROVE  Told'
      BY <2>1, <3>1, <3>4 DEF CommitTransports, DestroyAllTransports, Told, Maps
    <3>5. ASSUME NEW mid \in Mids, NEW ok \in BOOLEAN, RemoveTransportForMid(mid, ok)
          PROVE  Told'
      <4> DEFINE t == None
      <4>1. /\ t \in Transports \cup {None} /\ Remap(mid, t, ok)
            /\ UNCHANGED <<stable, destroyed>>
        BY <3>5 DEF RemoveTransportForMid
      <4> HIDE DEF t
      <4>2. QED  BY <4>1, <3>2
    <3>6. ASSUME NEW mid \in Mids, NEW t \in Transports, NEW ok \in BOOLEAN,
                 RegisterTransport(mid, t, ok) \/ SetTransportForMid(mid, t, ok)
          PROVE  Told'
      BY <3>2, <3>6 DEF RegisterTransport, SetTransportForMid
    <3>7. QED  BY <2>3, <3>3, <3>4, <3>5, <3>6 DEF Next
  <2>4. QED  BY <2>1, <2>2, <2>3
<1>3. Told => SubscribersAreInformed
  BY DEF Told, SubscribersAreInformed
<1>4. QED  BY <1>1, <1>2, <1>3, PTL DEF Spec

-----------------------------------------------------------------------------
(* Numbers *)

\* A set of numbers that is not empty has a least one.
LEMMA LeastNumber ==
    ASSUME NEW T \in SUBSET Nat, T # {}
    PROVE  \E x \in T : \A y \in T : x <= y
<1>1. PICK x \in T : \A y \in T : ~(<<y, x>> \in OpToRel(<, Nat))
  BY WFMin, NatLessThanWellFounded
<1>2. \A y \in Nat : y < x => <<y, x>> \in OpToRel(<, Nat)
  BY Zenon DEF OpToRel
<1>3. \A y \in T : ~(y < x)
  BY <1>1, <1>2
<1> QED BY <1>3

\* Min is one of the numbers, and so is Max if there is a bound.
LEMMA MinIsIn == ASSUME NEW T \in SUBSET Nat, T # {} PROVE Min(T) \in T
<1>1. PICK x \in T : \A y \in T : x <= y
  BY LeastNumber
<1> QED BY <1>1 DEF Min

LEMMA MaxIsIn ==
    ASSUME NEW n \in Nat, NEW T \in SUBSET (1 .. n), T # {}
    PROVE  Max(T) \in T /\ \A x \in T : x <= Max(T)
<1> DEFINE U == {n - x : x \in T}
<1>0. \A x \in T : x \in Nat /\ n - x \in Nat
  OBVIOUS
<1>1. U \in SUBSET Nat /\ U # {}
  BY <1>0
<1>2. PICK u \in U : \A v \in U : u <= v
  BY <1>1, LeastNumber
<1>3. PICK x \in T : u = n - x
  BY <1>2
<1>4. ASSUME NEW y \in T PROVE x >= y
  <2>1. n - x <= n - y
    BY <1>2, <1>3
  <2> QED BY <2>1
<1> QED BY <1>4 DEF Max

\* Nth goes through a set of numbers in order.
LEMMA NthIsIn ==
    ASSUME NEW n \in Nat, NEW S \in SUBSET (1 .. n)
    PROVE  /\ IsFiniteSet(S) /\ Cardinality(S) \in Nat
           /\ \A i \in 1 .. Cardinality(S) : Nth(S, i) \in S
           /\ \A i, j \in 1 .. Cardinality(S) : i < j => Nth(S, i) < Nth(S, j)
           /\ \A k \in S : \E i \in 1 .. Cardinality(S) : Nth(S, i) = k
<1> DEFINE Below(k) == {j \in S : j < k}
           N == Cardinality(S)
           Place(k) == Cardinality(Below(k)) + 1
           place == [k \in S |-> Place(k)]
<1>0. \A k \in S : k \in Nat
  OBVIOUS
<1>1. IsFiniteSet(1 .. n)
  BY FS_Interval
<1>2. IsFiniteSet(S) /\ N \in Nat
  BY <1>1, FS_Subset, FS_CardinalityType
<1>3. IsFiniteSet(1 .. N) /\ Cardinality(1 .. N) = N
  BY <1>2, FS_Interval
<1>4. ASSUME NEW k \in S
      PROVE  /\ IsFiniteSet(Below(k)) /\ Cardinality(Below(k)) \in Nat
             /\ Place(k) \in 1 .. N
  <2>1. Below(k) \in SUBSET S /\ k \notin Below(k)
    OBVIOUS
  <2>2. /\ IsFiniteSet(Below(k)) /\ Cardinality(Below(k)) <= N
        /\ N = Cardinality(Below(k)) => S = Below(k)
    BY <1>2, <2>1, FS_Subset
  <2>3. Cardinality(Below(k)) \in Nat
    BY <2>2, FS_CardinalityType
  <2>4. Cardinality(Below(k)) # N
    BY <2>1, <2>2
  <2> QED BY <1>2, <2>2, <2>3, <2>4
<1>5. ASSUME NEW j \in S, NEW k \in S, j < k PROVE Place(j) < Place(k)
  <2>0. \A x \in S : x < j => x < k
    BY <1>0, <1>5
  <2>1. /\ \A x \in Below(j) : x \in Below(k)
        /\ j \in Below(k) /\ j \notin Below(j)
    BY <1>0, <1>5, <2>0
  <2>2. /\ Cardinality(Below(j)) <= Cardinality(Below(k))
        /\ Cardinality(Below(j)) # Cardinality(Below(k))
    BY <1>4, <2>1, FS_Subset
  <2> QED BY <1>4, <2>2
<1>6. ASSUME NEW j \in S, NEW k \in S, Place(j) = Place(k) PROVE j = k
  <2>1. ~(j < k) /\ ~(k < j)
    BY <1>4, <1>5, <1>6
  <2> QED BY <2>1
<1>7. place \in Injection(S, 1 .. N)
  BY <1>4, <1>6 DEF Injection, IsInjective
<1>8. place \in Surjection(S, 1 .. N)
  BY <1>2, <1>3, <1>7, FS_Injection
<1>9. ASSUME NEW k \in S PROVE Nth(S, Place(k)) = k
  <2>0. \A j \in S : Cardinality(Below(j)) \in Nat
    BY <1>4
  <2>1. ASSUME NEW j \in S PROVE Cardinality(Below(j)) = Place(k) - 1 <=> j = k
    <3>1. Cardinality(Below(j)) = Place(k) - 1 <=> Place(j) = Place(k)
      BY <2>0
    <3> QED BY <1>6, <3>1
  <2>2. Nth(S, Place(k)) = CHOOSE j \in S : Cardinality(Below(j)) = Place(k) - 1
    BY DEF Nth
  <2> QED BY <2>1, <2>2
<1>10. ASSUME NEW i \in 1 .. N PROVE \E k \in S : Place(k) = i /\ Nth(S, i) = k
  <2>1. PICK k \in S : Place(k) = i
    BY <1>8 DEF Surjection
  <2> QED BY <1>9, <2>1
<1>11. ASSUME NEW i \in 1 .. N, NEW j \in 1 .. N, i < j PROVE Nth(S, i) < Nth(S, j)
  <2>1. PICK k \in S : Place(k) = i /\ Nth(S, i) = k
    BY <1>10
  <2>2. PICK l \in S : Place(l) = j /\ Nth(S, j) = l
    BY <1>10
  <2>3. ~(l < k) /\ l # k
    BY <1>4, <1>5, <1>11, <2>1, <2>2
  <2> QED BY <2>1, <2>2, <2>3
<1> QED BY <1>2, <1>4, <1>9, <1>10, <1>11

-----------------------------------------------------------------------------
(* The bundle manager.  Its groups are lists of mids; what is proved of it   *)
(* are the calls of SequentialParts, which use one manager after another.    *)

ManagerFields == {"policy", "groups", "stable", "byMid", "shared", "defined"}

\* A list of mids, each once.
MidLists == {g \in Seq(STRING) : \A i, j \in DOMAIN g : g[i] = g[j] => i = j}

\* The lookup finds the group that has a mid.
IsLookup(byMid, groups) ==
    /\ DOMAIN byMid = UNION {ToSet(groups[i]) : i \in DOMAIN groups}
    /\ \A m \in DOMAIN byMid : byMid[m] \in DOMAIN groups /\ m \in ToSet(groups[byMid[m]])

\* A bundle manager whose groups have had no mid in common.
GoodBundles(b) ==
    /\ b.defined
    /\ b.groups \in Seq(MidLists) /\ ~HaveCommonMid(b.groups)
    /\ b.stable \in Seq(MidLists) /\ ~HaveCommonMid(b.stable)
    /\ IsLookup(b.byMid, b.groups)

IsManager(b) ==
    /\ DOMAIN b = ManagerFields
    /\ b.shared \in BOOLEAN
    /\ ~b.shared => GoodBundles(b)

\* The inductive invariant: also the stable groups have no mid in common, which
\* a rollback needs.
BundleInv == job.kind = "bundles" => IsManager(result)

\* The mids of a description's bundles.
LEMMA BundlesAreMidLists ==
    ASSUME NEW groups \in GroupLists, NEW name
    PROVE  GetGroupsByName(groups, name) \in Seq(MidLists)
<1> DEFINE at == {i \in DOMAIN groups : groups[i].semantics = name}
           named == Picked(groups, at)
<1>1. groups \in Seq([semantics : STRING, names : Seq(STRING)])
  BY GroupsAssumption
<1>2. at \in SUBSET (1 .. Len(groups)) /\ Len(groups) \in Nat
  BY <1>1
<1>3. Cardinality(at) \in Nat /\ \A i \in 1 .. Cardinality(at) : Nth(at, i) \in at
  BY <1>2, NthIsIn
<1>4. ASSUME NEW k \in DOMAIN groups PROVE groups[k].names \in MidLists
  <2> DEFINE R == [semantics : STRING, names : Seq(STRING)]
  <2> HIDE DEF R
  <2>0. groups \in Seq(R) => groups[k] \in R
    OBVIOUS
  <2> USE DEF R
  <2>1. groups[k].names \in Seq(STRING)
    BY <1>1, <2>0
  <2>2. \A i, j \in DOMAIN groups[k].names : groups[k].names[i] = groups[k].names[j] => i = j
    BY GroupsAssumption
  <2> QED BY <2>1, <2>2 DEF MidLists
<1> HIDE DEF at
<1>5. DOMAIN named = 1 .. Cardinality(at) /\ \A i \in DOMAIN named : named[i].names \in MidLists
  BY <1>3, <1>4 DEF Picked, at
<1>6. [i \in DOMAIN named |-> named[i].names] \in Seq(MidLists)
  BY <1>3, <1>5
<1> QED BY <1>6 DEF GetGroupsByName, at

\* RefreshEstablishedBundleGroupsByMid makes the lookup exact.
LEMMA RefreshIsExact ==
    ASSUME NEW b, DOMAIN b = ManagerFields,
           b.shared \in BOOLEAN, b.defined,
           b.groups \in Seq(MidLists),
           b.stable \in Seq(MidLists), ~HaveCommonMid(b.stable)
    PROVE  IsManager(RefreshEstablishedBundleGroupsByMid(b))
<1> DEFINE mids == UNION {ToSet(b.groups[i]) : i \in DOMAIN b.groups}
           LastWith(m) == CHOOSE i \in DOMAIN b.groups :
                           /\ Contains(b.groups[i], m)
                           /\ \A j \in i + 1 .. Len(b.groups) : ~Contains(b.groups[j], m)
           byMid == [m \in mids |-> LastWith(m)]
           r == RefreshEstablishedBundleGroupsByMid(b)
<1>1. /\ DOMAIN r = DOMAIN b /\ r.shared = (b.shared \/ HaveCommonMid(b.groups))
      /\ r.defined = b.defined /\ r.groups = b.groups /\ r.stable = b.stable /\ r.byMid = byMid
  BY DEF RefreshEstablishedBundleGroupsByMid, ManagerFields
<1>2. r.shared \in BOOLEAN
  BY <1>1 DEF HaveCommonMid
<1>3. ASSUME ~HaveCommonMid(b.groups) PROVE IsLookup(byMid, b.groups)
  <2>1. ASSUME NEW m \in mids
        PROVE  LastWith(m) \in DOMAIN b.groups /\ m \in ToSet(b.groups[LastWith(m)])
    <3>1. PICK i \in DOMAIN b.groups : m \in ToSet(b.groups[i])
      OBVIOUS
    <3>0. \A j \in DOMAIN b.groups : \A x : Contains(b.groups[j], x) <=> x \in ToSet(b.groups[j])
      BY DEF MidLists, ToSet, Contains
    <3>2. Contains(b.groups[i], m)
      BY <3>0, <3>1
    <3>3. \A j \in DOMAIN b.groups : j # i => ~Contains(b.groups[j], m)
      BY <1>3, <3>0, <3>1 DEF HaveCommonMid
    <3>4. \A j \in i + 1 .. Len(b.groups) : j \in DOMAIN b.groups /\ j # i
      OBVIOUS
    <3>5. LastWith(m) \in DOMAIN b.groups /\ Contains(b.groups[LastWith(m)], m)
      BY <3>2, <3>3, <3>4
    <3> QED BY <3>0, <3>5
  <2> QED BY <2>1 DEF IsLookup
<1> HIDE DEF r, byMid
<1>4. IsManager(r)
  BY <1>1, <1>2, <1>3 DEF IsManager, GoodBundles
<1> QED BY <1>4 DEF r

\* An offer's groups take the places of established ones.
LEMMA ReplacedAreMidLists ==
    ASSUME NEW b, DOMAIN b = ManagerFields, b.groups \in Seq(MidLists),
           NEW bundles \in Seq(MidLists)
    PROVE  LET r == ReplaceGroups(b, bundles)
           IN  /\ DOMAIN r = ManagerFields /\ r.groups \in Seq(MidLists)
               /\ r.stable = b.stable /\ r.shared = b.shared /\ r.defined = b.defined
<1> DEFINE gs == [place \in DOMAIN b.groups |->
                    IF Replacing(b, bundles, place) = {} THEN b.groups[place]
                    ELSE bundles[Max(Replacing(b, bundles, place))]]
           r == ReplaceGroups(b, bundles)
<1>1. ASSUME NEW place \in DOMAIN b.groups PROVE gs[place] \in MidLists
  <2>1. Replacing(b, bundles, place) \in SUBSET (1 .. Len(bundles)) /\ Len(bundles) \in Nat
    BY DEF Replacing
  <2>2. CASE Replacing(b, bundles, place) # {}
    <3>1. Max(Replacing(b, bundles, place)) \in 1 .. Len(bundles)
      BY <2>1, <2>2, MaxIsIn
    <3>2. bundles[Max(Replacing(b, bundles, place))] \in MidLists
      BY <3>1
    <3> QED BY <2>2, <3>2
  <2> QED BY <2>2
<1>2. DOMAIN gs = 1 .. Len(b.groups) /\ Len(b.groups) \in Nat
  OBVIOUS
<1> HIDE DEF gs
<1>3. gs \in Seq(MidLists)
  <2> DEFINE n == Len(b.groups)
  <2>1. gs = [i \in 1 .. n |-> gs[i]]
    BY <1>2 DEF gs
  <2>2. \A i \in 1 .. n : gs[i] \in MidLists
    BY <1>1, <1>2
  <2>3. n \in Nat
    BY <1>2
  <2> HIDE DEF n
  <2>4. [i \in 1 .. n |-> gs[i]] \in Seq(MidLists)
    BY <2>2, <2>3
  <2> QED BY <2>1, <2>4
<1>4. r = [b EXCEPT !.groups = gs]
  BY DEF ReplaceGroups, gs
<1> HIDE DEF r
<1>5. /\ DOMAIN r = ManagerFields /\ r.groups = gs /\ r.stable = b.stable
      /\ r.shared = b.shared /\ r.defined = b.defined
  BY <1>4 DEF ManagerFields
<1> QED BY <1>3, <1>5 DEF r

\* That groups have had a mid in common is not forgotten.
LEMMA UpdateRemembers ==
    ASSUME NEW b, DOMAIN b = ManagerFields, b.shared, NEW groups, NEW type
    PROVE  LET r == UpdateBundles(b, groups, type)
           IN  DOMAIN r = ManagerFields /\ (b.shared \in BOOLEAN => r.shared)
<1> DEFINE bundles == GetGroupsByName(groups, "BUNDLE")
<1>1. ASSUME NEW c, DOMAIN c = ManagerFields, c.shared
      PROVE  LET r == RefreshEstablishedBundleGroupsByMid(c) IN DOMAIN r = ManagerFields /\ r.shared
  BY <1>1 DEF RefreshEstablishedBundleGroupsByMid, ManagerFields
<1>2. LET r == [b EXCEPT !.groups = bundles] IN DOMAIN r = ManagerFields /\ r.shared
  BY DEF ManagerFields
<1>3. LET r == ReplaceGroups(b, bundles) IN DOMAIN r = ManagerFields /\ r.shared
  BY DEF ReplaceGroups, ManagerFields
<1> QED BY <1>1, <1>2, <1>3 DEF UpdateBundles

\* Update leaves an exact lookup, whichever of its branches it takes.
LEMMA UpdateKeeps ==
    ASSUME NEW b, IsManager(b), NEW groups \in GroupLists, NEW type
    PROVE  IsManager(UpdateBundles(b, groups, type))
<1> DEFINE bundles == GetGroupsByName(groups, "BUNDLE")
<1>1. CASE b.shared
  BY <1>1, UpdateRemembers DEF IsManager, ManagerFields
<1>2. CASE ~b.shared
  <2>1. GoodBundles(b) /\ DOMAIN b = ManagerFields /\ b.shared \in BOOLEAN
    BY <1>2 DEF IsManager, ManagerFields
  <2>2. bundles \in Seq(MidLists)
    BY BundlesAreMidLists
  <2> HIDE DEF bundles
  <2>3. IsManager(RefreshEstablishedBundleGroupsByMid([b EXCEPT !.groups = bundles]))
    <3> DEFINE r == [b EXCEPT !.groups = bundles]
    <3>1. /\ DOMAIN r = ManagerFields /\ r.groups = bundles /\ r.stable = b.stable
          /\ r.shared = b.shared /\ r.defined = b.defined
      BY <2>1 DEF ManagerFields
    <3> HIDE DEF r
    <3>2. IsManager(RefreshEstablishedBundleGroupsByMid(r))
      BY <2>1, <2>2, <3>1, RefreshIsExact DEF GoodBundles, ManagerFields
    <3> QED BY <3>2 DEF r
  <2>4. IsManager(RefreshEstablishedBundleGroupsByMid(ReplaceGroups(b, bundles)))
    BY <2>1, <2>2, ReplacedAreMidLists, RefreshIsExact DEF GoodBundles, ManagerFields
  <2> QED BY <2>3, <2>4 DEF UpdateBundles, bundles
<1> QED BY <1>1, <1>2


\* What RemoveAt leaves of a list.
LEMMA RemoveAtIs ==
    ASSUME NEW S, NEW s \in Seq(S), NEW p \in 1 .. Len(s)
    PROVE  /\ RemoveAt(s, p) \in Seq(S)
           /\ DOMAIN RemoveAt(s, p) = 1 .. Len(s) - 1
           /\ \A i \in 1 .. Len(s) - 1 : RemoveAt(s, p)[i] = IF i < p THEN s[i] ELSE s[i + 1]
<1> DEFINE n == Len(s)
           front == SubSeq(s, 1, p - 1)
           back == SubSeq(s, p + 1, n)
<1>1. n \in Nat /\ p \in Nat /\ p >= 1 /\ p <= n
  OBVIOUS
<1>2. /\ front \in Seq(S) /\ Len(front) = p - 1
      /\ \A i \in 1 .. p - 1 : front[i] = s[i]
  BY <1>1, SubSeqProperties
<1>3. /\ back \in Seq(S) /\ Len(back) = n - p
      /\ \A i \in 1 .. n - p : back[i] = s[p + i]
  BY <1>1, SubSeqProperties
<1> HIDE DEF front, back
<1>4. /\ front \o back \in Seq(S) /\ Len(front \o back) = n - 1
      /\ \A i \in 1 .. n - 1 :
             (front \o back)[i] = IF i <= p - 1 THEN front[i] ELSE back[i - (p - 1)]
  <2>1. /\ front \o back \in Seq(S) /\ Len(front \o back) = Len(front) + Len(back)
        /\ \A i \in 1 .. Len(front) + Len(back) :
               (front \o back)[i] = IF i <= Len(front) THEN front[i] ELSE back[i - Len(front)]
    BY <1>2, <1>3, ConcatProperties
  <2>2. Len(front) + Len(back) = n - 1
    BY <1>1, <1>2, <1>3
  <2> HIDE DEF n
  <2> QED BY <1>2, <2>1, <2>2
<1>5. ASSUME NEW i \in 1 .. n - 1
      PROVE  (front \o back)[i] = IF i < p THEN s[i] ELSE s[i + 1]
  <2>1. CASE i < p
    BY <1>1, <1>2, <1>4, <2>1
  <2>2. CASE ~(i < p)
    <3>1. i - (p - 1) \in 1 .. n - p /\ p + (i - (p - 1)) = i + 1
      BY <1>1, <2>2
    <3> QED BY <1>1, <1>3, <1>4, <2>2, <3>1
  <2> QED BY <2>1, <2>2
<1>6. RemoveAt(s, p) = front \o back
  BY DEF RemoveAt, front, back
<1>7. DOMAIN (front \o back) = 1 .. n - 1
  BY <1>4
<1> QED BY <1>4, <1>5, <1>6, <1>7

\* RemoveContentName takes one mid out of a list that has it.
LEMMA OneMidLess ==
    ASSUME NEW g \in MidLists, NEW mid \in ToSet(g)
    PROVE  /\ RemoveContentName(g, mid) \in MidLists
           /\ ToSet(RemoveContentName(g, mid)) = ToSet(g) \ {mid}
<1> DEFINE n == Len(g)
           T == {i \in 1 .. n : g[i] = mid}
           p == Min(T)
           r == RemoveAt(g, p)
<1>1. g \in Seq(STRING) /\ n \in Nat /\ DOMAIN g = 1 .. n
  BY DEF MidLists
<1>2. \A i, j \in 1 .. n : g[i] = g[j] => i = j
  BY <1>1 DEF MidLists
<1>3. T \in SUBSET Nat /\ T # {} /\ \E i \in 1 .. n : g[i] = mid
  BY <1>1 DEF ToSet
<1>4. p \in 1 .. n /\ g[p] = mid
  BY <1>3, MinIsIn
<1>5. RemoveContentName(g, mid) = r
  BY <1>3 DEF RemoveContentName, RemoveFirst, SelectInSeq
<1> HIDE DEF p
<1>6. /\ r \in Seq(STRING) /\ DOMAIN r = 1 .. n - 1
      /\ \A i \in 1 .. n - 1 : r[i] = IF i < p THEN g[i] ELSE g[i + 1]
  BY <1>1, <1>4, RemoveAtIs
<1> HIDE DEF r, n
<1>7. ASSUME NEW i \in 1 .. n - 1, NEW j \in 1 .. n - 1, r[i] = r[j] PROVE i = j
  <2> DEFINE At(k) == IF k < p THEN k ELSE k + 1
  <2>1. At(i) \in 1 .. n /\ At(j) \in 1 .. n /\ g[At(i)] = r[i] /\ g[At(j)] = r[j]
    BY <1>1, <1>4, <1>6
  <2>2. At(i) = At(j)
    BY <1>2, <1>7, <2>1
  <2> QED BY <1>1, <1>4, <2>2
<1>8. \A x \in ToSet(r) : x \in ToSet(g) \ {mid}
  <2>1. ASSUME NEW i \in 1 .. n - 1 PROVE r[i] \in ToSet(g) \ {mid}
    <3> DEFINE k == IF i < p THEN i ELSE i + 1
    <3>1. k \in 1 .. n /\ k # p /\ r[i] = g[k]
      BY <1>1, <1>4, <1>6
    <3>2. g[k] # mid
      BY <1>2, <1>4, <3>1
    <3> QED BY <1>1, <3>1, <3>2 DEF ToSet
  <2> QED BY <1>6, <2>1 DEF ToSet
<1>9. \A x \in ToSet(g) \ {mid} : x \in ToSet(r)
  <2>1. ASSUME NEW k \in 1 .. n, k # p PROVE g[k] \in ToSet(r)
    <3> DEFINE i == IF k < p THEN k ELSE k - 1
    <3>1. i \in 1 .. n - 1 /\ r[i] = g[k]
      BY <1>1, <1>4, <1>6, <2>1
    <3> QED BY <1>6, <3>1 DEF ToSet
  <2> QED BY <1>1, <1>4, <2>1 DEF ToSet
<1> QED BY <1>5, <1>6, <1>7, <1>8, <1>9 DEF MidLists

\* A mid that is erased is that of one group and one entry of the lookup.
LEMMA DeleteMidKeeps ==
    ASSUME NEW b, IsManager(b), NEW mid \in DOMAIN b.byMid
    PROVE  IsManager(DeleteMid(b, LookupGroupByMid(b, mid), mid))
<1> DEFINE place == LookupGroupByMid(b, mid)
           r == DeleteMid(b, place, mid)
           group == RemoveContentName(b.groups[place], mid)
           gs == [b.groups EXCEPT ![place] = group]
           by == [m \in DOMAIN b.byMid \ {mid} |-> b.byMid[m]]
<1>0. DOMAIN b = ManagerFields
  BY DEF IsManager, ManagerFields
<1>1. /\ DOMAIN r = ManagerFields /\ r.shared = b.shared /\ r.stable = b.stable
      /\ r.groups = gs /\ r.byMid = by
      /\ r.defined = (b.defined /\ mid \in DOMAIN b.byMid)
  BY <1>0 DEF ManagerFields, DeleteMid, Restrict
<1>2. CASE ~b.shared
  <2>1. GoodBundles(b)
    BY <1>2 DEF IsManager
  <2>2. b.groups \in Seq(MidLists) /\ ~HaveCommonMid(b.groups)
    BY <2>1 DEF GoodBundles
  <2>3. /\ DOMAIN b.byMid = UNION {ToSet(b.groups[i]) : i \in DOMAIN b.groups}
        /\ \A m \in DOMAIN b.byMid : b.byMid[m] \in DOMAIN b.groups
                                     /\ m \in ToSet(b.groups[b.byMid[m]])
    BY <2>1 DEF GoodBundles, IsLookup
  <2>4. place \in DOMAIN b.groups /\ mid \in ToSet(b.groups[place])
    BY <2>3 DEF LookupGroupByMid
  <2> HIDE DEF place
  <2>5. b.groups[place] \in MidLists
    BY <2>2, <2>4
  <2>6. group \in MidLists /\ ToSet(group) = ToSet(b.groups[place]) \ {mid}
    BY <2>4, <2>5, OneMidLess
  <2> HIDE DEF group
  <2>7. gs \in Seq(MidLists) /\ DOMAIN gs = DOMAIN b.groups
    BY <2>2, <2>4, <2>6
  <2>8. \A i \in DOMAIN gs : ToSet(gs[i]) = ToSet(b.groups[i]) \ {mid}
    <3>1. ToSet(gs[place]) = ToSet(b.groups[place]) \ {mid}
      BY <2>4, <2>6
    <3>2. ASSUME NEW i \in DOMAIN b.groups, i # place
          PROVE  gs[i] = b.groups[i] /\ mid \notin ToSet(b.groups[i])
      BY <2>2, <2>4, <3>2 DEF HaveCommonMid
    <3> QED BY <2>7, <3>1, <3>2
  <2> HIDE DEF gs, r
  <2>9. ~HaveCommonMid(gs)
    BY <2>2, <2>7, <2>8 DEF HaveCommonMid
  <2>10. IsLookup(by, gs)
    <3>1. DOMAIN by = UNION {ToSet(gs[i]) : i \in DOMAIN gs}
      <4>1. \A m \in DOMAIN b.byMid \ {mid} : \E i \in DOMAIN gs : m \in ToSet(gs[i])
        BY <2>3, <2>7, <2>8
      <4>2. \A i \in DOMAIN gs : \A m \in ToSet(gs[i]) : m \in DOMAIN b.byMid \ {mid}
        BY <2>3, <2>7, <2>8
      <4> QED BY <4>1, <4>2
    <3>2. \A m \in DOMAIN by : by[m] \in DOMAIN gs /\ m \in ToSet(gs[by[m]])
      BY <2>3, <2>7, <2>8
    <3> QED BY <3>1, <3>2 DEF IsLookup
  <2> HIDE DEF by
  <2>11. GoodBundles(r)
    BY <1>1, <2>1, <2>7, <2>9, <2>10 DEF GoodBundles
  <2>12. IsManager(r)
    BY <1>1, <1>2, <2>11 DEF IsManager, ManagerFields
  <2> QED BY <2>12 DEF r, place
<1>3. CASE b.shared
  BY <1>1, <1>3 DEF IsManager, ManagerFields
<1> QED BY <1>2, <1>3

\* When a group is erased, the ones behind it move up, and so does the lookup.
LEMMA DeleteGroupKeeps ==
    ASSUME NEW b, IsManager(b), NEW place \in DOMAIN b.groups
    PROVE  IsManager(DeleteGroup(b, place))
<1> DEFINE r == DeleteGroup(b, place)
           mids == ToSet(b.groups[place])
           gs == RemoveAt(b.groups, place)
           Up(k) == IF k > place THEN k - 1 ELSE k
           by == [m \in DOMAIN b.byMid \ mids |-> Up(b.byMid[m])]
<1>0. DOMAIN b = ManagerFields
  BY DEF IsManager, ManagerFields
<1>1. /\ DOMAIN r = ManagerFields /\ r.shared = b.shared /\ r.stable = b.stable
      /\ r.groups = gs /\ r.byMid = by
      /\ r.defined = (b.defined /\ mids \subseteq DOMAIN b.byMid)
  BY <1>0 DEF ManagerFields, DeleteGroup
<1>2. CASE ~b.shared
  <2>1. GoodBundles(b)
    BY <1>2 DEF IsManager
  <2>2. b.groups \in Seq(MidLists) /\ ~HaveCommonMid(b.groups)
    BY <2>1 DEF GoodBundles
  <2>3. /\ DOMAIN b.byMid = UNION {ToSet(b.groups[i]) : i \in DOMAIN b.groups}
        /\ \A m \in DOMAIN b.byMid : b.byMid[m] \in DOMAIN b.groups
                                     /\ m \in ToSet(b.groups[b.byMid[m]])
    BY <2>1 DEF GoodBundles, IsLookup
  <2> DEFINE n == Len(b.groups)
             Old(i) == IF i < place THEN i ELSE i + 1
  <2>4. n \in Nat /\ DOMAIN b.groups = 1 .. n /\ place \in 1 .. n
    BY <2>2
  <2>5. /\ gs \in Seq(MidLists) /\ DOMAIN gs = 1 .. n - 1
        /\ \A i \in 1 .. n - 1 : gs[i] = b.groups[Old(i)]
    BY <2>2, <2>4, RemoveAtIs
  <2> HIDE DEF n, gs, r, mids
  <2>6. \A i \in 1 .. n - 1 : Old(i) \in 1 .. n /\ Old(i) # place
    BY <2>4
  <2>7. \A i, j \in 1 .. n - 1 : i # j => Old(i) # Old(j)
    BY <2>4
  <2>8. \A k \in 1 .. n : k # place => Up(k) \in 1 .. n - 1 /\ Old(Up(k)) = k
    BY <2>4
  <2>9. ~HaveCommonMid(gs)
    <3>1. ASSUME NEW i \in 1 .. n - 1, NEW j \in 1 .. n - 1, i # j
          PROVE  ToSet(gs[i]) \cap ToSet(gs[j]) = {}
      <4>1. gs[i] = b.groups[Old(i)] /\ gs[j] = b.groups[Old(j)]
        BY <2>5
      <4>2. Old(i) \in DOMAIN b.groups /\ Old(j) \in DOMAIN b.groups /\ Old(i) # Old(j)
        BY <2>4, <2>6, <2>7, <3>1
      <4> HIDE DEF Old
      <4> QED BY <2>2, <4>1, <4>2 DEF HaveCommonMid
    <3> QED BY <2>5, <3>1 DEF HaveCommonMid
  <2>10. \A k \in 1 .. n : k # place => ToSet(b.groups[k]) \cap mids = {}
    BY <2>2, <2>4 DEF HaveCommonMid, mids
  <2>11. ASSUME NEW m \in DOMAIN b.byMid \ mids
         PROVE  Up(b.byMid[m]) \in DOMAIN gs /\ m \in ToSet(gs[Up(b.byMid[m])])
    <3>1. b.byMid[m] \in 1 .. n /\ m \in ToSet(b.groups[b.byMid[m]])
      BY <2>3, <2>4
    <3>2. b.byMid[m] # place
      BY <3>1 DEF mids
    <3>3. Up(b.byMid[m]) \in 1 .. n - 1 /\ Old(Up(b.byMid[m])) = b.byMid[m]
      BY <2>8, <3>1, <3>2
    <3> HIDE DEF Up, Old
    <3> QED BY <2>5, <3>1, <3>3
  <2>12. ASSUME NEW i \in DOMAIN gs, NEW m \in ToSet(gs[i])
         PROVE  m \in DOMAIN b.byMid \ mids
    <3>1. Old(i) \in 1 .. n /\ Old(i) # place /\ m \in ToSet(b.groups[Old(i)])
      BY <2>5, <2>6
    <3> HIDE DEF Old
    <3> QED BY <2>3, <2>4, <2>10, <3>1
  <2>13. IsLookup(by, gs)
    <3> HIDE DEF Up
    <3>1. DOMAIN by = UNION {ToSet(gs[i]) : i \in DOMAIN gs}
      BY <2>11, <2>12
    <3>2. \A m \in DOMAIN by : by[m] \in DOMAIN gs /\ m \in ToSet(gs[by[m]])
      BY <2>11
    <3> QED BY <3>1, <3>2 DEF IsLookup
  <2>14. mids \subseteq DOMAIN b.byMid
    BY <2>3 DEF mids
  <2> HIDE DEF by
  <2>15. GoodBundles(r)
    BY <1>1, <2>1, <2>5, <2>9, <2>13, <2>14 DEF GoodBundles
  <2>16. IsManager(r)
    BY <1>1, <1>2, <2>15 DEF IsManager, ManagerFields
  <2> QED BY <2>16 DEF r
<1>3. CASE b.shared
  BY <1>1, <1>3 DEF IsManager, ManagerFields
<1> QED BY <1>2, <1>3

\* A new manager has no groups.
LEMMA NewIsManager == ASSUME NEW policy PROVE IsManager(NewBundleManager(policy))
<1> DEFINE new == NewBundleManager(policy)
<1>1. /\ DOMAIN new = ManagerFields /\ new.groups = <<>> /\ new.stable = <<>> /\ new.byMid = <<>>
      /\ new.shared = FALSE /\ new.defined
  BY DEF NewBundleManager, ManagerFields
<1>2. <<>> \in Seq(MidLists) /\ ~HaveCommonMid(<<>>) /\ IsLookup(<<>>, <<>>)
  BY DEF HaveCommonMid, IsLookup
<1> HIDE DEF new
<1>3. GoodBundles(new)
  BY <1>1, <1>2 DEF GoodBundles
<1>4. IsManager(new)
  BY <1>1, <1>3 DEF IsManager, ManagerFields
<1> QED BY <1>4 DEF new

\* A manager that goes back to the stable groups or keeps the
\* present ones.
LEMMA OthersKeep ==
    ASSUME NEW b, IsManager(b)
    PROVE  /\ IsManager(RollbackBundles(b))
           /\ IsManager(CommitBundles(b))
<1> DEFINE back == [b EXCEPT !.groups = b.stable]
           kept == CommitBundles(b)
<1>1. DOMAIN b = ManagerFields /\ b.shared \in BOOLEAN
  BY DEF IsManager, ManagerFields
<1>2. IsManager(RefreshEstablishedBundleGroupsByMid(back))
  <2>1. /\ DOMAIN back = ManagerFields /\ back.groups = b.stable /\ back.stable = b.stable
        /\ back.shared = b.shared /\ back.defined = b.defined
    BY <1>1 DEF ManagerFields
  <2> HIDE DEF back
  <2>2. CASE b.shared
    <3> DEFINE r == RefreshEstablishedBundleGroupsByMid(back)
    <3>1. DOMAIN r = ManagerFields /\ r.shared = (back.shared \/ HaveCommonMid(back.groups))
      BY <2>1 DEF RefreshEstablishedBundleGroupsByMid, ManagerFields
    <3> HIDE DEF r
    <3>2. r.shared = TRUE
      BY <1>1, <2>1, <2>2, <3>1
    <3>3. IsManager(r)
      BY <3>1, <3>2 DEF IsManager, ManagerFields
    <3> QED BY <3>3 DEF r
  <2>3. CASE ~b.shared
    <3>1. GoodBundles(b)
      BY <2>3 DEF IsManager
    <3> QED BY <1>1, <2>1, <3>1, RefreshIsExact DEF GoodBundles, ManagerFields
  <2> QED BY <2>2, <2>3
<1>3. IsManager(kept)
  <2>1. /\ DOMAIN kept = ManagerFields /\ kept.groups = b.groups /\ kept.stable = b.groups
        /\ kept.byMid = b.byMid /\ kept.shared = b.shared /\ kept.defined = b.defined
    BY <1>1 DEF CommitBundles, ManagerFields
  <2> HIDE DEF kept
  <2>2. b.shared \/ GoodBundles(kept)
    BY <2>1 DEF IsManager, GoodBundles
  <2> QED BY <1>1, <2>1, <2>2 DEF IsManager, ManagerFields
<1> QED BY <1>2, <1>3 DEF RollbackBundles

\* An exact lookup gives every group one first mid (IsFirstMidInGroup).
LEMMA ExactLookup ==
    ASSUME BundleInv PROVE BundleMapIsExact
<1> SUFFICES ASSUME job.kind = "bundles", ~result.shared PROVE BundleMapIsExact
  BY DEF BundleMapIsExact
<1> DEFINE groups == result.groups
           byMid == result.byMid
<1>1. GoodBundles(result)
  BY DEF BundleInv, IsManager
<1>2. groups \in Seq(MidLists) /\ ~HaveCommonMid(groups) /\ result.defined
  BY <1>1 DEF GoodBundles
<1>3. /\ DOMAIN byMid = UNION {ToSet(groups[i]) : i \in DOMAIN groups}
      /\ \A m \in DOMAIN byMid : byMid[m] \in DOMAIN groups /\ m \in ToSet(groups[byMid[m]])
  BY <1>1 DEF GoodBundles, IsLookup
<1>4. ASSUME NEW place \in DOMAIN groups
      PROVE  {m \in DOMAIN byMid : byMid[m] = place} = ToSet(groups[place])
  <2>1. \A m \in DOMAIN byMid : byMid[m] = place => m \in ToSet(groups[place])
    BY <1>3
  <2>2. ASSUME NEW m \in ToSet(groups[place]) PROVE m \in DOMAIN byMid /\ byMid[m] = place
    <3>1. m \in DOMAIN byMid
      BY <1>3
    <3>2. byMid[m] \in DOMAIN groups /\ m \in ToSet(groups[byMid[m]])
      BY <1>3, <3>1
    <3>3. byMid[m] # place => m \in ToSet(groups[byMid[m]]) \cap ToSet(groups[place])
      BY <3>2
    <3> HIDE DEF groups, byMid
    <3> QED BY <1>2, <3>1, <3>2, <3>3 DEF HaveCommonMid
  <2> QED BY <2>1, <2>2
<1>5. ASSUME NEW place \in DOMAIN groups, groups[place] # <<>>
      PROVE  Cardinality({m \in ToSet(groups[place]) : IsFirstMidInGroup(result, m)}) = 1
  <2> DEFINE g == groups[place]
             leaders == {m \in ToSet(g) : IsFirstMidInGroup(result, m)}
  <2>1. g \in MidLists
    BY <1>2
  <2>2. g \in Seq(STRING)
    BY <2>1 DEF MidLists
  <2>3. Head(g) \in ToSet(g)
    <3> HIDE DEF g
    <3>1. Len(g) \in Nat /\ Len(g) # 0 /\ Head(g) = g[1]
      BY <1>5, <2>2 DEF g
    <3>2. 1 \in DOMAIN g
      BY <2>2, <3>1
    <3> QED BY <3>1, <3>2 DEF ToSet
  <2>4. \A m \in ToSet(g) : LookupGroupByMid(result, m) = place
    BY <1>4 DEF LookupGroupByMid
  <2>5. place # 0
    BY <1>2
  <2>6. \A m \in ToSet(g) : IsFirstMidInGroup(result, m) <=> m = Head(g)
    BY <2>4, <2>5 DEF IsFirstMidInGroup
  <2>7. leaders = {Head(g)}
    BY <2>3, <2>6
  <2>8. Cardinality({Head(g)}) = 1
    BY FS_Singleton
  <2> QED BY <2>7, <2>8
<1> QED BY <1>2, <1>3, <1>4, <1>5 DEF BundleMapIsExact

\* The lookup by mid finds exactly the group that has the mid and nothing past
\* its end is erased, whatever is updated, deleted, rolled back and committed,
\* for any groups that descriptions may have: until two groups have a mid in
\* common, and the manager has seen it then (BundleManager).
THEOREM BundleLookupIsExact == Calls => []BundleMapIsExact
<1>1. NoCall => BundleInv
  BY DEF NoCall, Idle, BundleInv
<1>2. BundleInv /\ [Call]_calls => BundleInv'
  <2> SUFFICES ASSUME BundleInv, [Call]_calls PROVE BundleInv'
    OBVIOUS
  <2>1. ASSUME job'.kind # "bundles" PROVE BundleInv'
    BY <2>1 DEF BundleInv
  <2>2. CASE AskStreams
    BY <2>1, <2>2 DEF AskStreams
  <2>3. CASE AskTypes
    BY <2>1, <2>3 DEF AskTypes
  <2>4. CASE AskSettings
    BY <2>1, <2>4 DEF AskSettings
  <2>5. CASE AskSelection
    BY <2>1, <2>5 DEF AskSelection
  <2>6. CASE AskExtensions
    BY <2>1, <2>6 DEF AskExtensions
  <2>7. CASE AskStatistics
    BY <2>1, <2>7 DEF AskStatistics
  <2>8. CASE AskDescription
    BY <2>1, <2>8 DEF AskDescription
  <2>9. CASE AskParameters
    BY <2>1, <2>9 DEF AskParameters
  <2>10. CASE AskEncoderSettings
    BY <2>1, <2>10 DEF AskEncoderSettings
  <2>11. CASE AskOwnExtensions
    BY <2>1, <2>11 DEF AskOwnExtensions
  <2>12. CASE Return
    BY <2>1, <2>12 DEF Return, Idle
  <2>13. CASE StartBundles
    <3>1. PICK policy : result' = NewBundleManager(policy)
      BY <2>13 DEF StartBundles
    <3>2. IsManager(result')
      BY <3>1, NewIsManager
    <3> QED BY <3>2 DEF BundleInv
  <2>14. ASSUME BundlesInUse, UNCHANGED job, IsManager(result) => IsManager(result')
         PROVE  BundleInv'
    BY <2>14 DEF BundleInv, BundlesInUse
  <2>15. CASE UpdateGroups
    BY <2>14, <2>15, UpdateKeeps DEF UpdateGroups
  <2>16. CASE DeleteAMid
    BY <2>14, <2>16, DeleteMidKeeps DEF DeleteAMid
  <2>17. CASE DeleteAGroup
    BY <2>14, <2>17, DeleteGroupKeeps DEF DeleteAGroup
  <2>18. CASE Rollback
    BY <2>14, <2>18, OthersKeep DEF Rollback
  <2>19. CASE Commit
    BY <2>14, <2>19, OthersKeep DEF Commit
  <2>20. CASE UNCHANGED calls
    BY <2>20 DEF BundleInv, IsManager, GoodBundles, calls
  <2> QED
    BY <2>2, <2>3, <2>4, <2>5, <2>6, <2>7, <2>8, <2>9, <2>10, <2>11,
       <2>12, <2>13, <2>15, <2>16, <2>17, <2>18, <2>19, <2>20 DEF Call
<1>3. QED BY <1>1, <1>2, ExactLookup, PTL DEF Calls
=============================================================================
