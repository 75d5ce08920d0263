----------------------- MODULE TransportWrappersProofs -----------------------
(***************************************************************************)
(* The invariants of TransportWrappers for every set of DTLS transports.   *)
(* What has to be added to make them inductive is what holds in the middle *)
(* of Clear, where the transport is taken and the snapshot not yet         *)
(* renewed, and how subscriptions and the SctpTransport's pointer relate.  *)
(***************************************************************************)
EXTENDS TransportWrappers, TLAPS

DtlsRecord ==
    [state : DtlsStates, owned : BOOLEAN, exists : BOOLEAN, ice : BOOLEAN,
     info : DtlsStates, tls : {"none", "complete", "partial"},
     observer : BOOLEAN, told : DtlsStates \cup {"nothing"}, sctp : BOOLEAN]

SctpRecord ==
    [owned : BOOLEAN, state : SctpStates,
     dtls : Transports \cup {Null}, infoDtls : Transports \cup {Null},
     started : BOOLEAN, late : BOOLEAN, observer : BOOLEAN, told : SctpStates \cup {"nothing"}]

\* Clear has taken the transport of t and not yet renewed the snapshot.
Taking(t) == net.at = "taken" /\ net.t = t

\* A wrapper whose snapshot is current; in the middle of Clear it still is
\* the state of the transport that was taken.
Good(d, taking) ==
    /\ d.info = IF d.owned \/ taking THEN d.state ELSE "closed"
    /\ d.told \in {"nothing", d.info}
    /\ ~d.observer => d.told = "nothing"
    /\ d.tls # "none" <=> d.info = "connected"
    /\ d.ice => d.owned
    /\ d.owned => d.exists

AllGood == \A t \in Transports : Good(dtls[t], Taking(t))

\* Between calls the thread is idle, and in Clear it has the transport.
NetIsInClear ==
    /\ net.at = "idle" => net = Idle
    /\ net.at # "idle" => net.t \in Transports /\ ~dtls[net.t].owned
    /\ net.at = "taken" => net.event = (dtls[net.t].state # "closed")

GoodSctp(s) ==
    /\ s.told \in {"nothing", s.state}
    /\ ~s.observer => s.told = "nothing"
    /\ ~s.owned => s.state = "closed"

\* A subscription that is still live is the one to the transport in use.
SubscribedToTheCurrent ==
    ~misused => /\ sctp.dtls # Null => dtls[sctp.dtls].sctp
                /\ \A t \in Transports : dtls[t].sctp /\ dtls[t].owned => sctp.dtls = t

SeenAreClosed == \A t \in Watched : seen[t] => dtls[t].info = "closed"

IInv ==
    /\ TypeOK
    /\ AllGood
    /\ NetIsInClear
    /\ GoodSctp(sctp) /\ sctp.infoDtls = sctp.dtls
    /\ SubscribedToTheCurrent
    /\ WithoutDtlsOnlyIfLate
    /\ CrashNeedsStaleSubscription
    /\ SeenAreClosed

-----------------------------------------------------------------------------
(* What the operators do to a wrapper *)

\* The parts of Good that a change of the transport's state cannot disturb.
Sound(d) ==
    /\ ~d.observer => d.told = "nothing"
    /\ d.ice => d.owned
    /\ d.owned => d.exists

\* OnInternalDtlsState leaves the transport alone and makes the snapshot
\* current.
LEMMA InternalStateIsGood ==
    ASSUME NEW d \in DtlsRecord, Sound(d), NEW complete \in BOOLEAN
    PROVE  LET e == OnInternalDtlsState(d, complete)
           IN  /\ e \in DtlsRecord /\ Good(e, FALSE)
               /\ e.owned = d.owned /\ e.state = d.state /\ e.sctp = d.sctp
               /\ e.info = IF d.owned THEN d.state ELSE "closed"
<1> USE DEF DtlsRecord
<1>1. Updated(d, complete) \in DtlsRecord
  BY DEF Updated, DtlsStates
<1>2. OnInternalDtlsState(d, complete) \in DtlsRecord
  BY <1>1 DEF OnInternalDtlsState, Told
<1> QED BY <1>1, <1>2 DEF OnInternalDtlsState, Told, Updated, Good, Sound, DtlsStates

\* The end of Clear does the same to a transport that was taken.
LEMMA ClearedIsGood ==
    ASSUME NEW d \in DtlsRecord, Good(d, TRUE), ~d.owned
    PROVE  LET e == IF d.state # "closed" THEN Told(Updated(d, FALSE)) ELSE Updated(d, FALSE)
           IN  /\ e \in DtlsRecord /\ Good(e, FALSE)
               /\ e.owned = d.owned /\ e.state = d.state /\ e.sctp = d.sctp
               /\ e.info = "closed"
BY DEF DtlsRecord, Updated, Told, Good, DtlsStates

\* UpdateInformation of the SctpTransport tells the observer of a new state.
LEMMA SctpUpdatedIsGood ==
    ASSUME NEW s \in SctpRecord, NEW state \in SctpStates, GoodSctp(s),
           ~s.owned => state = "closed"
    PROVE  LET e == SctpUpdated(s, state)
           IN  /\ e \in SctpRecord /\ GoodSctp(e) /\ e.infoDtls = e.dtls
               /\ e.owned = s.owned /\ e.state = state /\ e.dtls = s.dtls
               /\ e.late = s.late
BY DEF SctpRecord, SctpUpdated, GoodSctp

\* The types, with the records named, before and after a step.
LEMMA Types ==
    /\ TypeOK <=> /\ dtls \in [Transports -> DtlsRecord]
                  /\ sctp \in SctpRecord
                  /\ net \in [at : {"idle", "taken", "release"},
                               t : Transports \cup {Null}, event : BOOLEAN]
                  /\ seen \in [Watched -> BOOLEAN]
                  /\ signals \in BOOLEAN /\ crashed \in BOOLEAN /\ misused \in BOOLEAN
    /\ TypeOK' <=> /\ dtls' \in [Transports -> DtlsRecord]
                   /\ sctp' \in SctpRecord
                   /\ net' \in [at : {"idle", "taken", "release"},
                                 t : Transports \cup {Null}, event : BOOLEAN]
                   /\ seen' \in [Watched -> BOOLEAN]
                   /\ signals' \in BOOLEAN /\ crashed' \in BOOLEAN /\ misused' \in BOOLEAN
BY DEF TypeOK, DtlsRecord, SctpRecord

-----------------------------------------------------------------------------
\* It holds initially.
LEMMA InitIInv == Init => IInv
<1> SUFFICES ASSUME Init PROVE IInv
  OBVIOUS
<1> USE DEF Init, NewDtls, NewSctp, Idle
<1>1. TypeOK
  BY DEF TypeOK, DtlsStates, SctpStates
<1>2. AllGood
  BY DEF AllGood, Good, Taking
<1>3. NetIsInClear /\ GoodSctp(sctp) /\ sctp.infoDtls = sctp.dtls
  BY DEF NetIsInClear, GoodSctp
<1>4. SubscribedToTheCurrent /\ WithoutDtlsOnlyIfLate /\ CrashNeedsStaleSubscription
  BY DEF SubscribedToTheCurrent, WithoutDtlsOnlyIfLate, CrashNeedsStaleSubscription
<1>5. SeenAreClosed
  BY DEF SeenAreClosed
<1> QED BY <1>1, <1>2, <1>3, <1>4, <1>5 DEF IInv

\* OnDtlsStateChange closes the SctpTransport or leaves it; only a
\* subscription to a transport that is not in use makes it abort.
LEMMA StateChange ==
    ASSUME IInv, NEW t \in Transports, NEW state \in DtlsStates, OnDtlsStateChange(t, state)
    PROVE  /\ sctp' \in SctpRecord /\ GoodSctp(sctp') /\ sctp'.infoDtls = sctp'.dtls
           /\ sctp'.dtls = sctp.dtls /\ crashed' \in BOOLEAN
           /\ sctp' = sctp \/ sctp'.state = "closed"
           /\ crashed' => crashed \/ (dtls[t].sctp /\ ~IsCurrentDtls(t))
           /\ dtls[t].sctp /\ IsCurrentDtls(t) /\ state \in Ended => sctp'.state = "closed"
<1>1. sctp \in SctpRecord /\ GoodSctp(sctp) /\ sctp.infoDtls = sctp.dtls /\ crashed \in BOOLEAN
  BY Types DEF IInv
<1>2. LET e == SctpUpdated(sctp, "closed")
      IN  /\ e \in SctpRecord /\ GoodSctp(e) /\ e.infoDtls = e.dtls
          /\ e.state = "closed" /\ e.dtls = sctp.dtls
  <2>1. "closed" \in SctpStates
    BY DEF SctpStates
  <2> QED BY <1>1, <2>1, SctpUpdatedIsGood
<1>3. CASE ~dtls[t].sctp
  BY <1>1, <1>3 DEF OnDtlsStateChange
<1>4. CASE dtls[t].sctp /\ ~IsCurrentDtls(t)
  BY <1>1, <1>4 DEF OnDtlsStateChange
<1>5. CASE dtls[t].sctp /\ IsCurrentDtls(t)
  <2>1. sctp' = (IF state \in Ended THEN SctpUpdated(sctp, "closed") ELSE sctp) /\ crashed' = crashed
    BY <1>5 DEF OnDtlsStateChange
  <2> QED BY <1>1, <1>2, <1>5, <2>1
<1> QED BY <1>3, <1>4, <1>5

-----------------------------------------------------------------------------
(* One lemma per action *)

\* SetDtlsState preserves the inductive invariant.
LEMMA SetDtlsStateIInv ==
    ASSUME IInv, NEW t \in Transports, NEW state \in DtlsStates, NEW complete \in BOOLEAN,
           SetDtlsState(t, state, complete)
    PROVE  IInv'
<1> USE DEF IInv
<1>0. /\ dtls \in [Transports -> DtlsRecord] /\ sctp \in SctpRecord
      /\ net \in [at : {"idle", "taken", "release"}, t : Transports \cup {Null}, event : BOOLEAN]
      /\ seen \in [Watched -> BOOLEAN]
      /\ signals \in BOOLEAN /\ crashed \in BOOLEAN /\ misused \in BOOLEAN
  BY Types
<1> DEFINE d == [dtls[t] EXCEPT !.state = state]
           e == OnInternalDtlsState(d, complete)
<1>1. /\ Quiet /\ dtls[t].owned /\ state \in DtlsSteps(dtls[t].state)
      /\ dtls' = [dtls EXCEPT ![t] = e]
      /\ OnDtlsStateChange(t, state) /\ UNCHANGED <<net, seen, signals, misused>>
  BY DEF SetDtlsState
<1>2. /\ d \in DtlsRecord /\ Sound(d) /\ d.owned = dtls[t].owned /\ d.state = state
      /\ d.sctp = dtls[t].sctp
  BY <1>0, <1>1 DEF DtlsRecord, AllGood, Good, Sound
<1>3. /\ e \in DtlsRecord /\ Good(e, FALSE) /\ e.owned /\ e.state = state
      /\ e.sctp = dtls[t].sctp /\ e.info = state
  <2> HIDE DEF d
  <2>1. /\ e \in DtlsRecord /\ Good(e, FALSE)
        /\ e.owned = d.owned /\ e.state = d.state /\ e.sctp = d.sctp
        /\ e.info = IF d.owned THEN d.state ELSE "closed"
    BY <1>2, InternalStateIsGood, Zenon
  <2> HIDE DEF e
  <2> QED BY <1>1, <1>2, <2>1
<1> HIDE DEF e, d
<1>4. /\ sctp' \in SctpRecord /\ GoodSctp(sctp') /\ sctp'.infoDtls = sctp'.dtls
      /\ sctp'.dtls = sctp.dtls /\ crashed' \in BOOLEAN
      /\ sctp' = sctp \/ sctp'.state = "closed"
      /\ crashed' => crashed \/ (dtls[t].sctp /\ ~IsCurrentDtls(t))
      /\ dtls[t].sctp /\ IsCurrentDtls(t) /\ state \in Ended => sctp'.state = "closed"
  BY <1>1, StateChange
<1>5. TypeOK'
  BY <1>0, <1>1, <1>3, <1>4, Types
<1>6. AllGood' /\ NetIsInClear'
  BY <1>0, <1>1, <1>3 DEF AllGood, Taking, NetIsInClear, Quiet, Idle
<1>7. SubscribedToTheCurrent'
  BY <1>0, <1>1, <1>3, <1>4, TransportsAssumption DEF SubscribedToTheCurrent, SctpRecord
<1>8. WithoutDtlsOnlyIfLate'
  <2>1. SUFFICES ASSUME ~misused', ~crashed', sctp'.state = "connected"
                 PROVE  DtlsHasEnded' <=> sctp'.late
    BY DEF WithoutDtlsOnlyIfLate
  <2>2. sctp' = sctp /\ ~misused /\ ~crashed
    BY <1>1, <1>4, <2>1 DEF Quiet
  <2>3. DtlsHasEnded <=> sctp.late
    BY <2>1, <2>2 DEF WithoutDtlsOnlyIfLate
  <2>4. sctp.dtls # Null => sctp.dtls \in Transports /\ dtls[sctp.dtls].sctp
    BY <1>0, <2>2 DEF SubscribedToTheCurrent, SctpRecord
  <2>5. CASE sctp.dtls # t
    BY <1>0, <1>1, <2>2, <2>3, <2>4, <2>5 DEF DtlsHasEnded
  <2>6. CASE sctp.dtls = t
    <3>1. state \notin Ended
      BY <1>1, <1>4, <2>1, <2>4, <2>6, TransportsAssumption DEF IsCurrentDtls
    <3>2. dtls[t].state \notin Ended
      BY <1>1, <3>1 DEF DtlsSteps, Ended
    <3>3. dtls'[t].owned /\ dtls'[t].state = state
      BY <1>0, <1>1, <1>3
    <3> QED BY <1>1, <2>2, <2>3, <2>6, <3>1, <3>2, <3>3, TransportsAssumption DEF DtlsHasEnded
  <2> QED BY <2>5, <2>6
<1>9. CrashNeedsStaleSubscription'
  <2>1. ~crashed
    BY <1>1 DEF Quiet
  <2>2. crashed' => misused
    BY <1>1, <1>4, <2>1 DEF IsCurrentDtls, SubscribedToTheCurrent
  <2> QED BY <1>1, <2>2 DEF CrashNeedsStaleSubscription
<1>10. SeenAreClosed'
  <2>1. dtls[t].info # "closed"
    BY <1>1 DEF AllGood, Good, DtlsSteps
  <2> QED BY <1>0, <1>1, <2>1, TransportsAssumption DEF SeenAreClosed
<1> QED BY <1>4, <1>5, <1>6, <1>7, <1>8, <1>9, <1>10

\* RegisterObserver preserves the inductive invariant.
LEMMA RegisterObserverIInv ==
    ASSUME IInv, NEW t \in Transports, NEW on \in BOOLEAN, RegisterObserver(t, on)
    PROVE  IInv'
<1> USE DEF IInv
<1>0. /\ dtls \in [Transports -> DtlsRecord] /\ sctp \in SctpRecord
      /\ net \in [at : {"idle", "taken", "release"}, t : Transports \cup {Null}, event : BOOLEAN]
      /\ seen \in [Watched -> BOOLEAN]
      /\ signals \in BOOLEAN /\ crashed \in BOOLEAN /\ misused \in BOOLEAN
  BY Types
<1> DEFINE e == [dtls[t] EXCEPT !.observer = on, !.told = "nothing"]
<1>1. dtls' = [dtls EXCEPT ![t] = e] /\ UNCHANGED <<sctp, net, seen, signals, crashed, misused>>
  BY <1>0 DEF RegisterObserver
<1>2. /\ e \in DtlsRecord /\ Good(e, Taking(t)) /\ e.owned = dtls[t].owned
      /\ e.state = dtls[t].state /\ e.sctp = dtls[t].sctp /\ e.info = dtls[t].info
  BY <1>0 DEF DtlsRecord, AllGood, Good
<1> HIDE DEF e
<1>3. TypeOK'
  BY <1>0, <1>1, <1>2, Types
<1>4. AllGood' /\ NetIsInClear'
  BY <1>0, <1>1, <1>2 DEF AllGood, Taking, NetIsInClear
<1>5. SubscribedToTheCurrent' /\ WithoutDtlsOnlyIfLate' /\ SeenAreClosed'
  BY <1>0, <1>1, <1>2, TransportsAssumption
     DEF SubscribedToTheCurrent, WithoutDtlsOnlyIfLate, DtlsHasEnded, SeenAreClosed,
         SctpRecord
<1>6. CrashNeedsStaleSubscription'
  BY <1>0, <1>1, <1>2 DEF CrashNeedsStaleSubscription
<1> QED BY <1>1, <1>3, <1>4, <1>5, <1>6

\* Read preserves the inductive invariant.
LEMMA ReadIInv ==
    ASSUME IInv, NEW t \in Watched, Read(t)
    PROVE  IInv'
<1> USE DEF IInv
<1>0. /\ dtls \in [Transports -> DtlsRecord] /\ sctp \in SctpRecord
      /\ net \in [at : {"idle", "taken", "release"}, t : Transports \cup {Null}, event : BOOLEAN]
      /\ seen \in [Watched -> BOOLEAN]
      /\ signals \in BOOLEAN /\ crashed \in BOOLEAN /\ misused \in BOOLEAN
  BY Types
<1> USE DEF Read
<1>1. TypeOK'
  BY <1>0, Types
<1>2. AllGood' /\ NetIsInClear' /\ SubscribedToTheCurrent' /\ WithoutDtlsOnlyIfLate'
  BY DEF AllGood, Taking, NetIsInClear, SubscribedToTheCurrent, WithoutDtlsOnlyIfLate,
            DtlsHasEnded
<1>3. CrashNeedsStaleSubscription' /\ SeenAreClosed'
  BY <1>0 DEF CrashNeedsStaleSubscription, SeenAreClosed
<1> QED BY <1>1, <1>2, <1>3

\* SetSctpDtlsTransport preserves the inductive invariant.
LEMMA SetSctpDtlsTransportIInv ==
    ASSUME IInv, NEW t \in Transports \cup {Null}, SetSctpDtlsTransport(t)
    PROVE  IInv'
<1> USE DEF IInv
<1>0. /\ dtls \in [Transports -> DtlsRecord] /\ sctp \in SctpRecord
      /\ net \in [at : {"idle", "taken", "release"}, t : Transports \cup {Null}, event : BOOLEAN]
      /\ seen \in [Watched -> BOOLEAN]
      /\ signals \in BOOLEAN /\ crashed \in BOOLEAN /\ misused \in BOOLEAN
  BY Types
<1> DEFINE next == IF sctp.owned /\ t # Null /\ sctp.state = "new"
                   THEN "connecting" ELSE sctp.state
           s == [sctp EXCEPT !.dtls = t]
<1>1. /\ Quiet /\ sctp' = SctpUpdated(s, next)
      /\ dtls' = IF sctp.owned /\ t # Null THEN [dtls EXCEPT ![t].sctp = TRUE] ELSE dtls
      /\ misused' = (misused \/ sctp.dtls # Null \/ sctp.state # "new"
                     \/ t = Null \/ (t # Null /\ dtls[t].state # "new"))
      /\ UNCHANGED <<net, seen, signals, crashed>>
  BY DEF SetSctpDtlsTransport
<1>2. /\ s \in SctpRecord /\ GoodSctp(s) /\ s.dtls = t /\ s.owned = sctp.owned
      /\ next \in SctpStates /\ (~s.owned => next = "closed")
      /\ next = "connected" => sctp.state = "connected"
  BY <1>0 DEF SctpRecord, GoodSctp, SctpStates
<1>3. /\ sctp' \in SctpRecord /\ GoodSctp(sctp') /\ sctp'.infoDtls = sctp'.dtls
      /\ sctp'.state = next /\ sctp'.dtls = t
  <2> HIDE DEF s, next
  <2>1. LET e == SctpUpdated(s, next)
        IN  /\ e \in SctpRecord /\ GoodSctp(e) /\ e.infoDtls = e.dtls
            /\ e.owned = s.owned /\ e.state = next /\ e.dtls = s.dtls
    BY <1>2, SctpUpdatedIsGood, Zenon
  <2> QED BY <1>1, <1>2, <2>1
<1> HIDE DEF s, next
<1>4. \A u \in Transports :
          /\ dtls'[u] \in DtlsRecord /\ Good(dtls'[u], Taking(u))
          /\ dtls'[u].owned = dtls[u].owned /\ dtls'[u].info = dtls[u].info
          /\ dtls'[u].state = dtls[u].state
          /\ dtls[u].sctp => dtls'[u].sctp
          /\ u # t => dtls'[u].sctp = dtls[u].sctp
  <2> SUFFICES ASSUME NEW u \in Transports
               PROVE  /\ dtls'[u] \in DtlsRecord /\ Good(dtls'[u], Taking(u))
                      /\ dtls'[u].owned = dtls[u].owned /\ dtls'[u].info = dtls[u].info
                      /\ dtls'[u].state = dtls[u].state
                      /\ dtls[u].sctp => dtls'[u].sctp
                      /\ u # t => dtls'[u].sctp = dtls[u].sctp
    OBVIOUS
  <2>1. dtls[u] \in DtlsRecord /\ Good(dtls[u], Taking(u))
    BY <1>0 DEF AllGood
  <2>2. CASE dtls'[u] = dtls[u]
    BY <2>1, <2>2
  <2>3. CASE u = t /\ dtls'[u] = [dtls[u] EXCEPT !.sctp = TRUE]
    BY <2>1, <2>3 DEF DtlsRecord, Good
  <2> QED BY <1>0, <1>1, <2>2, <2>3
<1>5. dtls' \in [Transports -> DtlsRecord] /\ misused' \in BOOLEAN
  BY <1>0, <1>1, <1>4
<1>6. TypeOK'
  BY <1>0, <1>1, <1>3, <1>5, Types
<1>7. AllGood' /\ NetIsInClear'
  BY <1>0, <1>1, <1>4 DEF AllGood, Taking, NetIsInClear, Quiet, Idle
<1>8. SubscribedToTheCurrent'
  <2> SUFFICES ASSUME ~misused'
               PROVE  /\ sctp'.dtls # Null => dtls'[sctp'.dtls].sctp
                      /\ \A u \in Transports :
                             dtls'[u].sctp /\ dtls'[u].owned => sctp'.dtls = u
    BY DEF SubscribedToTheCurrent
  <2>1. ~misused /\ sctp.dtls = Null /\ sctp.state = "new" /\ t \in Transports
    BY <1>1
  <2>2. sctp.owned
    BY <2>1 DEF GoodSctp
  <2>3. dtls'[t].sctp
    BY <1>0, <1>1, <2>1, <2>2, TransportsAssumption DEF DtlsRecord
  <2>4. \A u \in Transports : ~(dtls[u].sctp /\ dtls[u].owned)
    BY <2>1, TransportsAssumption DEF SubscribedToTheCurrent
  <2> QED BY <1>3, <1>4, <2>1, <2>3, <2>4
<1>9. WithoutDtlsOnlyIfLate'
  <2>1. sctp'.state = "connected" => misused'
    BY <1>1, <1>2, <1>3
  <2> QED BY <2>1 DEF WithoutDtlsOnlyIfLate
<1>10. CrashNeedsStaleSubscription' /\ SeenAreClosed'
  BY <1>1, <1>4, TransportsAssumption DEF CrashNeedsStaleSubscription, SeenAreClosed, Quiet
<1> QED BY <1>3, <1>6, <1>7, <1>8, <1>9, <1>10

\* StartSctp preserves the inductive invariant.
LEMMA StartSctpIInv ==
    ASSUME IInv, NEW ok \in BOOLEAN, StartSctp(ok)
    PROVE  IInv'
<1> USE DEF IInv
<1>0. /\ dtls \in [Transports -> DtlsRecord] /\ sctp \in SctpRecord
      /\ net \in [at : {"idle", "taken", "release"}, t : Transports \cup {Null}, event : BOOLEAN]
      /\ seen \in [Watched -> BOOLEAN]
      /\ signals \in BOOLEAN /\ crashed \in BOOLEAN /\ misused \in BOOLEAN
  BY Types
<1> DEFINE s == [sctp EXCEPT !.started = TRUE]
<1>1. Quiet /\ UNCHANGED <<dtls, net, seen, signals>>
  BY DEF StartSctp
<1>2. /\ s \in SctpRecord /\ GoodSctp(s) /\ s.infoDtls = s.dtls
      /\ s.dtls = sctp.dtls /\ s.state = sctp.state /\ s.owned = sctp.owned
      /\ s.late = sctp.late
  BY <1>0 DEF SctpRecord, GoodSctp
<1>3. LET e == SctpUpdated(s, "closed")
      IN  /\ e \in SctpRecord /\ GoodSctp(e) /\ e.infoDtls = e.dtls
          /\ e.owned = s.owned /\ e.state = "closed" /\ e.dtls = s.dtls
          /\ e.late = s.late
  <2>1. "closed" \in SctpStates
    BY DEF SctpStates
  <2> HIDE DEF s
  <2> QED BY <1>2, <2>1, SctpUpdatedIsGood, Zenon
<1>4. \/ sctp' = sctp /\ crashed' = TRUE /\ misused' = TRUE
      \/ /\ sctp' = s \/ sctp' = SctpUpdated(s, "closed")
         /\ crashed' = crashed /\ misused' = misused
  BY DEF StartSctp
<1> HIDE DEF s
<1>5. /\ sctp' \in SctpRecord /\ GoodSctp(sctp') /\ sctp'.infoDtls = sctp'.dtls
      /\ sctp'.dtls = sctp.dtls /\ sctp'.state \in {sctp.state, "closed"}
      /\ sctp'.late = sctp.late
  BY <1>0, <1>2, <1>3, <1>4
<1>6. TypeOK'
  <2>1. crashed' \in BOOLEAN /\ misused' \in BOOLEAN
    BY <1>0, <1>4
  <2> QED BY <1>0, <1>1, <1>5, <2>1, Types
<1>7. AllGood' /\ NetIsInClear' /\ SeenAreClosed'
  BY <1>1 DEF AllGood, Taking, NetIsInClear, SeenAreClosed
<1>8. SubscribedToTheCurrent' /\ WithoutDtlsOnlyIfLate'
  BY <1>1, <1>4, <1>5 DEF SubscribedToTheCurrent, WithoutDtlsOnlyIfLate, DtlsHasEnded
<1>9. CrashNeedsStaleSubscription'
  BY <1>1, <1>4 DEF CrashNeedsStaleSubscription
<1> QED BY <1>5, <1>6, <1>7, <1>8, <1>9

\* AssociationUp preserves the inductive invariant.
LEMMA AssociationUpIInv ==
    ASSUME IInv, OnAssociationChangeCommunicationUp
    PROVE  IInv'
<1> USE DEF IInv
<1>0. /\ dtls \in [Transports -> DtlsRecord] /\ sctp \in SctpRecord
      /\ net \in [at : {"idle", "taken", "release"}, t : Transports \cup {Null}, event : BOOLEAN]
      /\ seen \in [Watched -> BOOLEAN]
      /\ signals \in BOOLEAN /\ crashed \in BOOLEAN /\ misused \in BOOLEAN
  BY Types
<1> DEFINE s == [sctp EXCEPT !.late = DtlsHasEnded]
<1>1. /\ Quiet /\ sctp.owned /\ sctp' = SctpUpdated(s, "connected")
      /\ UNCHANGED <<dtls, net, seen, signals, crashed, misused>>
  BY DEF OnAssociationChangeCommunicationUp
<1>2. /\ s \in SctpRecord /\ GoodSctp(s) /\ s.dtls = sctp.dtls /\ s.owned
      /\ s.late = DtlsHasEnded
  <2>1. DtlsHasEnded \in BOOLEAN
    BY DEF DtlsHasEnded
  <2> QED BY <1>0, <1>1, <2>1 DEF SctpRecord, GoodSctp
<1> HIDE DEF s
<1>3. /\ sctp' \in SctpRecord /\ GoodSctp(sctp') /\ sctp'.infoDtls = sctp'.dtls
      /\ sctp'.dtls = sctp.dtls /\ sctp'.late = DtlsHasEnded
  <2>1. "connected" \in SctpStates
    BY DEF SctpStates
  <2> QED BY <1>1, <1>2, <2>1, SctpUpdatedIsGood
<1>4. TypeOK'
  BY <1>0, <1>1, <1>3, Types
<1>5. AllGood' /\ NetIsInClear' /\ SeenAreClosed' /\ CrashNeedsStaleSubscription'
  BY <1>1 DEF AllGood, Taking, NetIsInClear, SeenAreClosed, CrashNeedsStaleSubscription
<1>6. SubscribedToTheCurrent' /\ WithoutDtlsOnlyIfLate'
  BY <1>1, <1>3 DEF SubscribedToTheCurrent, WithoutDtlsOnlyIfLate, DtlsHasEnded
<1> QED BY <1>3, <1>4, <1>5, <1>6

\* RegisterSctpObserver preserves the inductive invariant.
LEMMA RegisterSctpObserverIInv ==
    ASSUME IInv, NEW on \in BOOLEAN, RegisterSctpObserver(on)
    PROVE  IInv'
<1> USE DEF IInv
<1>0. /\ dtls \in [Transports -> DtlsRecord] /\ sctp \in SctpRecord
      /\ net \in [at : {"idle", "taken", "release"}, t : Transports \cup {Null}, event : BOOLEAN]
      /\ seen \in [Watched -> BOOLEAN]
      /\ signals \in BOOLEAN /\ crashed \in BOOLEAN /\ misused \in BOOLEAN
  BY Types
<1>1. /\ sctp' = [sctp EXCEPT !.observer = on, !.told = "nothing"]
      /\ UNCHANGED <<dtls, net, seen, signals, crashed, misused>>
  BY DEF RegisterSctpObserver
<1>2. /\ sctp' \in SctpRecord /\ GoodSctp(sctp') /\ sctp'.infoDtls = sctp'.dtls
      /\ sctp'.dtls = sctp.dtls /\ sctp'.state = sctp.state /\ sctp'.late = sctp.late
  BY <1>0, <1>1 DEF SctpRecord, GoodSctp
<1>3. TypeOK'
  BY <1>0, <1>1, <1>2, Types
<1>4. AllGood' /\ NetIsInClear' /\ SeenAreClosed' /\ CrashNeedsStaleSubscription'
  BY <1>1 DEF AllGood, Taking, NetIsInClear, SeenAreClosed, CrashNeedsStaleSubscription
<1>5. SubscribedToTheCurrent' /\ WithoutDtlsOnlyIfLate'
  BY <1>1, <1>2 DEF SubscribedToTheCurrent, WithoutDtlsOnlyIfLate, DtlsHasEnded
<1> QED BY <1>2, <1>3, <1>4, <1>5

\* Clear preserves the inductive invariant.
LEMMA ClearIInv ==
    ASSUME IInv, NEW t \in Transports, NEW jsep \in BOOLEAN, Clear(t, jsep)
    PROVE  IInv'
<1> USE DEF IInv
<1>0. /\ dtls \in [Transports -> DtlsRecord] /\ sctp \in SctpRecord
      /\ net \in [at : {"idle", "taken", "release"}, t : Transports \cup {Null}, event : BOOLEAN]
      /\ seen \in [Watched -> BOOLEAN]
      /\ signals \in BOOLEAN /\ crashed \in BOOLEAN /\ misused \in BOOLEAN
  BY Types
<1> DEFINE c == [sctp EXCEPT !.dtls = Null, !.owned = FALSE]
           cleared == [SctpCleared EXCEPT !.observer = FALSE, !.told = "nothing"]
<1>1. /\ Quiet /\ dtls[t].owned
      /\ sctp' = IF jsep /\ sctp.owned THEN cleared ELSE sctp
      /\ dtls' = [dtls EXCEPT ![t] = Taken(dtls[t])]
      /\ net' = [at |-> "taken", t |-> t, event |-> dtls[t].state # "closed"]
      /\ misused' = (misused \/ IF jsep THEN sctp.dtls \notin {t, Null} ELSE dtls[t].sctp)
      /\ UNCHANGED <<seen, signals, crashed>>
  BY <1>0 DEF Clear
<1>2. /\ cleared \in SctpRecord /\ GoodSctp(cleared) /\ cleared.infoDtls = cleared.dtls
      /\ cleared.dtls = Null /\ cleared.state = "closed"
  BY <1>0 DEF SctpCleared, SctpUpdated, SctpRecord, GoodSctp, SctpStates
<1> HIDE DEF cleared
<1>3. /\ Taken(dtls[t]) \in DtlsRecord /\ Good(Taken(dtls[t]), TRUE)
      /\ ~Taken(dtls[t]).owned /\ Taken(dtls[t]).info = dtls[t].info
      /\ Taken(dtls[t]).sctp = dtls[t].sctp /\ Taken(dtls[t]).state = dtls[t].state
  <2>1. dtls[t] \in DtlsRecord /\ Good(dtls[t], FALSE)
    BY <1>0, <1>1 DEF AllGood, Taking, Quiet, Idle
  <2> QED BY <1>1, <2>1 DEF Taken, Good, DtlsRecord
<1>4. \A u \in Transports : dtls'[u] = IF u = t THEN Taken(dtls[t]) ELSE dtls[u]
  BY <1>0, <1>1
<1>5. /\ sctp' \in SctpRecord /\ GoodSctp(sctp') /\ sctp'.infoDtls = sctp'.dtls
      /\ \/ sctp'.dtls = Null /\ sctp'.state = "closed"
         \/ sctp' = sctp /\ (jsep => sctp.state = "closed")
  BY <1>0, <1>1, <1>2 DEF GoodSctp
<1>6. TypeOK'
  <2>1. misused' \in BOOLEAN
    BY <1>1
  <2>2. net' \in [at : {"idle", "taken", "release"}, t : Transports \cup {Null},
                  event : BOOLEAN]
    BY <1>1
  <2>3. dtls' \in [Transports -> DtlsRecord]
    BY <1>0, <1>1, <1>3
  <2> QED BY <1>0, <1>1, <1>5, <2>1, <2>2, <2>3, Types
<1>7. AllGood'
  <2>1. \A u \in Transports : Taking(u)' <=> u = t
    BY <1>1 DEF Taking
  <2>2. \A u \in Transports : ~Taking(u)
    BY <1>1 DEF Taking, Quiet, Idle
  <2> QED BY <1>3, <1>4, <2>1, <2>2 DEF AllGood, Good
<1>8. NetIsInClear'
  BY <1>0, <1>1, <1>3, <1>4 DEF NetIsInClear
<1>9. SubscribedToTheCurrent'
  <2> SUFFICES ASSUME ~misused'
               PROVE  /\ sctp'.dtls # Null => dtls'[sctp'.dtls].sctp
                      /\ \A u \in Transports :
                             dtls'[u].sctp /\ dtls'[u].owned => sctp'.dtls = u
    BY DEF SubscribedToTheCurrent
  <2>1. /\ ~misused /\ (sctp.dtls # Null => sctp.dtls \in Transports /\ dtls[sctp.dtls].sctp)
        /\ \A u \in Transports : dtls[u].sctp /\ dtls[u].owned => sctp.dtls = u
    BY <1>0, <1>1 DEF SubscribedToTheCurrent, SctpRecord
  <2>2. CASE sctp' = sctp
    BY <1>3, <1>4, <2>1, <2>2
  <2>3. CASE jsep /\ sctp'.dtls = Null
    <3>1. sctp.dtls \in {t, Null}
      BY <1>1, <2>3
    <3> QED BY <1>3, <1>4, <2>1, <2>3, <3>1, TransportsAssumption
  <2> QED BY <1>1, <1>2, <2>2, <2>3
<1>10. WithoutDtlsOnlyIfLate'
  <2> SUFFICES ASSUME ~misused', ~crashed', sctp'.state = "connected"
               PROVE  DtlsHasEnded' <=> sctp'.late
    BY DEF WithoutDtlsOnlyIfLate
  <2>1. sctp' = sctp /\ ~jsep /\ ~misused /\ ~crashed /\ ~dtls[t].sctp
    BY <1>1, <1>5
  <2>2. /\ sctp.dtls # Null => sctp.dtls \in Transports /\ dtls[sctp.dtls].sctp
        /\ DtlsHasEnded <=> sctp.late
    BY <1>0, <2>1 DEF WithoutDtlsOnlyIfLate, SubscribedToTheCurrent, SctpRecord
  <2> QED BY <1>4, <2>1, <2>2 DEF DtlsHasEnded
<1>11. CrashNeedsStaleSubscription' /\ SeenAreClosed'
  BY <1>1, <1>3, <1>4, TransportsAssumption
     DEF CrashNeedsStaleSubscription, SeenAreClosed, Quiet
<1> QED BY <1>5, <1>6, <1>7, <1>8, <1>9, <1>10, <1>11

\* EndClear preserves the inductive invariant.
LEMMA EndClearIInv ==
    ASSUME IInv, EndClear
    PROVE  IInv'
<1> USE DEF IInv
<1>0. /\ dtls \in [Transports -> DtlsRecord] /\ sctp \in SctpRecord
      /\ net \in [at : {"idle", "taken", "release"}, t : Transports \cup {Null}, event : BOOLEAN]
      /\ seen \in [Watched -> BOOLEAN]
      /\ signals \in BOOLEAN /\ crashed \in BOOLEAN /\ misused \in BOOLEAN
  BY Types
<1> DEFINE t == net.t
           e == IF dtls[t].state # "closed" THEN Told(Updated(dtls[t], FALSE))
                ELSE Updated(dtls[t], FALSE)
<1>1. /\ ~crashed /\ net.at = "taken" /\ t \in Transports /\ ~dtls[t].owned
      /\ net.event = (dtls[t].state # "closed")
  BY DEF EndClear, NetIsInClear
<1>2. /\ net' = [net EXCEPT !.at = "release"] /\ dtls' = [dtls EXCEPT ![t] = e]
      /\ UNCHANGED <<sctp, seen, signals, crashed, misused>>
  BY <1>1 DEF EndClear, FinishClear
<1>3. dtls[t] \in DtlsRecord /\ Good(dtls[t], TRUE)
  BY <1>0, <1>1 DEF AllGood, Taking
<1>4. /\ e \in DtlsRecord /\ Good(e, FALSE) /\ ~e.owned /\ e.state = dtls[t].state
      /\ e.sctp = dtls[t].sctp /\ e.info = "closed"
  BY <1>1, <1>3, ClearedIsGood
<1> HIDE DEF e
<1>5. net'.at = "release" /\ net'.t = t /\ net' \in [at : {"idle", "taken", "release"},
                                               t : Transports \cup {Null}, event : BOOLEAN]
  BY <1>0, <1>2
<1> HIDE DEF t
<1>6. \A u \in Transports : dtls'[u] = IF u = t THEN e ELSE dtls[u]
  BY <1>0, <1>2
<1>7. TypeOK'
  <2>1. dtls' \in [Transports -> DtlsRecord]
    BY <1>0, <1>2, <1>4
  <2> QED BY <1>0, <1>2, <1>5, <2>1, Types
<1>8. AllGood'
  <2>1. \A u \in Transports : ~Taking(u)'
    BY <1>5 DEF Taking
  <2>2. \A u \in Transports : u # t => ~Taking(u)
    BY DEF Taking, t
  <2> QED BY <1>4, <1>6, <2>1, <2>2 DEF AllGood, Good
<1>9. NetIsInClear'
  BY <1>1, <1>4, <1>5, <1>6 DEF NetIsInClear
<1>10. SubscribedToTheCurrent' /\ WithoutDtlsOnlyIfLate'
  <2>1. sctp.dtls \in Transports \cup {Null}
    BY <1>0 DEF SctpRecord
  <2>2. sctp.dtls # Null => /\ dtls'[sctp.dtls].sctp = dtls[sctp.dtls].sctp
                            /\ dtls'[sctp.dtls].state = dtls[sctp.dtls].state
                            /\ dtls'[sctp.dtls].owned <=> dtls[sctp.dtls].owned
    BY <1>1, <1>4, <1>6, <2>1
  <2>3. \A u \in Transports : dtls'[u].sctp /\ dtls'[u].owned => dtls[u].sctp /\ dtls[u].owned
    BY <1>4, <1>6
  <2> QED BY <1>2, <2>1, <2>2, <2>3
     DEF SubscribedToTheCurrent, WithoutDtlsOnlyIfLate, DtlsHasEnded
<1>11. CrashNeedsStaleSubscription' /\ SeenAreClosed'
  BY <1>1, <1>2, <1>4, <1>6, TransportsAssumption DEF CrashNeedsStaleSubscription, SeenAreClosed
<1> QED BY <1>2, <1>7, <1>8, <1>9, <1>10, <1>11

\* Release preserves the inductive invariant.
LEMMA ReleaseIInv ==
    ASSUME IInv, Release
    PROVE  IInv'
<1> USE DEF IInv
<1>0. /\ dtls \in [Transports -> DtlsRecord] /\ sctp \in SctpRecord
      /\ net \in [at : {"idle", "taken", "release"}, t : Transports \cup {Null}, event : BOOLEAN]
      /\ seen \in [Watched -> BOOLEAN]
      /\ signals \in BOOLEAN /\ crashed \in BOOLEAN /\ misused \in BOOLEAN
  BY Types
<1> DEFINE t == net.t
           d == [dtls[t] EXCEPT !.exists = FALSE]
           e == IF signals THEN OnInternalDtlsState(d, FALSE) ELSE d
<1>1. ~crashed /\ net.at = "release" /\ t \in Transports /\ ~dtls[t].owned
  BY DEF Release, NetIsInClear
<1>2. /\ dtls' = [dtls EXCEPT ![t] = e] /\ net' = Idle
      /\ IF signals THEN OnDtlsStateChange(t, dtls[t].state) ELSE UNCHANGED <<sctp, crashed>>
      /\ UNCHANGED <<seen, signals, misused>>
  BY DEF Release
<1>3. dtls[t] \in DtlsRecord /\ Good(dtls[t], FALSE)
  BY <1>0, <1>1 DEF AllGood, Taking
<1>4. /\ d \in DtlsRecord /\ Sound(d) /\ Good(d, FALSE) /\ ~d.owned /\ d.info = "closed"
      /\ d.sctp = dtls[t].sctp /\ d.state = dtls[t].state
  BY <1>1, <1>3 DEF DtlsRecord, Good, Sound
<1>5. /\ e \in DtlsRecord /\ Good(e, FALSE) /\ ~e.owned /\ e.state = dtls[t].state
      /\ e.sctp = dtls[t].sctp /\ e.info = "closed"
  <2> HIDE DEF d
  <2>1. CASE ~signals
    BY <1>4, <2>1
  <2>2. CASE signals
    <3> DEFINE i == OnInternalDtlsState(d, FALSE)
    <3>1. /\ i \in DtlsRecord /\ Good(i, FALSE)
          /\ i.owned = d.owned /\ i.state = d.state /\ i.sctp = d.sctp
          /\ i.info = IF d.owned THEN d.state ELSE "closed"
      <4>1. FALSE \in BOOLEAN
        OBVIOUS
      <4> QED BY <1>4, <4>1, InternalStateIsGood, Zenon
    <3>2. e = i
      BY <2>2
    <3> HIDE DEF i, e
    <3> QED BY <1>4, <3>1, <3>2
  <2> QED BY <1>0, <2>1, <2>2
<1> HIDE DEF e, d
<1>6. dtls[t].state \in DtlsStates
  BY <1>3 DEF DtlsRecord
<1>7. /\ sctp' \in SctpRecord /\ GoodSctp(sctp') /\ sctp'.infoDtls = sctp'.dtls
      /\ sctp'.dtls = sctp.dtls /\ crashed' \in BOOLEAN
      /\ sctp' = sctp \/ sctp'.state = "closed"
      /\ crashed' => signals /\ dtls[t].sctp
  <2> HIDE DEF t
  <2>1. CASE ~signals
    BY <1>0, <1>1, <1>2, <2>1
  <2>2. CASE signals
    <3>1. OnDtlsStateChange(t, dtls[t].state)
      BY <1>2, <2>2
    <3> QED BY <1>1, <1>6, <2>2, <3>1, StateChange
  <2> QED BY <1>0, <2>1, <2>2
<1>8. \A u \in Transports : dtls'[u] = IF u = t THEN e ELSE dtls[u]
  BY <1>0, <1>2
<1>9. TypeOK'
  <2>1. dtls' \in [Transports -> DtlsRecord]
    BY <1>0, <1>2, <1>5
  <2>2. net' \in [at : {"idle", "taken", "release"}, t : Transports \cup {Null},
                  event : BOOLEAN]
    BY <1>2 DEF Idle
  <2> QED BY <1>0, <1>2, <1>7, <2>1, <2>2, Types
<1>10. AllGood' /\ NetIsInClear'
  <2>1. \A u \in Transports : ~Taking(u) /\ ~Taking(u)'
    BY <1>1, <1>2 DEF Taking, Idle
  <2>2. AllGood'
    BY <1>5, <1>8, <2>1 DEF AllGood, Good
  <2>3. NetIsInClear'
    BY <1>2 DEF NetIsInClear, Idle
  <2> QED BY <2>2, <2>3
<1> HIDE DEF t
<1>11. SubscribedToTheCurrent' /\ WithoutDtlsOnlyIfLate'
  <2>1. sctp.dtls \in Transports \cup {Null}
    BY <1>0 DEF SctpRecord
  <2>2. sctp.dtls # Null => /\ dtls'[sctp.dtls].sctp = dtls[sctp.dtls].sctp
                            /\ dtls'[sctp.dtls].state = dtls[sctp.dtls].state
                            /\ dtls'[sctp.dtls].owned <=> dtls[sctp.dtls].owned
    BY <1>1, <1>5, <1>8, <2>1
  <2>3. \A u \in Transports : dtls'[u].sctp /\ dtls'[u].owned => dtls[u].sctp /\ dtls[u].owned
    BY <1>5, <1>8
  <2>4. SubscribedToTheCurrent'
    BY <1>2, <1>7, <2>1, <2>2, <2>3 DEF SubscribedToTheCurrent
  <2>5. WithoutDtlsOnlyIfLate'
    BY <1>1, <1>2, <1>7, <2>1, <2>2 DEF WithoutDtlsOnlyIfLate, DtlsHasEnded
  <2> QED BY <2>4, <2>5
<1>12. CrashNeedsStaleSubscription' /\ SeenAreClosed'
  <2>1. CrashNeedsStaleSubscription'
    BY <1>1, <1>2, <1>5, <1>7, <1>8 DEF CrashNeedsStaleSubscription
  <2>2. SeenAreClosed'
    BY <1>2, <1>5, <1>8, TransportsAssumption DEF SeenAreClosed
  <2> QED BY <2>1, <2>2
<1> QED BY <1>7, <1>9, <1>10, <1>11, <1>12

\* It survives a step that changes nothing.
LEMMA UnchangedIInv == IInv /\ UNCHANGED vars => IInv'
BY DEF IInv, vars, TypeOK, AllGood, Taking, NetIsInClear, SubscribedToTheCurrent,
       WithoutDtlsOnlyIfLate, DtlsHasEnded, CrashNeedsStaleSubscription, SeenAreClosed

\* Every step preserves it.
LEMMA NextIInv == IInv /\ [Next]_vars => IInv'
<1> SUFFICES ASSUME IInv, Next PROVE IInv'
  BY UnchangedIInv
<1>1. ASSUME NEW t \in Transports,
             \/ SetSctpDtlsTransport(t)
             \/ \E state \in DtlsStates, complete \in BOOLEAN :
                    SetDtlsState(t, state, complete)
             \/ \E jsep \in BOOLEAN : Clear(t, jsep)
      PROVE  IInv'
  BY <1>1, SetSctpDtlsTransportIInv, SetDtlsStateIInv, ClearIInv
<1>2. ASSUME NEW t \in Watched, Read(t) \/ \E on \in BOOLEAN : RegisterObserver(t, on)
      PROVE  IInv'
  BY <1>2, ReadIInv, RegisterObserverIInv, TransportsAssumption
<1>3. CASE SetSctpDtlsTransport(Null)
  BY <1>3, SetSctpDtlsTransportIInv
<1>4. CASE \/ \E ok \in BOOLEAN : StartSctp(ok)
           \/ OnAssociationChangeCommunicationUp
           \/ \E on \in BOOLEAN : RegisterSctpObserver(on)
  BY <1>4, StartSctpIInv, AssociationUpIInv, RegisterSctpObserverIInv
<1>5. CASE EndClear \/ Release
  BY <1>5, EndClearIInv, ReleaseIInv
<1> QED BY <1>1, <1>2, <1>3, <1>4, <1>5 DEF Next

-----------------------------------------------------------------------------
\* The inductive invariant holds in every reachable state.
THEOREM Invariance == Spec => []IInv
BY InitIInv, NextIInv, PTL DEF Spec

\* The wrappers' members keep their types, for every set of transports.
THEOREM TypeCorrect == Spec => []TypeOK
<1>1. IInv => TypeOK
  BY DEF IInv
<1> QED BY <1>1, Invariance, PTL

\* IceTransportWithPointer never points to an ICE transport that went away
\* with its DTLS transport.
THEOREM IcePointerStaysLive == Spec => []IcePointerIsLive
<1>1. IInv => IcePointerIsLive
  BY DEF IInv, AllGood, Good, IcePointerIsLive
<1> QED BY <1>1, Invariance, PTL

\* Between two calls on the network thread the snapshots of DtlsTransport and
\* SctpTransport and their observers are up to date, on every path through
\* Clear.
THEOREM SnapshotsStayCurrent == Spec => []SnapshotsAreCurrent
<1>1. IInv => SnapshotIsCurrent
  <2> SUFFICES ASSUME IInv, Quiet, NEW t \in Transports
               PROVE  LET d == dtls[t]
                      IN  /\ d.info = IF d.owned THEN d.state ELSE "closed"
                          /\ d.told \in {"nothing", d.info}
                          /\ d.tls # "none" <=> d.info = "connected"
    BY DEF SnapshotIsCurrent
  <2>1. Good(dtls[t], FALSE)
    BY DEF IInv, AllGood, Taking, Quiet, Idle
  <2> QED BY <2>1 DEF Good
<1>2. IInv => SctpSnapshotIsCurrent
  BY DEF IInv, GoodSctp, SctpSnapshotIsCurrent
<1> QED BY <1>1, <1>2, Invariance, PTL DEF SnapshotsAreCurrent

\* Used as JsepTransport uses it, SctpTransport is connected without a live
\* DTLS transport exactly if it heard of its association after the transport
\* had ended: an end that is heard of in time always closes it.
THEOREM ConnectedOverDtls == Spec => []WithoutDtlsOnlyIfLate
<1>1. IInv => WithoutDtlsOnlyIfLate
  BY DEF IInv
<1> QED BY <1>1, Invariance, PTL

\* Used as JsepTransport uses it, the RTC_CHECK in OnDtlsStateChange fails
\* only for a transport that signals while it is destroyed.
THEOREM CrashIsStaleSubscription == Spec => []CrashNeedsStaleSubscription
<1>1. IInv => CrashNeedsStaleSubscription
  BY DEF IInv
<1> QED BY <1>1, Invariance, PTL

\* A thread that has read a closed snapshot never reads another state.
THEOREM ClosedStaysFinal == Spec => ClosedIsFinal
<1>1. IInv /\ [Next]_vars => [\A t \in Watched : seen[t] => seen'[t]]_vars
  <2> SUFFICES ASSUME IInv, Next, NEW t \in Watched, seen[t]
               PROVE  seen'[t]
    BY DEF vars
  <2>1. dtls[t].info = "closed" /\ seen \in [Watched -> BOOLEAN]
    BY DEF IInv, SeenAreClosed, TypeOK
  <2>2. ASSUME NEW u \in Watched, Read(u) PROVE seen'[t]
    BY <2>1, <2>2 DEF Read
  <2>3. CASE seen' = seen
    BY <2>3
  <2> QED BY <2>2, <2>3
     DEF Next, SetSctpDtlsTransport, SetDtlsState, Clear, RegisterObserver, StartSctp,
         OnAssociationChangeCommunicationUp, RegisterSctpObserver, EndClear, Release
<1> QED BY <1>1, Invariance, PTL DEF Spec, ClosedIsFinal
=============================================================================
