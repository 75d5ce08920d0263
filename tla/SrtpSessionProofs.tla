-------------------------- MODULE SrtpSessionProofs --------------------------
(***************************************************************************)
(* The invariants of SrtpSession for every finite set of sessions, every   *)
(* set of keys and every length of packets.  They are inductive together   *)
(* with three facts that none of them states: a session that exists or is  *)
(* being keyed holds a use of libsrtp, one that is being destroyed has no  *)
(* libsrtp session any more, and libsrtp is up while a use is counted.     *)
(***************************************************************************)
EXTENDS SrtpSession, FiniteSetTheorems, TLAPS

Uses(s) == session[s] # NoSession \/ call[s].at = "keying"

\* What uses libsrtp is counted, and gives its use back after its session.
UsersAreCounted ==
    \A s \in Sessions : /\ Uses(s) => s \in inited
                        /\ call[s] \in {Dying, Gone} => session[s] = NoSession

UpWhileCounted == usage > 0 => libsrtp.up

IInv ==
    /\ TypeOK
    /\ CountIsUsers
    /\ UsersAreCounted
    /\ UpWhileCounted
    /\ UpOnlyInUse
    /\ TagsAreOfTheKey
    /\ ExternalAuthIsOfTheKey
    /\ PacketFits

-----------------------------------------------------------------------------
(* Facts about the data *)

\* Where a thread is follows from the first field of its record.
LEMMA CallsDiffer ==
    /\ Idle # Dying /\ Idle # Gone /\ Dying # Gone
    /\ Idle.at = "idle" /\ Dying.at = "dying" /\ Gone.at = "gone"
    /\ \A key : /\ Keying(key).at = "keying" /\ Keying(key).key = key
                /\ Keying(key) \notin {Idle, Dying, Gone}
BY DEF Idle, Dying, Gone, Keying

\* A thread that is keying has one of the keys.
LEMMA KeyOfCall ==
    ASSUME TypeOK, NEW s \in Sessions, call[s].at = "keying"
    PROVE  call[s].key \in Keys /\ call[s] \notin {Idle, Dying, Gone}
<1>1. call[s] \in {Idle, Dying, Gone} \cup {Keying(key) : key \in Keys}
  BY DEF TypeOK
<1>2. call[s] \notin {Idle, Dying, Gone}
  BY CallsDiffer
<1>3. PICK key \in Keys : call[s] = Keying(key)
  BY <1>1, <1>2
<1> QED BY <1>2, <1>3, CallsDiffer

\* The lengths of authentication tags are natural numbers.
LEMMA TagLenType ==
    \A suite : TagLen(suite) \in [rtp : Nat, rtcp : Nat]
BY DEF TagLen

\* The sets of sessions that hold a use are finite, and what joining and
\* leaving does to their number.
LEMMA InitedCount ==
    ASSUME TypeOK
    PROVE  /\ Cardinality(inited) \in Nat
           /\ \A s \in inited : /\ Cardinality(inited) > 0
                                /\ Cardinality(inited \ {s}) = Cardinality(inited) - 1
           /\ \A s \in Sessions : s \notin inited =>
                  Cardinality(inited \cup {s}) = Cardinality(inited) + 1
<1>1. IsFiniteSet(inited)
  BY SessionsAssumption, FS_Subset DEF TypeOK
<1>2. Cardinality(inited) \in Nat
  BY <1>1, FS_CardinalityType
<1>3. ASSUME NEW s \in inited
      PROVE  /\ Cardinality(inited) > 0
             /\ Cardinality(inited \ {s}) = Cardinality(inited) - 1
  <2>1. Cardinality(inited \ {s}) = Cardinality(inited) - 1
    BY <1>1, FS_RemoveElement
  <2>2. inited # {} /\ Cardinality(inited) # 0
    BY <1>1, FS_EmptySet
  <2> QED BY <2>1, <2>2, <1>2
<1>4. ASSUME NEW s \in Sessions, s \notin inited
      PROVE  Cardinality(inited \cup {s}) = Cardinality(inited) + 1
  BY <1>1, <1>4, FS_AddElement
<1> QED BY <1>2, <1>3, <1>4

\* A counted user keeps the count above zero.
LEMMA UserIsCounted ==
    ASSUME TypeOK, CountIsUsers, NEW s \in inited
    PROVE  usage > 0
<1>1. Cardinality(inited) \in Nat /\ Cardinality(inited) > 0
  BY InitedCount
<1> QED BY <1>1 DEF CountIsUsers, TypeOK

-----------------------------------------------------------------------------
\* It holds initially.
LEMMA InitIInv == Init => IInv
<1> SUFFICES ASSUME Init PROVE IInv
  OBVIOUS
<1> USE DEF Init
<1>1. TypeOK
  BY DEF TypeOK, Policies, NoSession, NoTags, LibDown
<1>2. CountIsUsers
  BY FS_EmptySet DEF CountIsUsers
<1>3. UsersAreCounted
  BY CallsDiffer DEF UsersAreCounted, Uses
<1>4. UpWhileCounted /\ UpOnlyInUse
  BY DEF UpWhileCounted, UpOnlyInUse, LibDown
<1>5. TagsAreOfTheKey /\ PacketFits
  BY DEF TagsAreOfTheKey, PacketFits
<1>6. ExternalAuthIsOfTheKey
  BY DEF ExternalAuthIsOfTheKey, NoSession
<1> QED BY <1>1, <1>2, <1>3, <1>4, <1>5, <1>6 DEF IInv

-----------------------------------------------------------------------------
(* Steps that leave the sessions and their keys alone *)

\* It survives a step that changes nothing.
LEMMA UnchangedIInv == IInv /\ UNCHANGED vars => IInv'
BY DEF IInv, vars, sessionVars, libVars, TypeOK, CountIsUsers, UsersAreCounted, Uses,
       UpWhileCounted, UpOnlyInUse, TagsAreOfTheKey, ExternalAuthIsOfTheKey, PacketFits

\* New preserves the inductive invariant.
LEMMA NewIInv ==
    ASSUME IInv, NEW s \in Sessions, NEW external \in BOOLEAN, New(s, external)
    PROVE  IInv'
<1> USE DEF New, IInv
<1>1. TypeOK'
  BY DEF TypeOK, libVars
<1>2. CountIsUsers' /\ UpWhileCounted' /\ UpOnlyInUse' /\ PacketFits'
  BY DEF CountIsUsers, UpWhileCounted, UpOnlyInUse, PacketFits, libVars
<1>3. UsersAreCounted'
  BY CallsDiffer DEF UsersAreCounted, Uses, TypeOK
<1>4. TagsAreOfTheKey' /\ ExternalAuthIsOfTheKey'
  BY DEF TagsAreOfTheKey, ExternalAuthIsOfTheKey
<1> QED BY <1>1, <1>2, <1>3, <1>4 DEF IInv

\* Prohibit preserves the inductive invariant.
LEMMA ProhibitIInv ==
    ASSUME IInv, ProhibitLibsrtpInitialization
    PROVE  IInv'
<1> USE DEF ProhibitLibsrtpInitialization, IInv, sessionVars
<1>1. TypeOK'
  <2>1. libsrtp' \in [up : BOOLEAN, handler : BOOLEAN, fakeAuth : BOOLEAN]
    BY DEF TypeOK
  <2>2. usage' \in Nat
    BY DEF TypeOK
  <2>3. prohibited' \in BOOLEAN /\ libFailed' \in BOOLEAN
    OBVIOUS
  <2> QED BY <2>1, <2>2, <2>3 DEF TypeOK
<1>2. CountIsUsers'
  BY InitedCount DEF CountIsUsers, TypeOK
<1>3. UpWhileCounted' /\ UpOnlyInUse'
  BY DEF UpWhileCounted, UpOnlyInUse, TypeOK
<1>4. UsersAreCounted' /\ TagsAreOfTheKey' /\ ExternalAuthIsOfTheKey' /\ PacketFits'
  BY DEF UsersAreCounted, Uses, TagsAreOfTheKey, ExternalAuthIsOfTheKey, PacketFits
<1> QED BY <1>1, <1>2, <1>3, <1>4 DEF IInv

\* UpdateKey preserves the inductive invariant.
LEMMA UpdateKeyIInv ==
    ASSUME IInv, NEW s \in Sessions, NEW key \in Keys, UpdateKey(s, key)
    PROVE  IInv'
<1> USE DEF UpdateKey, IInv
<1>1. TypeOK'
  BY DEF TypeOK, libVars
<1>2. CountIsUsers' /\ UpWhileCounted' /\ UpOnlyInUse' /\ PacketFits'
  BY DEF CountIsUsers, UpWhileCounted, UpOnlyInUse, PacketFits, libVars
<1>3. UsersAreCounted'
  BY CallsDiffer DEF UsersAreCounted, Uses, TypeOK
<1>4. TagsAreOfTheKey' /\ ExternalAuthIsOfTheKey'
  BY DEF TagsAreOfTheKey, ExternalAuthIsOfTheKey
<1> QED BY <1>1, <1>2, <1>3, <1>4 DEF IInv

-----------------------------------------------------------------------------
(* The count *)

\* SetKey preserves the inductive invariant.
LEMMA SetKeyIInv ==
    ASSUME IInv, NEW s \in Sessions, NEW key \in Keys, SetKey(s, key)
    PROVE  IInv'
<1> USE DEF IInv
<1>0. /\ UNCHANGED <<session, tags, extEnabled, extActive, prohibited, packet>>
      /\ call[s] = Idle /\ session[s] = NoSession
  BY DEF SetKey
<1>1. TagsAreOfTheKey' /\ ExternalAuthIsOfTheKey' /\ PacketFits'
  BY <1>0 DEF TagsAreOfTheKey, ExternalAuthIsOfTheKey, PacketFits
<1>2. CASE Increment(s) /\ call' = [call EXCEPT ![s] = Keying(key)]
  <2>1. TypeOK'
    <3>1. libsrtp' \in [up : BOOLEAN, handler : BOOLEAN, fakeAuth : BOOLEAN]
      BY <1>2 DEF TypeOK, Increment, LibUp
    <3>2. usage' \in Nat /\ leaked' \in Nat
      BY <1>2 DEF TypeOK, Increment
    <3>3. libFailed' \in BOOLEAN
      BY <1>2, Zenon DEF TypeOK, Increment
    <3>4. inited' \subseteq Sessions
      BY <1>2 DEF TypeOK, Increment
    <3> QED BY <1>0, <1>2, <3>1, <3>2, <3>3, <3>4 DEF TypeOK
  <2>2. CountIsUsers'
    <3>1. usage' = usage + 1 /\ prohibited' = prohibited /\ inited' = inited \cup {s}
      BY <1>0, <1>2 DEF Increment
    <3>2. leaked \in Nat /\ usage \in Nat /\ Cardinality(inited) \in Nat
      BY InitedCount DEF TypeOK
    <3>3. CASE s \in inited
      <4>1. Cardinality(inited') = Cardinality(inited) /\ leaked' = leaked + 1
        BY <1>2, <3>1, <3>3 DEF Increment
      <4> QED BY <3>1, <3>2, <4>1 DEF CountIsUsers
    <3>4. CASE s \notin inited
      <4>1. Cardinality(inited') = Cardinality(inited) + 1 /\ leaked' = leaked
        BY <1>2, <3>1, <3>4, InitedCount DEF Increment
      <4> QED BY <3>1, <3>2, <4>1 DEF CountIsUsers
    <3> QED BY <3>3, <3>4
  <2>3. UpWhileCounted' /\ UpOnlyInUse'
    BY <1>0, <1>2 DEF UpWhileCounted, UpOnlyInUse, Increment, LibUp, TypeOK
  <2>4. UsersAreCounted'
    BY <1>0, <1>2, CallsDiffer DEF UsersAreCounted, Uses, Increment, TypeOK
  <2> QED BY <1>1, <2>1, <2>2, <2>3, <2>4
<1>3. CASE IncrementFails(s) /\ UNCHANGED call
  <2>1. TypeOK'
    BY <1>0, <1>3 DEF TypeOK, IncrementFails
  <2>2. CountIsUsers'
    BY <1>0, <1>3 DEF CountIsUsers, IncrementFails
  <2>3. UpWhileCounted' /\ UpOnlyInUse'
    BY <1>0, <1>3 DEF UpWhileCounted, UpOnlyInUse, IncrementFails, TypeOK
  <2>4. UsersAreCounted'
    BY <1>0, <1>3 DEF UsersAreCounted, Uses, IncrementFails
  <2> QED BY <1>1, <2>1, <2>2, <2>3, <2>4
<1> QED BY <1>2, <1>3 DEF SetKey

\* Delete preserves the inductive invariant.
LEMMA DeleteIInv ==
    ASSUME IInv, NEW s \in Sessions, Delete(s)
    PROVE  IInv'
<1> USE DEF IInv
<1>0. /\ Decrement(s) /\ inited' = inited \ {s} /\ call[s] = Dying
      /\ call' = [call EXCEPT ![s] = Gone] /\ tags' = [tags EXCEPT ![s] = NoTags]
      /\ extEnabled' = extEnabled \ {s} /\ extActive' = extActive \ {s}
      /\ UNCHANGED <<session, prohibited, leaked, packet>>
  BY DEF Delete
<1>1. session[s] = NoSession
  BY <1>0 DEF UsersAreCounted
<1>2. s \in inited => usage \in Nat /\ usage > 0
  BY UserIsCounted DEF TypeOK
<1>3. TypeOK'
  <2>1. libsrtp' \in [up : BOOLEAN, handler : BOOLEAN, fakeAuth : BOOLEAN]
    <3>1. libsrtp' = libsrtp \/ libsrtp' = LibDown
      BY <1>0, Zenon DEF Decrement
    <3>2. libsrtp \in [up : BOOLEAN, handler : BOOLEAN, fakeAuth : BOOLEAN]
      BY DEF TypeOK
    <3>3. LibDown \in [up : BOOLEAN, handler : BOOLEAN, fakeAuth : BOOLEAN]
      BY DEF LibDown
    <3> QED BY <3>1, <3>2, <3>3, Zenon
  <2>2. usage' \in Nat
    BY <1>0, <1>2 DEF TypeOK, Decrement
  <2>3. libFailed' \in BOOLEAN
    BY <1>0, Zenon DEF TypeOK, Decrement
  <2> QED BY <1>0, <2>1, <2>2, <2>3 DEF TypeOK, NoTags
<1>4. CountIsUsers'
  <2>1. leaked \in Nat /\ usage \in Nat /\ Cardinality(inited) \in Nat
    BY InitedCount DEF TypeOK
  <2>2. CASE s \in inited
    <3>1. Cardinality(inited') = Cardinality(inited) - 1 /\ usage' = usage - 1
      BY <1>0, <2>2, InitedCount DEF Decrement
    <3> QED BY <1>0, <2>1, <3>1 DEF CountIsUsers
  <2>3. CASE s \notin inited
    <3>1. inited' = inited /\ usage' = usage
      BY <1>0, <2>3 DEF Decrement
    <3> QED BY <1>0, <3>1 DEF CountIsUsers
  <2> QED BY <2>2, <2>3
<1>5. UpWhileCounted' /\ UpOnlyInUse'
  BY <1>0, <1>2 DEF UpWhileCounted, UpOnlyInUse, Decrement, LibDown, TypeOK
<1>6. UsersAreCounted'
  BY <1>0, <1>1, CallsDiffer DEF UsersAreCounted, Uses, TypeOK
<1>7. TagsAreOfTheKey'
  BY <1>0, <1>1 DEF TagsAreOfTheKey, TypeOK
<1>8. ExternalAuthIsOfTheKey' /\ PacketFits'
  BY <1>0, <1>1 DEF ExternalAuthIsOfTheKey, PacketFits
<1> QED BY <1>3, <1>4, <1>5, <1>6, <1>7, <1>8

\* Dealloc preserves the inductive invariant.
LEMMA DeallocIInv ==
    ASSUME IInv, NEW s \in Sessions, Dealloc(s)
    PROVE  IInv'
<1> USE DEF Dealloc, IInv
<1>1. TypeOK'
  BY DEF TypeOK, Policies, NoSession, libVars
<1>2. CountIsUsers' /\ UpWhileCounted' /\ UpOnlyInUse' /\ PacketFits'
  BY DEF CountIsUsers, UpWhileCounted, UpOnlyInUse, PacketFits, libVars
<1>3. UsersAreCounted'
  BY CallsDiffer DEF UsersAreCounted, Uses, TypeOK
<1>4. TagsAreOfTheKey'
  BY DEF TagsAreOfTheKey, TypeOK
<1>5. ExternalAuthIsOfTheKey'
  BY DEF ExternalAuthIsOfTheKey, TypeOK, NoSession
<1> QED BY <1>1, <1>2, <1>3, <1>4, <1>5 DEF IInv

-----------------------------------------------------------------------------
(* Keys and packets *)

\* DoSetKey preserves the inductive invariant.
LEMMA DoSetKeyIInv ==
    ASSUME IInv, NEW s \in Sessions, DoSetKey(s)
    PROVE  IInv'
<1> USE DEF IInv
<1>0. /\ call[s].at = "keying" /\ call' = [call EXCEPT ![s] = Idle]
      /\ UNCHANGED <<inited, extEnabled, libVars, packet>>
  BY DEF DoSetKey
<1>1. CountIsUsers' /\ UpWhileCounted' /\ UpOnlyInUse' /\ PacketFits'
  BY <1>0 DEF CountIsUsers, UpWhileCounted, UpOnlyInUse, PacketFits, libVars
<1>2. CASE KeyRefused(s)
  <2>1. TypeOK'
    BY <1>0, <1>2 DEF TypeOK, KeyRefused, libVars
  <2>2. UsersAreCounted'
    BY <1>0, <1>2, CallsDiffer DEF UsersAreCounted, Uses, KeyRefused, TypeOK
  <2>3. TagsAreOfTheKey' /\ ExternalAuthIsOfTheKey'
    BY <1>2 DEF TagsAreOfTheKey, ExternalAuthIsOfTheKey, KeyRefused
  <2> QED BY <1>1, <2>1, <2>2, <2>3
<1>3. CASE KeyAccepted(s)
  <2> DEFINE key == call[s].key
             policy == Policy(s, key)
  <2>1. key \in [type : {"in", "out"}, suite : {"cm80", "cm32", "gcm", "unsupported"},
                 fits : BOOLEAN]
    BY <1>0, KeyOfCall, SessionsAssumption
  <2>2. key.suite \in {"cm80", "cm32", "gcm"}
    BY <1>3 DEF KeyAccepted, Supported
  <2>3. /\ policy \in Policies /\ policy.suite = key.suite /\ policy # NoSession
        /\ policy.external => policy.suite # "gcm"
    BY <2>1, <2>2 DEF Policy, Policies, NoSession, UsesExternalAuth
  <2>4. /\ session' = [session EXCEPT ![s] = policy]
        /\ tags' = [tags EXCEPT ![s] = TagLen(key.suite)]
        /\ extActive' = IF policy.external THEN extActive \cup {s} ELSE extActive \ {s}
    BY <1>3 DEF KeyAccepted
  <2> HIDE DEF key, policy
  <2>5. TypeOK'
    BY <1>0, <2>3, <2>4, TagLenType DEF TypeOK, libVars
  <2>6. UsersAreCounted'
    BY <1>0, <2>4, CallsDiffer DEF UsersAreCounted, Uses, TypeOK
  <2>7. TagsAreOfTheKey'
    BY <2>3, <2>4 DEF TagsAreOfTheKey, TypeOK
  <2>8. ExternalAuthIsOfTheKey'
    BY <2>3, <2>4 DEF ExternalAuthIsOfTheKey, TypeOK
  <2> QED BY <1>1, <2>5, <2>6, <2>7, <2>8
<1> QED BY <1>2, <1>3 DEF DoSetKey

\* Packet preserves the inductive invariant.
LEMMA PacketIInv ==
    ASSUME IInv, NEW s \in Sessions, NEW kind \in {"rtp", "rtcp"},
           NEW len \in Lengths, NEW max \in Lengths,
           Protect(s, kind, len, max) \/ Unprotect(s, kind, len, max)
    PROVE  IInv'
<1> USE DEF IInv
<1>0. UNCHANGED <<sessionVars, libVars>> /\ session[s] # NoSession
  BY DEF Protect, Unprotect
<1>1. /\ CountIsUsers' /\ UsersAreCounted' /\ UpWhileCounted' /\ UpOnlyInUse'
      /\ TagsAreOfTheKey' /\ ExternalAuthIsOfTheKey'
  BY <1>0 DEF sessionVars, libVars, CountIsUsers, UsersAreCounted, Uses, UpWhileCounted,
              UpOnlyInUse, TagsAreOfTheKey, ExternalAuthIsOfTheKey
<1>2. /\ len \in Nat /\ max \in Nat
      /\ Overhead(s, kind) \in Nat /\ NeedLen(s, kind, len) = len + Overhead(s, kind)
  <2>1. tags[s] = TagLen(session[s].suite) /\ tags[s] \in [rtp : Nat, rtcp : Nat]
    BY <1>0 DEF TagsAreOfTheKey, TypeOK
  <2>2. len \in Nat /\ max \in Nat
    BY SessionsAssumption
  <2> QED BY <2>1, <2>2 DEF Overhead, NeedLen
<1>3. packet' \in [len : Nat, max : Nat] /\ packet'.len <= packet'.max
  BY <1>2 DEF Protect, Unprotect
<1>4. TypeOK'
  BY <1>0, <1>3 DEF TypeOK, sessionVars, libVars
<1>5. PacketFits'
  BY <1>3 DEF PacketFits
<1> QED BY <1>1, <1>4, <1>5

-----------------------------------------------------------------------------
\* Every step preserves it.
LEMMA NextIInv == IInv /\ [Next]_vars => IInv'
<1> SUFFICES ASSUME IInv, [Next]_vars PROVE IInv'
  OBVIOUS
<1>1. CASE UNCHANGED vars
  BY <1>1, UnchangedIInv
<1>2. CASE ProhibitLibsrtpInitialization
  BY <1>2, ProhibitIInv
<1>3. ASSUME NEW s \in Sessions, NEW external \in BOOLEAN, New(s, external)
      PROVE  IInv'
  BY <1>3, NewIInv
<1>4. ASSUME NEW s \in Sessions, NEW key \in Keys, SetKey(s, key) \/ UpdateKey(s, key)
      PROVE  IInv'
  BY <1>4, SetKeyIInv, UpdateKeyIInv
<1>5. ASSUME NEW s \in Sessions, DoSetKey(s) \/ Dealloc(s) \/ Delete(s)
      PROVE  IInv'
  BY <1>5, DoSetKeyIInv, DeallocIInv, DeleteIInv
<1>6. ASSUME NEW s \in Sessions, NEW kind \in {"rtp", "rtcp"},
             NEW len \in Lengths, NEW max \in Lengths,
             Protect(s, kind, len, max) \/ Unprotect(s, kind, len, max)
      PROVE  IInv'
  BY <1>6, PacketIInv
<1> QED BY <1>1, <1>2, <1>3, <1>4, <1>5, <1>6 DEF Next

\* The inductive invariant holds in every reachable state.
THEOREM Invariance == Spec => []IInv
BY InitIInv, NextIInv, PTL DEF Spec

\* The members and the process-wide state keep their types: no key of an
\* unsupported suite becomes a policy, and the count never drops below zero.
THEOREM TypeCorrect == Spec => []TypeOK
<1>1. IInv => TypeOK
  BY DEF IInv
<1> QED BY <1>1, Invariance, PTL

\* However many sessions there are and however their threads interleave,
\* g_libsrtp_usage_count is the number of sessions that will give their use
\* back, plus the prohibition and the uses lost to a repeated SetKey; libsrtp is
\* never shut down under a session that exists or is being keyed, and is down
\* when nothing uses it, unless its own initialisation or shutdown failed.
THEOREM LibsrtpStaysInUse == Spec => []LibsrtpFollowsUse
<1>1. IInv => LibsrtpOutlivesSessions
  <2> SUFFICES ASSUME IInv, NEW s \in Sessions, Uses(s) PROVE libsrtp.up
    BY DEF LibsrtpOutlivesSessions, Uses
  <2>1. s \in inited
    BY DEF IInv, UsersAreCounted
  <2>2. usage > 0
    BY <2>1, UserIsCounted DEF IInv
  <2> QED BY <2>2 DEF IInv, UpWhileCounted
<1>2. IInv => LibsrtpFollowsUse
  BY <1>1 DEF IInv, LibsrtpFollowsUse
<1> QED BY <1>2, Invariance, PTL

\* The tag lengths and the external authentication flag are those of the key
\* libsrtp uses, after refused updates too, and a packet that ProtectRtp or
\* ProtectRtcp has let through does not run over its buffer, for every length
\* and every sequence of accepted and refused keys.
THEOREM WrapperKnowsTheKey == Spec => []KeyIsKnown
<1>1. IInv => KeyIsKnown
  BY DEF IInv, KeyIsKnown
<1> QED BY <1>1, Invariance, PTL
=============================================================================
