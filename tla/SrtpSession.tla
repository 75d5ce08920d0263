----------------------------- MODULE SrtpSession -----------------------------
(***************************************************************************)
(* SrtpSession (srtp_session.cpp): the wrappers of libsrtp sessions that   *)
(* live in a process, the count of their uses of libsrtp and what they     *)
(* know of their libsrtp session.  Every session is used on a thread of    *)
(* its own, so SetKey and the destructor are two steps each: the usage     *)
(* count is changed under a lock, the libsrtp session is not.              *)
(***************************************************************************)
EXTENDS Integers, FiniteSets

CONSTANTS
    Sessions,    \* SrtpSession objects, each on its own thread
    Keys,        \* keys the transports set: [type, suite, fits]
    Lengths,     \* lengths of packets and of their buffers
    MaxLeak      \* bound: uses of libsrtp that are never given back

ASSUME SessionsAssumption ==
    /\ IsFiniteSet(Sessions)
    /\ Keys \subseteq [type : {"in", "out"},
                       suite : {"cm80", "cm32", "gcm", "unsupported"},
                       fits : BOOLEAN]
    /\ Lengths \subseteq Nat
    /\ MaxLeak \in Nat

VARIABLES
    session,     \* session_: the policy libsrtp has for it, or NoSession
    tags,        \* rtp_auth_tag_len_, rtcp_auth_tag_len_
    inited,      \* inited_: the sessions that hold a use of libsrtp
    extEnabled,  \* external_auth_enabled_
    extActive,   \* external_auth_active_
    call,        \* where the session's thread is
    usage,       \* g_libsrtp_usage_count
    libsrtp,     \* libsrtp's own state
    prohibited,  \* ProhibitLibsrtpInitialization has been called
    leaked,      \* history: increments on a session that was inited already
    libFailed,   \* history: the last init or shutdown of libsrtp has failed
    packet       \* the packet buffer protected last: its length and its room

sessionVars == <<session, tags, inited, extEnabled, extActive, call>>

libVars == <<usage, libsrtp, prohibited, leaked, libFailed>>

vars == <<sessionVars, libVars, packet>>

NoSession == [type |-> "none", suite |-> "none", external |-> FALSE]

Idle == [at |-> "idle"]

Dying == [at |-> "dying"]

Gone == [at |-> "gone"]

Keying(key) == [at |-> "keying", key |-> key]

\* srtp_crypto_policy_set_from_profile_for_rtp and _for_rtcp.
Supported(suite) == suite \in {"cm80", "cm32", "gcm"}

TagLen(suite) ==
    [rtp  |-> CASE suite = "cm80" -> 10 [] suite = "cm32" -> 4 [] OTHER -> 16,
     rtcp |-> IF suite = "gcm" THEN 16 ELSE 10]

NoTags == [rtp |-> 0, rtcp |-> 0]

LibDown == [up |-> FALSE, handler |-> FALSE, fakeAuth |-> FALSE]

LibUp == [up |-> TRUE, handler |-> TRUE, fakeAuth |-> TRUE]

Init ==
    /\ session = [s \in Sessions |-> NoSession]
    /\ tags = [s \in Sessions |-> NoTags]
    /\ inited = {}
    /\ extEnabled = {} /\ extActive = {}
    /\ call = [s \in Sessions |-> Gone]
    /\ usage = 0 /\ libsrtp = LibDown /\ prohibited = FALSE
    /\ leaked = 0 /\ libFailed = FALSE
    /\ packet = [len |-> 0, max |-> 0]

\* The constructor.  SrtpTransport::CreateSrtpSessions turns external
\* authentication on right after it, when there is no session yet.
New(s, external) ==
    /\ call[s] = Gone
    /\ call' = [call EXCEPT ![s] = Idle]
    /\ extEnabled' = IF external THEN extEnabled \cup {s} ELSE extEnabled
    /\ UNCHANGED <<session, tags, inited, extActive, libVars, packet>>

ProhibitLibsrtpInitialization ==
    /\ ~prohibited
    /\ \A s \in Sessions : call[s] = Gone
    /\ usage' = usage + 1
    /\ prohibited' = TRUE
    /\ libsrtp' = [libsrtp EXCEPT !.up = TRUE]   \* by whoever asked for it
    /\ libFailed' = FALSE
    /\ UNCHANGED <<sessionVars, leaked, packet>>

-----------------------------------------------------------------------------
(* SetKey *)

\* IncrementLibsrtpUsageCountAndMaybeInit that succeeds.
Increment(s) ==
    /\ usage' = usage + 1
    /\ libsrtp' = IF usage = 0 THEN LibUp ELSE libsrtp
    /\ libFailed' = IF usage = 0 THEN FALSE ELSE libFailed
    /\ inited' = inited \cup {s}
    /\ leaked' = IF s \in inited THEN leaked + 1 ELSE leaked

\* It fails in srtp_init, srtp_install_event_handler or external_crypto_init.
IncrementFails(s) ==
    /\ usage = 0
    /\ \/ UNCHANGED <<libsrtp, libFailed>>
       \/ /\ libsrtp' \in {[libsrtp EXCEPT !.up = TRUE],
                           [libsrtp EXCEPT !.up = TRUE, !.handler = TRUE]}
          /\ libFailed' = TRUE
    /\ UNCHANGED <<usage, inited, leaked>>

SetKey(s, key) ==
    /\ call[s] = Idle /\ session[s] = NoSession
    /\ s \in inited => leaked < MaxLeak
    /\ \/ /\ Increment(s)
          /\ call' = [call EXCEPT ![s] = Keying(key)]
       \/ /\ IncrementFails(s)
          /\ UNCHANGED call
    /\ UNCHANGED <<session, tags, extEnabled, extActive, prohibited, packet>>

UpdateKey(s, key) ==
    /\ call[s] = Idle /\ session[s] # NoSession
    /\ call' = [call EXCEPT ![s] = Keying(key)]
    /\ UNCHANGED <<session, tags, inited, extEnabled, extActive, libVars, packet>>

\* For outgoing streams and suites other than GCM.
UsesExternalAuth(s, key) ==
    key.type = "out" /\ s \in extEnabled /\ key.suite # "gcm"

Policy(s, key) ==
    [type |-> key.type, suite |-> key.suite, external |-> UsesExternalAuth(s, key)]

\* srtp_create and srtp_update need the authentication module of the policy.
LibAccepts(policy) == libsrtp.up /\ (policy.external => libsrtp.fakeAuth)

\* Mutant: the lengths are taken from the policy before libsrtp has agreed.
TagsBeforeUpdate(s) ==
    LET key == call[s].key
    IN  /\ tags' = IF Supported(key.suite)
                   THEN [tags EXCEPT ![s] = TagLen(key.suite)] ELSE tags
        /\ UNCHANGED <<session, extActive>>

\* An unsupported suite, a key of the wrong length, or libsrtp refuses.
KeyRefused(s) == UNCHANGED <<session, tags, extActive>>

KeyAccepted(s) ==
    LET key == call[s].key
        policy == Policy(s, key)
    IN  /\ Supported(key.suite) /\ key.fits /\ LibAccepts(policy)
        /\ session' = [session EXCEPT ![s] = policy]
        /\ tags' = [tags EXCEPT ![s] = TagLen(key.suite)]
        /\ extActive' = IF policy.external THEN extActive \cup {s}
                        ELSE extActive \ {s}

DoSetKey(s) ==
    /\ call[s].at = "keying"
    /\ KeyAccepted(s) \/ KeyRefused(s)
    /\ call' = [call EXCEPT ![s] = Idle]
    /\ UNCHANGED <<inited, extEnabled, libVars, packet>>

-----------------------------------------------------------------------------
(* Packets *)

\* What libsrtp adds to a packet, from the policy of its session.
Overhead(s, kind) ==
    IF kind = "rtp" THEN TagLen(session[s].suite).rtp
    ELSE 4 + TagLen(session[s].suite).rtcp

NeedLen(s, kind, len) ==
    len + IF kind = "rtp" THEN tags[s].rtp ELSE 4 + tags[s].rtcp

\* ProtectRtp and ProtectRtcp; SrtpTransport calls them on sessions keyed for
\* sending, and the Unprotect ones on sessions keyed for receiving.
Protect(s, kind, len, max) ==
    /\ call[s] = Idle /\ session[s] # NoSession
    /\ NeedLen(s, kind, len) <= max
    /\ session[s].type = "out"
    /\ packet' = [len |-> len + Overhead(s, kind), max |-> max]
    /\ UNCHANGED <<sessionVars, libVars>>

\* UnprotectRtp and UnprotectRtcp shorten the packet in its buffer.
Unprotect(s, kind, len, max) ==
    /\ call[s] = Idle /\ session[s] # NoSession
    /\ len <= max
    /\ session[s].type = "in" /\ len >= Overhead(s, kind)
    /\ packet' = [len |-> len - Overhead(s, kind), max |-> max]
    /\ UNCHANGED <<sessionVars, libVars>>

-----------------------------------------------------------------------------
(* The destructor *)

Dealloc(s) ==
    /\ call[s] = Idle
    /\ call' = [call EXCEPT ![s] = Dying]
    /\ session' = [session EXCEPT ![s] = NoSession]
    /\ UNCHANGED <<tags, inited, extEnabled, extActive, libVars, packet>>

\* Mutant: libsrtp is shut down by the last but one user.
DecrementEarly(s) ==
    IF s \in inited
    THEN /\ usage' = usage - 1
         /\ IF usage \in {1, 2} THEN libsrtp' = LibDown /\ libFailed' = FALSE
            ELSE UNCHANGED <<libsrtp, libFailed>>
    ELSE UNCHANGED <<usage, libsrtp, libFailed>>

\* DecrementLibsrtpUsageCountAndMaybeDeinit; srtp_shutdown may fail.
Decrement(s) ==
    IF s \in inited
    THEN /\ usage' = usage - 1
         /\ \/ usage > 1 /\ UNCHANGED <<libsrtp, libFailed>>
            \/ usage = 1 /\ libsrtp' = LibDown /\ libFailed' = FALSE
            \/ usage = 1 /\ UNCHANGED libsrtp /\ libFailed' = TRUE
    ELSE UNCHANGED <<usage, libsrtp, libFailed>>

Delete(s) ==
    /\ call[s] = Dying
    /\ Decrement(s)
    /\ inited' = inited \ {s}
    /\ call' = [call EXCEPT ![s] = Gone]
    /\ tags' = [tags EXCEPT ![s] = NoTags]
    /\ extEnabled' = extEnabled \ {s} /\ extActive' = extActive \ {s}
    /\ UNCHANGED <<session, prohibited, leaked, packet>>

Next ==
    \/ ProhibitLibsrtpInitialization
    \/ \E s \in Sessions :
        \/ \E external \in BOOLEAN : New(s, external)
        \/ \E key \in Keys : SetKey(s, key) \/ UpdateKey(s, key)
        \/ DoSetKey(s)
        \/ \E kind \in {"rtp", "rtcp"}, len, max \in Lengths :
               Protect(s, kind, len, max) \/ Unprotect(s, kind, len, max)
        \/ Dealloc(s)
        \/ Delete(s)

Spec == Init /\ [][Next]_vars

-----------------------------------------------------------------------------
(* Properties *)

Policies ==
    [type : {"in", "out", "none"}, suite : {"cm80", "cm32", "gcm", "none"},
     external : BOOLEAN]

\* Types of the wrapper's members and of the process-wide state.
TypeOK ==
    /\ session \in [Sessions -> Policies]
    /\ tags \in [Sessions -> [rtp : Nat, rtcp : Nat]]
    /\ inited \subseteq Sessions
    /\ extEnabled \subseteq Sessions /\ extActive \subseteq Sessions
    /\ call \in [Sessions -> {Idle, Dying, Gone} \cup {Keying(key) : key \in Keys}]
    /\ usage \in Nat /\ leaked \in Nat
    /\ libsrtp \in [up : BOOLEAN, handler : BOOLEAN, fakeAuth : BOOLEAN]
    /\ prohibited \in BOOLEAN /\ libFailed \in BOOLEAN
    /\ packet \in [len : Nat, max : Nat]

\* libsrtp is not shut down, whoever is destroyed meanwhile, under a session
\* that exists or a thread that is between the count and srtp_create.
LibsrtpOutlivesSessions ==
    \A s \in Sessions :
        session[s] # NoSession \/ call[s].at = "keying" => libsrtp.up

\* The count is the number of sessions that will give their use back, the
\* prohibition, and the uses lost: a SetKey repeated after DoSetKey has failed
\* counts a second time, while the destructor gives back one.
CountIsUsers ==
    usage = Cardinality(inited) + leaked + (IF prohibited THEN 1 ELSE 0)

\* With no use counted libsrtp is down, unless its initialisation stopped half
\* way or its shutdown failed: no order of failing and succeeding sessions
\* leaves it up otherwise.
UpOnlyInUse == usage = 0 /\ libsrtp.up => libFailed

\* libsrtp is up exactly while somebody uses it, and the count that decides on
\* it is exact, however sessions on different threads are keyed, refused, keyed
\* again and deleted (IncrementLibsrtpUsageCountAndMaybeInit and its opposite).
LibsrtpFollowsUse ==
    /\ CountIsUsers
    /\ LibsrtpOutlivesSessions
    /\ UpOnlyInUse

\* The lengths the wrapper checks buffers with are those of the key libsrtp
\* uses, after a refused update too.
TagsAreOfTheKey ==
    \A s \in Sessions :
        session[s] # NoSession => tags[s] = TagLen(session[s].suite)

\* A protected packet never runs over the end of its buffer, whichever updates
\* of the key have succeeded or failed before.
PacketFits == packet.len <= packet.max

\* "Only supported for non-GCM cipher suites and can be checked through
\* IsExternalAuthActive if it is actually used" (srtp_session.h:91-95): the
\* flag follows the key that libsrtp uses, and never for GCM.
ExternalAuthIsOfTheKey ==
    \A s \in Sessions :
        /\ session[s] # NoSession => (s \in extActive <=> session[s].external)
        /\ session[s].external => session[s].suite # "gcm"

\* What the wrapper knows of the key is what libsrtp works with, so that no
\* packet that passes its check of the length runs over its buffer (DoSetKey,
\* UpdateKey, ProtectRtp, ProtectRtcp).
KeyIsKnown ==
    /\ TagsAreOfTheKey
    /\ ExternalAuthIsOfTheKey
    /\ PacketFits
=============================================================================
