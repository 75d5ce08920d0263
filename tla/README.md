# Verification of libp2p_peerconnection

TLA+ models of libp2p_peerconnection, a C++ library that sends video over ICE,
DTLS and SRTP: its transport and session layer and its video engine, checked
with TLC and, for every component with state of its own and nearly all of the
functions that compute, proved with TLAPS.  `PROJECT.json` is the index: for every definition the source
lines it models, for every run its configuration and properties, for every
property a mutation of the code that breaks it, the hazards of the code and the
theorems.

## The system

An application makes a `p2p_peer_connection`, hands it the SDP of the other
side (`set_remote_sdp`), asks for its own (`create_offer`) and gives it encoded
video (`SendVideoEncode`).  Below that:

| Part | State it keeps | Operations | Talks to |
|---|---|---|---|
| `p2p_peer_connection` | descriptions, transport controller, send side (`transport_send_`, `rtp_rtcp_impl_`), sequence numbers, `ice_state` | constructor, `set_remote_sdp`, `create_offer`, `SendVideoEncode`, pacer and transport callbacks, destructor | posts tasks to the network thread, RTCP to the signalling thread; is called by the pacer |
| `ConnectionContext` | threads, network manager, socket factory | constructor, destructor | creates its parts on the network thread |
| `transport_controller` | port allocator, `ices_`, `dtls_transports_`, the collection | `set_remote_sdp`, `set_local_sdp`, `set_remote_candidate`, `send_rtp_packet`, callbacks | libice transports, `JsepTransportCollection` |
| `JsepTransportCollection` | owned transports by name, current and stable mapping of media sections | register, set, remove, commit, roll back, destroy all | subscriber callback, aggregate state callback |
| `JsepTransport` | descriptions, certificate, DTLS role, RTCP transport, mux filter, restart flag | set local and remote description, certificate, restart flag | `RtcpMuxFilter`, the RTP transport below |
| `RtcpMuxFilter` | offer/answer state of rtcp-mux | offer, provisional answer, answer | - |
| `RtpTransport`, `SrtpTransport`, `DtlsSrtpTransport` | packet transports, ready and writable flags, SRTP sessions, header extension ids | set transports, set mux, DTLS state and writability callbacks, sends | libice DTLS transports, libsrtp |
| `SrtpSession` | libsrtp context, process-wide usage count | set and update keys, protect, unprotect | libsrtp |
| `SctpTransport`, `DtlsTransport`, `IceTransport` | state snapshots under a lock | callbacks, clear | libice, usrsctp |
| `BundleManager` | bundle groups | update, delete, roll back, commit | - |
| `WebRtcVideoChannel` and engine helpers | negotiated codecs, codec in use, send streams by SSRC | add and remove streams, set parameters, encoder fallback and switch | - |
| `UnhandledPacketsBuffer` | ring of packets | add, backfill | the video channel |

`channel.*`, `channel_manager.*` and `engine/webrtc_voice_engine.*` are
commented out as a whole.

What is hard to test here: objects made and freed by tasks on one thread and
used through raw pointers on another; DTLS, ICE and negotiation events that
reach the SRTP layer in any order; descriptions that fail half way and are
retried; bundling followed by rollback; a ring buffer that is emptied partly; a
process-wide count shared by sessions on different threads; snapshots that are
read while their transport is taken away; parameters that are handed on as
differences to streams that came at different times; sizes, rates and payload
types at their limits.
`hazards` in `PROJECT.json` lists each of these at its line.

What makes each part correct:

- SRTP is active only under the keys of the present DTLS association, comes up
  whichever event is last, and reports writable and ready only when it may;
- the collection frees a transport when and only when nothing needs it;
- after an exchange both ends agree on mux, DTLS and roles, and RTCP always
  has a channel;
- tasks and callbacks find the objects they were posted for, and an offer does
  get ICE started;
- the stash loses packets only to make room and returns them in order;
- libsrtp is up exactly while it is used, and a protected packet fits its
  buffer;
- a snapshot is never older than what was reported, closed is final, and an
  SCTP transport notices the end of its DTLS transport unless its association
  comes up afterwards;
- every send stream has the codec, the SSRCs and the parameters that the channel
  and the last description say;
- what the video engine computes is what its callers take it to be, and an offer
  that was written can be read.

## Modules

**SrtpTransport, DtlsSrtpTransport** (`rtp_transport.cc`, `srtp_transport.cpp`,
`dtls_srtp_transport.cpp`).  `SrtpTransport` has no variables: an object is a
record of its fields (`mux`, `rtp`, `rtcp`, the ready flags, four sessions,
`writable`) and each method is an operator from record to record, so that the
calls inside a handler compose as they do in the code.  `DtlsSrtpTransport` adds
the variables: the DTLS transports of libice (`dtls`), the object (`tr`), the
negotiated header extension ids (`ids`) and a history of sends refused with
ENOTCONN (`enotconn`).  A key is the transport, the handshake's number and the
writing side; that is all the properties tell apart.  libice is the environment:
it changes a DTLS state or writability and calls the subscribed handler in the
same step, as its signals are synchronous.  What libsrtp answers to a key is a
choice (`Outcomes`).  The `RTC_CHECK` against adding an RTCP transport while
active is taken as a precondition.  RTP and SRTP run on one thread, so a handler
is one step.

**JsepTransportCollection** (`jsep_transport_collection.cc`).  `owner`,
`current` and `stable` are the code's three maps; `view` is what the subscriber
was told, `refused` whether it ever refused, `aggregate` the transports in the
last aggregate state.  A transport that is not owned is destroyed, so a dangling
pointer is a mapped transport without owner.  `Reregister` says whether a name
that is still registered may be registered again, as
`transport_controller::set_remote_sdp` does when it is called twice.

**RtcpMuxFilter, JsepTransport, OfferAnswer** (`rtcp_mux_filter.cpp`,
`jsep_transport.cpp`).  The first two are operators on records that return the
new object and whether the call succeeded; on an error path the record keeps
exactly what the code had changed by then.  `OfferAnswer` lets two of them
negotiate.  The signalling between them is the application's and not in the
repository; it is modelled as reliable and ordered, one exchange at a time,
with provisional answers, with retries after a failed local description and
giving up after a failed remote one.

**PeerConnection** (`cp2p_peerconnection.cpp`, `ctransport_controller.cpp`,
`connection_context.cc`).  `queue` is the network thread's task queue with the
tasks each call posts in the code's order and the pointers they capture; an
`Invoke` is a posted task and a second step of the caller.  Objects that get
replaced are numbered, so that using an old number is a use after free.  A step
that would dereference a null or freed pointer records it in `fault` and nothing
runs after it.  `orderly` is chosen once at the start: does the application wait
for the constructor's tasks, set one good description, make one offer and drain
the pacer before it lets go, or does it do anything at any time?

**PacketStash, UnhandledPacketsBuffer** (`engine/unhandled_packets_buffer.cpp`).
`PacketStash` is what the buffer promises: a bounded set of packets from which
one is lost only when a packet arrives and there is no room, and a backfill
hands out exactly the packets of the streams it names.  `UnhandledPacketsBuffer`
is the ring with its insert position; it is shown to implement `PacketStash`
with the set of the ring's contents as refinement mapping.  The pass over the
ring that a backfill makes is the recursive function `Of`, one round per packet.

**SrtpSession** (`srtp_session.cpp`).  Every session has a thread of its own,
which is idle, keying, dying or gone.  `SetKey` and the destructor are two steps
each: the usage count changes under the process-wide lock, the libsrtp session
after it.  libsrtp may fail in each of the three calls of its initialisation, in
its shutdown, and may refuse a key.  A key is its direction, its suite and
whether it fits; a policy, a suite and external authentication.  `leaked` counts
the uses a repeated `SetKey` takes and the destructor never gives back;
`libFailed` remembers an initialisation that stopped half way.

**TransportWrappers** (`dtls_transport.cpp`, `ice_transport.cc`,
`sctp_transport.cc`).  `dtls` holds the wrappers, each with the state of the
libice transport it owns, `sctp` the SCTP transport, `net` the place of the
network thread in `Clear`: after the locked section, and before the transport
that was taken is destroyed.  `Read` is another thread that asks for the
snapshot at any time.  Whether libice's transport signals from its destructor is
chosen at the start (`signals`), as the code's comment says it does and the
source is not in the repository.  `misused` records sequences of calls that
`JsepTransport`, the only user, does not make.  The association comes up whenever
the SCTP library says so, whatever has become of the DTLS transport: the handler
checks nothing (`sctp_transport.cc:156`), and `late` remembers that the DTLS
transport had ended by then.

**VideoChannel** (`engine/webrtc_video_engine.cpp`).  The variables are the
channel's members; a stream is a record of what its constructor and setters
keep.  The code creates no `VideoSendStream` and no worker thread at this
commit, so every path that dereferences `stream_` or `worker_thread_`, and every
failed `RTC_CHECK`, ends the process: `crashed` says why, and the rest of the
state is then reset, so that nothing is claimed of a dead channel.
`GetChangedSendParameters` and `ApplyChangedParams` are modelled field by field,
since the properties are about differences.  A request for another encoder
names a codec and, if it likes, one of its parameters and its value
(`CodecToSwitchTo`).

**VideoCodecs, EncoderStreams, SenderStatistics, RtpParameters,
SessionDescriptions, BundleManager** are operators without variables, one per
function of the code: payload types, codec selection, header extensions, SSRC
associations and merging of statistics; simulcast layers and encoder streams;
reports of a sender; parameters of a sender, encoder settings and degradation
preference; offers as lines of SDP and their parser, with what the transport
controller then needs; bundle groups.

What the encoder is told is modelled from one end to the other.  `EncoderConfig`
(`RtpParameters`) is `CreateVideoEncoderConfig`: `IsCodecDisabledForSimulcast` is
true for every codec and `disable_automatic_resize_` is true from the constructor
on (`webrtc_video_engine.cpp:2092`), so a channel asks for one stream however many
encodings a sender has, and never for resizing; the operators keep both constants,
and the code behind them.  `IsStreamActive` is what `UpdateSendState` makes of the
encodings.  `EncoderStreams` takes any number of streams, as the factory does, and
every field trial that the code looks up: low-resolution rates, the limit on layers
with its ratio (`roundUp`), the exponent that sizes are rounded to, the minimum of
the lowest layer, temporal layers.

**SequentialParts** calls them
(`Calls`): an action takes one input of the instance and keeps it with the
answer, and the bundle manager is driven through sequences of calls.
`VideoChannel` uses the operators of `VideoCodecs` directly.

A loop of the code is written in one of two ways.  A loop that carries
something from turn to turn is a recursive function from the turns to what they
leave (`after` in `ReadLines` and in `GetAggregatedVideoSenderInfo`, `sum` in
`SumOf`).  A loop that picks, drops or sorts is written by its result, with the
operators of **Lists**: `Picked` is what a list has at some places, in order,
`Nth` and `InOrder` the n-th member of a set by number or by an order, `SumOf`
the sum of a list.  So `SelectSendVideoCodecs` picks the remote codecs that a
local format is left for, `SortExtensions` puts extensions in the order of the
comparison (equal ones as they were listed, where `absl::c_sort` may choose;
the properties say nothing of lists that repeat an extension), and `Unique` and
`DiscardRedundantExtensions` pick what they do not erase.

A bundle manager has `groups`, the look-up `byMid` from mids to places in
`groups`, and two notes of the model: `defined` is false once an element past
the end of the look-up was erased, `shared` is true once two groups have had a
mid in common.

The `MC...` modules extend these for TLC and add inputs and symmetry sets.  Operators
marked "Mutant:" are deliberate mistakes used to show that each property can be
broken; no specification uses them.

## Runs

| Run | Shows | Bounds |
|---|---|---|
| `dtls_srtp_mux` | `KeysAreCurrent`, `WritableNeedsHandshake`, `ReadyIsHonest`, `IdsAreApplied` as the controller uses the class: no RTCP transport, libsrtp may refuse keys | two RTP transports (a change of transport), two id lists, one handshake each |
| `dtls_srtp_rtcp` | `SrtpFollowsDtls` with a separate RTCP transport, mux turned on and off and keys reset on close: SRTP comes up whichever event is last | one transport of each kind, two handshakes each (a renewed association); transports turn writable only over a finished handshake, plain ICE being covered by `dtls_srtp_mux` |
| `collection` | `IsConsistent`, `PointersAreOwned`, `SubscribersAreInformed`, `AggregateIsActive` | three sections (two bundled and one apart) and three transports: a name owns at most one, so no more can be alive |
| `offer_answer` | `MuxAgrees`, `DtlsAgrees`, `RolesAreOpposite`, `RtcpHasAChannel` | two exchanges, so that the second renegotiates in either direction; two descriptions in flight (a provisional and a final answer); valid and invalid credentials; own, foreign and absent fingerprints |
| `peer_connection` | `CallbacksFindTheirObjects`, `OrderlyUseIsSafe`, `FreedControllerIsQuiet`, `OffersTakeEffect` | two descriptions and two offers (replaced objects), two packets and two RTCP reports waiting |
| `packet_buffer` | `OrderedUntilLeftOver`, `ImplementsStash` | capacity 3 of the code's 50, seven packets: two wrap-arounds; two streams |
| `srtp_session` | `LibsrtpFollowsUse` (`CountIsUsers`, `LibsrtpOutlivesSessions`, `UpOnlyInUse`), `KeyIsKnown` (`TagsAreOfTheKey`, `ExternalAuthIsOfTheKey`, `PacketFits`) | two sessions on two threads, five keys (both directions, three suites, one refused, one unsupported), two lengths, one use lost |
| `transport_wrappers` | `IcePointerIsLive`, `SnapshotsAreCurrent` (`SnapshotIsCurrent`, `SctpSnapshotIsCurrent`), `WithoutDtlsOnlyIfLate`, `CrashNeedsStaleSubscription`, `ClosedIsFinal`, `TakenIsReleased` | two DTLS transports, so that the SCTP transport can change over; one of them observed and read from another thread; a DTLS transport may start again from any state that is not an end |
| `video_channel` | `SsrcsAreOfStreams`, `ReportSsrcIsLive`, `StreamsAreCurrent` (`StreamsFollowChannel`, `EncoderFollowsOptions`, `RtxFollowsCodec`), `CodecsFollowDescriptions` (`CodecIsNegotiated`, `RecvCodecsFollow`), `CapFollowsDescription` | three descriptions that differ in every parameter, one of them without a common codec; three streams, one of which shares an SSRC with each of the others; two codecs, one with RTX and a cap; a switch by name and by parameter |
| `sequential_parts` | eight properties, one or two for each part, below | inputs listed in `MCSequentialParts`: four sizes, four kinds of encoding (codec, screen, conference mode) and settings of the field trials with exponents and minimums on either side of what the layers can take, up to three streams (or one stream for three encodings), each with no rate, a minimum or a maximum (or all with both), every mix of activity, three lists of scales; up to 46 formats (more than there are payload types); lists of up to four codecs and three extensions; every subset of a stream's statistics; all offers with up to three extra lines; parameters that differ in up to two fields, with and without a cap of description and codec; two policies and lists of groups of three mids, some with a mid in two groups |

A property that covers one idea in several parts is the conjunction of named
parts, in brackets above.  `sequential_parts` checks

- `LayersAreSound` of encoder streams: rates are in order (`RatesAreOrdered`,
  but in the settings `Starved` and `Overridden`, see the list that ends this
  section), sizes double from layer to layer (`StreamsNest`, exactly unless an
  experiment's exponent is too small), a layer the application has
  enabled survives the limit on layers (`FirstActiveIsPresent`), the cap is used
  up and not exceeded (`CapIsUsedUp`), and a minimum is handed down
  (`LowestMinimumIsReached`);
- `TypesAreUnambiguous`: an engine accepts its own codecs
  (`OwnCodecsAreAccepted`), payload types are not shared (`TypesAreNotShared`),
  and selection keeps the other side's order and uses a local format once
  (`SelectedAreCommon`);
- `ExtensionsAreSettled`: filtering does not depend on the order of the list
  (`ExtensionsAreAgreed`) and an engine accepts its own
  (`OwnExtensionsAreAccepted`);
- `ReportsAreExact`: bytes go to the stream they belong to, are reported only
  for a stream that has statistics, and add up (`StatisticsAreOfTheStream`,
  `ReportedHaveStatistics`, `ReportsAddUp`);
- `OffersAreUnderstood`: offers are read back and explain themselves
  (`OffersAreReadBack`, `OffersExplainThemselves`), and `UsableDescriptions`:
  which descriptions the controller survives;
- `EncoderIsUpToDate`: a change of parameters that is not passed on would have
  made no difference, to the encoder's settings, cap and streams
  (`EncoderHearsOfChanges`), to whether the stream sends (`StreamHearsOfChanges`)
  and to the degradation preference (`PreferenceIsKept`).  The encoder's side is
  computed from the old and the new parameters through `EncoderConfig` and
  `CreateEncoderStreams`, for every codec, screen or camera, cap and size;
- `BundleMapIsExact`: the look-up by mid is exact.

The type invariants are not checked by runs; they are proved.
Symmetry is used only where invariants alone are checked.  Deadlock is not
checked where the system may stop: a collection that is destroyed, an exchange
that has used its offers or failed, a connection that is gone, transports that
are all released, a channel whose process has ended.

Two properties are liveness.  `OffersTakeEffect` assumes weak fairness of the
network thread (its message loop runs what is posted) and of an application
thread that is inside `set_remote_sdp` (it returns from the `Invoke`).
`TakenIsReleased` assumes weak fairness of the two later parts of `Clear`: the
network thread does not stop in the middle of a function.  No call, callback or
packet has to happen.

Two runs show that the code does not do what a comment of its own says:

- `collection_lost_rollback`: registering a name again frees a transport that a
  bundled section or the snapshot still points to;
- `packet_buffer_order`: a backfill that leaves packets behind resets the insert
  position, and later packets come out in the wrong order.  The video channel's
  calls of the buffer are compiled out at this commit, so this is latent.

Other behaviour that surprises is in the models, without a run of its own:

- writability that changes after SRTP is active is not signalled, since
  `MaybeSetupDtlsSrtp` returns at once (`dtls_srtp_transport.cpp:328`);
- under rtcp-mux an RTCP send refused with ENOTCONN leaves the transport ready
  to send (`rtp_transport.cc:161`);
- a failed local description takes the one before it with it, and the next ICE
  restart is not noticed (`jsep_transport.cpp:222`); nothing reads the flag;
- `return -1` from a bool function accepts an SDP without a usable fingerprint
  (`cp2p_peerconnection.cpp:101`); `UsableDescriptions` says which descriptions
  the controller then survives.  A description with video only is not one of
  them, and an IPv6 candidate makes the whole description fail;
- a section without codecs makes the reader go past the end of its m= line
  (`OffersAreReadBack`);
- a `SetKey` that is repeated after a refused key counts twice
  (`CountIsUsers`), so libsrtp is then never shut down;
- a description that gives two bundle groups a mid in common, or puts an
  established mid into a second one, can make a later deletion erase past the
  end of a map (`BundleMapIsExact` excludes it);
- `x-google-max-bitrate` reaches a new stream's maximum through the channel's
  bit rates, and noise reduction for VP9 is on by default where a comment says
  off;
- conference mode for two screens, with a codec that has no temporal layers here
  and a field trial that counts on four, asks the upper stream for at least 400
  kbit/s and at most 312 (`simulcast.cpp:496` takes a quarter of 1250, line 524
  twice 200); `RatesAreOrdered` excludes this setting by name (`Starved`);
- the minimum that an experiment gives the lowest layer is not compared with the
  layer's rates, nor the others' when it is handed on, so it may be above target
  and maximum (`webrtc_video_engine.cpp:3685`, `Overridden`);
- sizes must be divisible by two to the number of layers less one, says a comment
  (`simulcast.cpp:194`), but an experiment's exponent takes the place of that
  number however small it is, and a layer may then be less than half of the next
  by a pixel (`StreamsNest`);
- an association that comes up after the DTLS transport has ended leaves the SCTP
  transport connected for good, and so does a DTLS transport that starts again
  (`sctp_transport.cc:156` and 176; `WithoutDtlsOnlyIfLate` says exactly when);
- with several encodings the one stream is active if any of them is, also if it
  has no rate or no frame rate and so cannot be sent (`webrtc_video_engine.cpp:2428`
  asks for `active`, line 2376 for `IsLayerActive`); switching the last such
  encoding off is not passed on, where nothing could be sent anyway
  (`StreamHearsOfChanges`);
- the activity of a first encoding without a rate, and the scalability modes of the
  other encodings, change without the encoder being told
  (`webrtc_video_engine.cpp:2339`).  It makes no difference only as long as one
  stream is asked for and resizing is off (`EncoderHearsOfChanges`).

## Proofs

`DtlsSrtpTransportProofs` proves, for every set of transports and of ids, every
bound on handshakes and every answer of libsrtp, `TypeCorrect`, `KeysStayCurrent`,
`WritableOverHandshake`, `ReadyStaysHonest`, `SrtpComesUp` (which assumes inside
the property that libsrtp refuses nothing) and `IdsReachSessions` (without RTCP
transports).  The invariant `IInv` adds to the type invariant:

- `Good`: active SRTP holds the current keys and writable implies active.  Keys
  alone are not inductive, because dropping them must also drop writability;
- `Follows`: completed handshakes over writable transports imply active SRTP;
- `Applied`: the sessions encrypt the ids that were negotiated last;
- `Honest`: ready to send is never reported beyond the two ready flags, and a
  flag that is set implies that its transport has not refused the last send.
  `ReadyIsHonest` speaks of the derived flag only and forgets the other
  transport's while mux is on.

The lemmas say what each method returns for any object and environment; one
lemma per action then shows that it keeps `IInv`.  Assumptions: `None` is no
transport, session or id list, RTP and RTCP transports are different objects,
and the empty list is a list.

`JsepTransportCollectionProofs` proves, for every set of sections and
transports, `TypeCorrect`, `NothingIsLeaked`, `NothingDangles` and
`AggregateStaysActive` under the assumption that no name is registered twice,
which `collection_lost_rollback` shows to be needed, and
`SubscribersStayInformed` without it.  The four invariants are inductive
together: that a pointer is live depends on ownership being unique and on
everything owned being kept, and that the aggregate state shrinks depends on the
transport that leaves it still being owned.  The same module proves
`BundleLookupIsExact` (`BundleMapIsExact`) of the bundle manager, for every
policy and every list of groups: as long as no two groups have had a mid in
common, the look-up by mid is exact for the current groups and for the stable
ones a rollback returns to, whatever is updated, deleted, rolled back and
committed.  Assumed is that a group has each mid once (`GroupsAssumption`), which
`ContentGroup::AddContentName` sees to.

`SrtpSessionProofs` proves, for every finite set of sessions and every set of
keys and lengths, `TypeCorrect`, `LibsrtpStaysInUse` (`LibsrtpFollowsUse`) and
`WrapperKnowsTheKey` (`KeyIsKnown`).  That libsrtp outlives
its sessions is not inductive: it needs the exact count (`CountIsUsers`), that
every session with a context or in the middle of `SetKey` is counted
(`UsersAreCounted`), and that libsrtp is up while the count is positive
(`UpWhileCounted`).  The finite-set theorems of the library say what joining and
leaving does to the number of users.

`TransportWrappersProofs` proves, for every set of DTLS transports,
`TypeCorrect`, `IcePointerStaysLive`, `SnapshotsStayCurrent`,
`ConnectedOverDtls` (`WithoutDtlsOnlyIfLate`), `CrashIsStaleSubscription` and the action property
`ClosedStaysFinal`.  The invariant describes what holds
inside `Clear` (`Good(d, taking)`, `NetIsInClear`: the snapshot still is the
state of the transport that was taken), ties the subscription to the transport
in use (`SubscribedToTheCurrent`), and says that what another thread has seen
closed is closed (`SeenAreClosed`), from which the action property follows.

`OfferAnswerProofs` proves, for any number of exchanges and of descriptions in
flight, `Types`, `RtcpAlwaysHasAChannel`, `MuxAlwaysAgrees`, `DtlsAlwaysAgrees`
and `RolesAreAlwaysOpposite`.  That the two sides agree when nothing is under way
says nothing of an exchange half way through, so `ExchangeInvariant` names its
stages: the offer is on its way (`Offered`), the answerer has it and has answered
provisionally at most (`Answering`), the final answer is on its way behind the
provisional ones and the answerer has settled on it (`Answered`).  The lemmas say
that the final answer alone decides filter, mux, DTLS and role on either side,
whatever provisional answers and failed attempts left behind.  That RTCP keeps a
channel needs that its transport is given up only for an active filter, which
never goes back (`RtcpKept`).  Assumptions: two peers; the connection roles and
fingerprints a description carries are those of the code's types.

Of the descriptions themselves it proves `OffersStayUnderstood`
(`OffersAreUnderstood`) and `DescriptionsStayUsable` (`UsableDescriptions`), for
all options and any number of further lines (`DescriptionsAreKept` says that the
result at hand is what was read).  The reader is a loop; what its turns leave is
followed through the lines of an offer and then, by an invariant over the
position, through the lines behind it: the first section stays the one for audio,
the bundle stays as it was read, and the last fingerprint that counts decides.
Assumed (`DescriptionsAssumption`) is that the further lines bring no bundle and
no second section for audio or video, as those of the programs the offers are
exchanged with, and that a fingerprint line has a fingerprint.

`PeerConnectionProofs` proves, for every bound on descriptions, offers, frames,
reports and the queue, `Types`, `CallbacksAreSafe`, `FreedControllerStaysQuiet`
and `OrderlyUse`.  The three safety properties say only that some faults do not
happen; what makes them inductive is the order of the tasks in the network
thread's queue (`OrderInvariant`): the context's parts come before the controller
(`ConstructorOrder`), nothing but the pacer's tasks comes behind the destructor's
(`DestructorOrder`), at most one transport is asked for at a time and the
application waits for it (`TransportOrder`), the send side comes before the task
that makes the transport gather (`SendOrder`), and in orderly use every pending
task is of the one description and the one transport (`OrderlyOrder`).

`UnhandledPacketsBufferProofs` proves, for every capacity, `Invariance`,
`OrderedStreams` and the refinement `RingImplementsStash`.  What the pass `Of`
computes is an induction over the list; the library's induction theorems cannot
be used, so it is a least counterexample: the rounds after which the claim fails
are a set of numbers, which by well-foundedness of `<` has a least element, and
the round before that one refutes it.  The claim is that the result has exactly
the packets of the streams asked for, in the order of the list.  The other part
is the arithmetic of a ring that has wrapped around: starting at the insert
position, `(i + start) % Capacity` visits each place once.  `IInv` needs both that
a packet is held once and with a number that has arrived (`RingIsExact`) and that
the ring read from its start is in order until packets are left over
(`RingIsOrdered`); the order of what was handed out follows, and so does that
dropping one packet makes room for one.

`VideoChannelProofs` proves, for every set of descriptions, codecs, formats and
streams, seven properties along five inductive invariants:

- `SsrcsStayOfStreams`, `StreamsStayCurrent` and `KeptSwitchStaysPending`: added
  is the shape of a stream and that it is known by one of its own SSRCs, without
  which adding one could replace another;
- `ReportSsrcStaysLive` (`ReportInv`): the map is one from numbers, so that the
  first of its keys, which a removal falls back to, is a key;
- `CapStaysFollowing` (`CapInv`): the cap is a function of the description's
  bandwidth and the codec in use;
- `CodecStaysNegotiated` (`CodecInv`): a fallback and a switch take a codec of
  the negotiated list, and its parameters are all they change;
- `CodecsStayFollowing` (`RecvInv`): two lists that are equal element by element
  when sorted have the same codecs.  A codec's place in the sorted list is the
  number of codecs with higher payload types; as no two codecs of a list share one,
  counting makes this a bijection between codecs and places.

Assumptions, which TLC evaluates in the run `video_channel`: descriptions have the
fields they are compared by and a stream a list of SSRCs; a bandwidth is a rate, 0
or `kAutoBandwidth` (a lower one would be stored and then ignored,
`webrtc_video_engine.cpp:869`, and the cap would not follow); the lists of a
description are lists of codecs and those of a factory lists of formats
(`FormatsAssumption`); and `None` is no setting.  That `MapCodecs` returns settings
with different payload types and `SelectSendVideoCodecs` a list of settings is
proved (`MappedAreLists`, `CommonAreCodecs`).

The same module proves what the engine's functions return when they are called by
themselves.  `AnswersAreKept` says that the answer at hand is that of the last
call; with it

- `TypesStayUnambiguous` (`TypesAreUnambiguous`), for every list of formats and of
  codecs.  An engine gives out the types of two ranges one after the other and stops
  at their end; `MapCodecs` accepts a list only if its types differ; a selected codec
  uses up one place of the list of local formats;
- `ExtensionsStaySettled` (`ExtensionsAreSettled`), for every list of extensions.
  Where no extension is repeated the comparison orders the members of the list
  strictly, so that what is sorted depends on the set alone (`SortedIsOfSet`), and
  with it everything that follows; the absolute send time comes first of the two
  that exclude each other;
- `ReportsStayExact` (`ReportsAreExact`), for every stream and every set of SSRCs
  with statistics.  What refers to a media SSRC is its RTX stream and FlexFEC, if
  they have statistics, and nothing else, so the merged bytes are a sum of at most
  two (`MergedAre`); every turn of the loop that adds up reports leaves the sum, the
  largest size and the quantisers of the reports so far (`AggregatedAre`);
- `EncoderStaysUpToDate` (`EncoderIsUpToDate`), for every set of parameters, caps,
  sizes and field trials.  The encodings that the comparison of the code sees as
  equal are equal but for activity without a rate and the modes of all but the first
  (`EncodingsAreKept`); with one stream for all encodings the streams are those of
  the first (`SameStreamIs`, and `LegacyStreamIs` for conference mode, where a single
  layer goes through the simulcast path);
- `LayersStaySound` (`LayersAreSound`), for every size, cap and setting of the
  field trials and every choice of up to three layers.  The argument goes the way
  the streams go: rates interpolated between two resolutions of the table are in
  order because those of the table are (`InterpolatedIs`, where the weight is a
  fraction of pixels and the order survives rounding down); an experiment's minimum
  takes the lowest layer out of the order and nothing else (`BaseLayersAre`, where
  `Excused` says which layers are); a minimum or a maximum of the application puts
  the rates in order even then (`ConfiguredIs`), and what is left of the cap leaves
  them so (`BoostedAre`); the minimum of the lowest layer can be handed down because
  the layers are ranked by their maximum, and takes its excuse along (`ByRateIs`,
  `HandedDown`, `SimulcastIs`).  Of sizes it needs that a number rounded down to a
  multiple of a power of two is halved exactly if the power is large enough, and up
  to one otherwise (`SizesNest`).

Their assumptions are evaluated in the run `sequential_parts`: sizes are numbers, an
encoder has one to three streams and a layer for each, an experiment's exponent is
at most 5 (the library's `NormalizeSimulcastSizeExperiment`, which is not under
`src/`, takes no other), and the minimum of a layer is not above its
maximum where both are set (`ConfigsAssumption`; `CheckRtpParametersValues` refuses
anything else, and `RTC_CHECK_LT` in `DefaultNumberOfTemporalLayers` a fourth
stream); lists are lists of
codecs, and a factory has no formats for RTX, RED or FEC (`CodecListsAssumption`;
the engine adds those itself); names of extensions are numbers in the order of the
names, and the absolute send time is supported (`ExtensionsAssumption`; the code's
list has it); the SSRCs of a stream are all different, either none or each of the
media SSRCs has an RTX stream, and FlexFEC has an SSRC of its own and protects
something (`RtpConfigsAssumption`: an SSRC names one stream, `ValidateStreamParams`
sees to the RTX streams and the constructor of a send stream gives FlexFEC its SSRC
and what it protects; a payload type alone makes no FlexFEC stream, so there are no
statistics of one); and encodings have the fields of `RtpEncodingParameters`
(`EncodingsAssumption`).

Proofs about loops follow one pattern, since the library's induction theorems
cannot be used: first that the recursive function is defined at every turn, then a
claim about what a turn leaves, both by a least counterexample, that is the first
turn at which it fails and the one before, at which it holds.

Only model-checked is liveness (`OffersTakeEffect`, `TakenIsReleased`), which is
out of the prover's reach; every invariant of the runs is a theorem, as is the
refinement of the stash and the action property of the transport wrappers.

## Not modelled

libice, libsrtp and usrsctp themselves; packetising and bit rate control;
interfaces and plain data; the files that are commented out.
`UpdateAggregateStates_n` has no live statement and the reversed ICE role is
computed and not applied.  Of the parts modelled: RTP reception and
demultiplexing, SDES keys, candidates of `JsepTransport`,
`RtcpMuxFilter::SetActive`, which nothing calls, receive streams of the video
channel, which are commented out, and statistics that are copied field by field.
The 16-bit counters of `cp2p_peerconnection.cpp:650` are incremented by two
threads without a lock: numbers may repeat or be skipped whenever the threads
meet, and no property of the code survives that, so they have no module.

Two behaviours of `DtlsSrtpTransport` with a separate RTCP transport are
modelled and have no property, since nothing in the repository makes one: RTCP
keys are not installed once RTP made SRTP active (`dtls_srtp_transport.cpp:187`),
and RTCP sessions survive a change of transport when RTP was never keyed (line
57).  Setting an RTCP transport after SRTP is active aborts the process (line
68), which the model takes as a precondition.  `DestroyAllTransports` drops the
subscriber's references by name of transport and not by mid
(`jsep_transport_collection.cc:197`); nothing calls it.  The destructor of the
peer connection releases its context by hand (`cp2p_peerconnection.cpp:217`);
reference counts are not modelled.

## Order of work and what is left

In the order of importance: the keys (`DtlsSrtpTransport`), ownership
(`JsepTransportCollection`), negotiation (`OfferAnswer`), threads and lifetimes
(`PeerConnection`), the stash, the process-wide count (`SrtpSession`), snapshots
(`TransportWrappers`), the video channel (`VideoChannel`), and the functions
that compute (`SequentialParts`).

Left: the receive path, once it is compiled in, and the sections of an offer that
the reader takes from other programs and that the lines of `MCSequentialParts` do
not have.
