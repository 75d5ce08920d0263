---------------------------- MODULE BundleManager ----------------------------
(***************************************************************************)
(* BundleManager (jsep_transport_collection.cc): the bundle groups of a    *)
(* session as a record, with one operator per method.  A group is the      *)
(* sequence of its mids; a pointer to a group is its place in groups.      *)
(***************************************************************************)
EXTENDS Lists, Sequences, SequencesExt, Functions

NewBundleManager(policy) ==
    [policy |-> policy,
     groups |-> <<>>,       \* bundle_groups_
     stable |-> <<>>,       \* stable_bundle_groups_
     byMid |-> <<>>,        \* established_bundle_groups_by_mid_
     shared |-> FALSE,      \* history: two groups have had a mid in common
     defined |-> TRUE]      \* no element at end() was erased

HaveCommonMid(groups) ==
    \E i, j \in DOMAIN groups : i # j /\ ToSet(groups[i]) \cap ToSet(groups[j]) # {}

\* A later group takes over the mids it shares with an earlier one.
RefreshEstablishedBundleGroupsByMid(b) ==
    LET mids == UNION {ToSet(b.groups[i]) : i \in DOMAIN b.groups}
        LastWith(m) == CHOOSE i \in DOMAIN b.groups :
                           /\ Contains(b.groups[i], m)
                           /\ \A j \in i + 1 .. Len(b.groups) : ~Contains(b.groups[j], m)
    IN  [b EXCEPT !.byMid = [m \in mids |-> LastWith(m)],
                  !.shared = @ \/ HaveCommonMid(b.groups)]

\* The mids of a description's groups with these semantics.
GetGroupsByName(groups, name) ==
    LET named == Picked(groups, {i \in DOMAIN groups : groups[i].semantics = name})
    IN  [i \in DOMAIN named |-> named[i].names]

\* The mids of a group that have an established group.
KnownMids(b, group) == {k \in DOMAIN group : group[k] \in DOMAIN b.byMid}

\* The offered groups that replace an established one: it is that of the
\* first mid that has one.
Replacing(b, bundles, place) ==
    {n \in DOMAIN bundles :
        /\ KnownMids(b, bundles[n]) # {}
        /\ b.byMid[bundles[n][Min(KnownMids(b, bundles[n]))]] = place}

\* An offer; of several groups the last one stays.
ReplaceGroups(b, bundles) ==
    [b EXCEPT !.groups =
        [place \in DOMAIN @ |-> IF Replacing(b, bundles, place) = {} THEN @[place]
                                ELSE bundles[Max(Replacing(b, bundles, place))]]]

\* Mutant: the lookup by mid is not renewed after an offer.
OfferWithoutRefresh(b, groups, type) ==
    LET bundles == GetGroupsByName(groups, "BUNDLE")
    IN  IF b.policy = "max-bundle" \/ type = "answer"
        THEN RefreshEstablishedBundleGroupsByMid([b EXCEPT !.groups = bundles])
        ELSE IF type = "offer" THEN ReplaceGroups(b, bundles) ELSE b

\* Update, with the groups of the description.  The lookup is renewed if a
\* group has changed.
UpdateBundles(b, groups, type) ==
    LET bundles == GetGroupsByName(groups, "BUNDLE")
    IN  IF b.policy = "max-bundle" \/ type = "answer"
        THEN RefreshEstablishedBundleGroupsByMid([b EXCEPT !.groups = bundles])
        ELSE IF type = "offer" /\ \E n \in DOMAIN bundles : KnownMids(b, bundles[n]) # {}
        THEN RefreshEstablishedBundleGroupsByMid(ReplaceGroups(b, bundles))
        ELSE b

LookupGroupByMid(b, mid) == IF mid \in DOMAIN b.byMid THEN b.byMid[mid] ELSE 0

\* Mids without a group lead themselves.
IsFirstMidInGroup(b, mid) ==
    LookupGroupByMid(b, mid) # 0 => mid = Head(b.groups[LookupGroupByMid(b, mid)])

RemoveContentName(group, mid) == RemoveFirst(group, mid)

\* The lookup is erased without a check.
DeleteMid(b, place, mid) ==
    [b EXCEPT !.groups[place] = RemoveContentName(@, mid),
              !.byMid = Restrict(@, DOMAIN @ \ {mid}),
              !.defined = @ /\ mid \in DOMAIN b.byMid]

\* DeleteMid for all mids of the group, which are different, and then the
\* group itself goes.
DeleteGroup(b, place) ==
    LET mids == ToSet(b.groups[place])
    IN  [b EXCEPT
            !.groups = RemoveAt(@, place),
            !.byMid = [m \in DOMAIN @ \ mids |-> IF @[m] > place THEN @[m] - 1 ELSE @[m]],
            !.defined = @ /\ mids \subseteq DOMAIN b.byMid]

RollbackBundles(b) == RefreshEstablishedBundleGroupsByMid([b EXCEPT !.groups = b.stable])

CommitBundles(b) == [b EXCEPT !.stable = b.groups]
=============================================================================
