------------------------------- MODULE Quota --------------------------------
(***************************************************************************)
(* The space accounting of a btrfs config: the search of the quota tree in *)
(* batches (snapper/BtrfsUtils.cc), the qgroup of the config (Snapper::    *)
(* setupQuota, prepareQuota, queryQuotaData, Btrfs::evalConfigInfo), the   *)
(* membership of snapshots in it (Btrfs::createSnapshot), and Btrfs::sync, *)
(* which waits for the subvolumes that this Snapper object deleted.        *)
(*                                                                         *)
(* The daemon runs each operation under its exclusive lock.  The kernel    *)
(* frees deleted subvolumes later, and the administrator enables, disables *)
(* and changes quota with other tools.                                     *)
(***************************************************************************)
EXTENDS Integers, SequencesExt, FiniteSetsExt

CONSTANTS
    QuotaNums,   \* numbers of snapshots
    MaxSubvol,   \* bound: subvolume ids are 1 .. MaxSubvol
    Batch,       \* sk->nr_items, how many items one ioctl returns at most
    MaxAdmin     \* bound: how often the administrator interferes or writing fails

VARIABLES
    quotaOn,     \* quota is enabled on the filesystem
    qgroups,     \* the qgroups, as numbers
    relations,   \* pairs of a qgroup and the higher one it is assigned to
    subvols,     \* subvolumes the kernel has, deleted but not freed included
    snaps,       \* Snapshots: the subvolume and cleanup algorithm of each number
    config,      \* QGROUP in the config file
    qgroup,      \* Btrfs::qgroup
    deleted,     \* Btrfs::deleted_subvolids
    nextSubvol,  \* the next subvolume id; the kernel uses none twice
    owed,        \* history: what this object deleted since the config was loaded
    admin,       \* how often the administrator interfered or writing failed
    prepared,    \* history: prepareQuota succeeded, and since then no cleanup algorithm changed
    reply        \* the answer to the last query, or NoReply

kernelVars == <<quotaOn, qgroups, relations, subvols, nextSubvol>>
quotaVars == <<kernelVars, snaps, config, qgroup, deleted, owed, admin, prepared, reply>>

-----------------------------------------------------------------------------
(* The numbers of qgroups and the quota tree.                              *)

(* BTRFS_QGROUP_LEVEL_SHIFT is 48; here three bits hold an id.             *)
Shift == 8
NoQgroup == 0
calc_qgroup(level, id) == level * Shift + id
get_level(q) == q \div Shift
get_id(q) == q % Shift

INFO == 1
LIMIT == 2
RELATION == 3

Largest == 9 * Shift    \* no objectid or offset is as large
NoReply == [kind |-> "none", value |-> 0, expected |-> 0]
Replied(kind, value, expected) == [kind |-> kind, value |-> value, expected |-> expected]

(* The items of the tree by their keys <<objectid, type, offset>>; a       *)
(* relation is stored in both directions.                                  *)
Items ==
    {<<0, t, q>> : t \in {INFO, LIMIT}, q \in qgroups}
        \cup {<<r[1], RELATION, r[2]>> : r \in relations}
        \cup {<<r[2], RELATION, r[1]>> : r \in relations}

Less(a, b) ==
    \/ a[1] < b[1]
    \/ a[1] = b[1] /\ a[2] < b[2]
    \/ a[1] = b[1] /\ a[2] = b[2] /\ a[3] < b[3]

(* ioctl(BTRFS_IOC_TREE_SEARCH): the first items of the tree whose keys,   *)
(* as a whole, lie between the two.                                        *)
Ioctl(min, max) ==
    LET found == {k \in Items : ~Less(k, min) /\ ~Less(max, k)}
        Nth(i) == CHOOSE k \in found : Cardinality({j \in found : Less(j, k)}) = i - 1
    IN  [i \in 1..Min({Batch, Cardinality(found)}) |-> Nth(i)]

(* BtrfsUtils::qgroups_tree_search: rounds of the ioctl, each from behind  *)
(* the last item on; the callback sees the items that match by themselves. *)
qgroups_tree_search(type, low, high) ==
    LET max == <<Largest, type, high>>
        Match(k) == k[2] = type /\ k[3] \in low..high
        round[min \in Nat \X Nat \X Nat] ==
            LET items == Ioctl(min, max)
                last == Last(items)
            IN  IF items = <<>> THEN <<>>
                ELSE SelectSeq(items, Match)
                         \o IF last[3] < Largest THEN round[<<last[1], last[2], last[3] + 1>>]
                            ELSE <<>>
    IN  round[<<0, type, low>>]

does_qgroup_exist(q) == quotaOn /\ qgroups_tree_search(INFO, q, q) # <<>>

(* BtrfsUtils::qgroup_find_free: id 0 if it is free, otherwise the id      *)
(* behind the first qgroup that no qgroup follows.                         *)
qgroup_find_free(level) ==
    LET items == qgroups_tree_search(INFO, calc_qgroup(level, 0), calc_qgroup(level, Shift - 1))
        found == [i \in DOMAIN items |-> items[i][3]]
        gaps == {i \in 1..(Len(found) - 1) : get_id(found[i]) + 1 < get_id(found[i + 1])}
    IN  IF found = <<>> \/ get_id(found[1]) # 0 THEN calc_qgroup(level, 0)
        ELSE calc_qgroup(level, get_id(found[IF gaps = {} THEN Len(found) ELSE Min(gaps)]) + 1)

(* BtrfsUtils::qgroup_query_relations, qgroup_query_children.              *)
qgroup_query_children(parent) ==
    IF get_level(parent) = 0 THEN {}
    ELSE {q \in {k[1] : k \in ToSet(qgroups_tree_search(RELATION, parent, parent))} :
              get_level(q) = get_level(parent) - 1}

(* The kernel: what is exclusive to the qgroup.  A subvolume, deleted or   *)
(* not, has one unit of its own.                                           *)
Exclusive(q) ==
    Cardinality({s \in subvols : calc_qgroup(0, s) = q \/ <<calc_qgroup(0, s), q>> \in relations})

(* BtrfsUtils::qgroup_query_usage: the callback reads the item at the      *)
(* beginning of the buffer.                                                *)
qgroup_query_usage(q) == Exclusive(Ioctl(<<0, INFO, q>>, <<Largest, INFO, q>>)[1][3])

-----------------------------------------------------------------------------

Exist == {n \in QuotaNums : snaps[n].id # 0}
Live == {snaps[n].id : n \in Exist}
Absent == [id |-> 0, cleanup |-> FALSE]

(* The snapshots in the qgroup of the config, and the ones that should be. *)
Members == {n \in Exist : <<calc_qgroup(0, snaps[n].id), qgroup>> \in relations}
WithCleanup == {n \in Exist : snaps[n].cleanup}

Init ==
    /\ quotaOn = FALSE /\ qgroups = {} /\ relations = {}
    /\ subvols = {} /\ nextSubvol = 1
    /\ snaps = [n \in QuotaNums |-> Absent]
    /\ config = NoQgroup /\ qgroup = NoQgroup /\ deleted = {} /\ owed = {}
    /\ admin = 0 /\ prepared = FALSE /\ reply = NoReply

(* The daemon is not in a call of sync, and its reply was taken.           *)
Calm == reply = NoReply

(* quota_enable: the kernel makes a qgroup for each subvolume it has.      *)
Enabled == IF quotaOn THEN qgroups ELSE {calc_qgroup(0, s) : s \in subvols}

(* Snapper::setupQuota: enables quota, creates a free qgroup of level 1    *)
(* and writes it to the config.  Writing the config fails after the qgroup *)
(* was created.                                                            *)
SetupQuota ==
    /\ Calm /\ qgroup = NoQgroup
    /\ quotaOn
    /\ LET free == qgroup_find_free(1)
       IN  /\ get_level(free) = 1
           /\ qgroups' = qgroups \cup {free}
           /\ \/ config' = free /\ qgroup' = free /\ UNCHANGED admin
              \/ admin < MaxAdmin /\ admin' = admin + 1 /\ UNCHANGED <<config, qgroup>>
    /\ prepared' = FALSE
    /\ UNCHANGED <<quotaOn, relations, subvols, nextSubvol, snaps, deleted, owed, reply>>

(* The first call of setupQuota is to quota_enable.                        *)
QuotaEnable ==
    /\ Calm /\ qgroup = NoQgroup /\ ~quotaOn
    /\ quotaOn' = TRUE /\ qgroups' = Enabled
    /\ UNCHANGED <<relations, subvols, nextSubvol, snaps, config, qgroup, deleted, owed, admin,
                   prepared, reply>>

(* Btrfs::evalConfigInfo: when the config is loaded, the object starts     *)
(* with no deleted subvolumes, and uses the qgroup only if it exists.      *)
Load ==
    /\ Calm
    /\ qgroup' = IF config # NoQgroup /\ does_qgroup_exist(config) THEN config ELSE NoQgroup
    /\ deleted' = {} /\ owed' = {}
    /\ prepared' = (prepared /\ qgroup' = qgroup)
    /\ UNCHANGED <<kernelVars, snaps, config, admin, reply>>

(* Snapshots::createHelper, Btrfs::createSnapshot, createSnapshotOfDefault *)
(* and create_snapshot: a snapshot with a cleanup algorithm inherits the   *)
(* qgroup of the config, which the kernel ignores when there is none.      *)
CreateSnapshot(n, cleanup) ==
    /\ Calm /\ snaps[n] = Absent /\ nextSubvol <= MaxSubvol
    /\ snaps' = [snaps EXCEPT ![n] = [id |-> nextSubvol, cleanup |-> cleanup]]
    /\ subvols' = subvols \cup {nextSubvol} /\ nextSubvol' = nextSubvol + 1
    /\ qgroups' = IF quotaOn THEN qgroups \cup {calc_qgroup(0, nextSubvol)} ELSE qgroups
    /\ relations' = IF cleanup /\ qgroup \in qgroups
                    THEN relations \cup {<<calc_qgroup(0, nextSubvol), qgroup>>} ELSE relations
    /\ UNCHANGED <<quotaOn, config, qgroup, deleted, owed, admin, prepared, reply>>

(* Snapshots::modifySnapshot leaves the qgroups alone.                     *)
ModifySnapshot(n) ==
    /\ Calm /\ n \in Exist
    /\ snaps' = [snaps EXCEPT ![n].cleanup = ~@]
    /\ prepared' = FALSE
    /\ UNCHANGED <<kernelVars, config, qgroup, deleted, owed, admin, reply>>

(* Btrfs::deleteSnapshot, delete_subvolume: the kernel frees the subvolume *)
(* later and keeps its qgroup.                                             *)
DeleteSnapshot(n) ==
    /\ Calm /\ n \in Exist
    /\ snaps' = [snaps EXCEPT ![n] = Absent]
    /\ deleted' = deleted \cup {snaps[n].id} /\ owed' = owed \cup {snaps[n].id}
    /\ UNCHANGED <<kernelVars, config, qgroup, admin, prepared, reply>>

(* Mutant: snapshots that lost their cleanup algorithm stay included.      *)
PrepareQuotaAssigns ==
    /\ Calm /\ qgroup # NoQgroup
    /\ LET children == qgroup_query_children(qgroup)
           missing == {n \in Exist : calc_qgroup(0, snaps[n].id) \notin children /\ snaps[n].cleanup}
       IN  /\ qgroup \in qgroups /\ \A n \in missing : calc_qgroup(0, snaps[n].id) \in qgroups
           /\ relations' = relations \cup {<<calc_qgroup(0, snaps[n].id), qgroup>> : n \in missing}
    /\ prepared' = TRUE
    /\ UNCHANGED <<quotaOn, qgroups, subvols, nextSubvol, snaps, config, qgroup, deleted, owed,
                   admin, reply>>

(* Snapper::prepareQuota: snapshots with a cleanup algorithm are assigned, *)
(* the others removed, one after the other; it stops at one that fails     *)
(* since a qgroup is missing.                                              *)
PrepareQuota ==
    /\ Calm /\ qgroup # NoQgroup
    /\ LET children == qgroup_query_children(qgroup)
           Of(n) == calc_qgroup(0, snaps[n].id)
           missing == {n \in Exist : Of(n) \notin children /\ snaps[n].cleanup}
           extra == {n \in Exist : Of(n) \in children /\ ~snaps[n].cleanup}
           failing == {n \in missing : {Of(n), qgroup} \subseteq qgroups} # missing
           reached == {n \in Exist : ~\E m \in missing : m <= n /\ ~{Of(m), qgroup} \subseteq qgroups}
       IN  /\ relations' = (relations \cup {<<Of(n), qgroup>> : n \in missing \cap reached})
                               \ {<<Of(n), qgroup>> : n \in extra \cap reached}
           /\ prepared' = (qgroup \in qgroups /\ ~failing)
    /\ UNCHANGED <<quotaOn, qgroups, subvols, nextSubvol, snaps, config, qgroup, deleted, owed,
                   admin, reply>>

(* Snapper::queryQuotaData after quota_rescan and sync.                    *)
QueryQuota ==
    /\ Calm /\ qgroup \in qgroups
    /\ reply' = Replied("quota", qgroup_query_usage(qgroup), Exclusive(qgroup))
    /\ UNCHANGED <<kernelVars, snaps, config, qgroup, deleted, owed, admin, prepared>>

(* Snapshot::getUsedSpace.                                                 *)
GetUsedSpace(n) ==
    /\ Calm /\ n \in Exist /\ calc_qgroup(0, snaps[n].id) \in qgroups
    /\ LET q == calc_qgroup(0, snaps[n].id)
       IN  reply' = Replied("used", qgroup_query_usage(q), Exclusive(q))
    /\ UNCHANGED <<kernelVars, snaps, config, qgroup, deleted, owed, admin, prepared>>

(* Snapper::queryFreeSpaceData, syncFilesystem: Btrfs::sync waits for each *)
(* subvolume that was deleted, under the lock, ...                         *)
SyncBegin ==
    /\ Calm
    /\ reply' = Replied("syncing", 0, 0)
    /\ UNCHANGED <<kernelVars, snaps, config, qgroup, deleted, owed, admin, prepared>>

(* ... and forgets them; then the space is read.  The reply counts what    *)
(* deleted snapshots still take of it.                                     *)
SyncEnd ==
    /\ reply.kind = "syncing" /\ deleted \cap subvols = {}
    /\ deleted' = {}
    /\ reply' = Replied("free", Cardinality(owed \cap subvols), 0)
    /\ UNCHANGED <<kernelVars, snaps, config, qgroup, owed, admin, prepared>>

(* The client takes the reply.                                             *)
Taken ==
    /\ reply.kind \notin {"none", "syncing"} /\ reply' = NoReply
    /\ UNCHANGED <<kernelVars, snaps, config, qgroup, deleted, owed, admin, prepared>>

(* The kernel frees a deleted subvolume.                                   *)
Free ==
    /\ \E s \in subvols \ Live : subvols' = subvols \ {s}
    /\ UNCHANGED <<quotaOn, qgroups, relations, nextSubvol, snaps, config, qgroup, deleted, owed,
                   admin, prepared, reply>>

(* Quota is disabled, a qgroup is created, or one is destroyed by other    *)
(* tools.                                                                  *)
Admin ==
    /\ Calm /\ admin < MaxAdmin /\ admin' = admin + 1
    /\ \/ quotaOn' = FALSE /\ qgroups' = {} /\ relations' = {}
       \/ /\ quotaOn /\ UNCHANGED <<quotaOn, relations>>
          /\ \E id \in {0, 2} : qgroups' = qgroups \cup {calc_qgroup(1, id)}
       \/ /\ quotaOn /\ UNCHANGED quotaOn
          /\ \E q \in qgroups :
                 /\ qgroups' = qgroups \ {q}
                 /\ relations' = {r \in relations : q \notin {r[1], r[2]}}
       \/ /\ quotaOn /\ UNCHANGED quotaOn
          /\ \E q \in qgroups : get_level(q) = 1 /\
                 /\ qgroups' = qgroups \cup {calc_qgroup(2, 0)}
                 /\ relations' = relations \cup {<<q, calc_qgroup(2, 0)>>}
    /\ prepared' = (prepared /\ qgroup \in qgroups' /\ relations \subseteq relations')
    /\ UNCHANGED <<subvols, nextSubvol, snaps, config, qgroup, deleted, owed, reply>>

Next ==
    \/ QuotaEnable \/ SetupQuota \/ Load \/ PrepareQuota \/ QueryQuota
    \/ \E n \in QuotaNums :
           \/ \E cleanup \in BOOLEAN : CreateSnapshot(n, cleanup)
           \/ ModifySnapshot(n) \/ DeleteSnapshot(n) \/ GetUsedSpace(n)
    \/ SyncBegin \/ SyncEnd \/ Taken \/ Free \/ Admin

Spec == Init /\ [][Next]_quotaVars

-----------------------------------------------------------------------------

TypeOK ==
    /\ quotaOn \in BOOLEAN /\ prepared \in BOOLEAN
    /\ qgroups \subseteq 0..Largest /\ relations \subseteq qgroups \X qgroups
    /\ subvols \subseteq 1..MaxSubvol /\ nextSubvol \in 1..(MaxSubvol + 1)
    /\ snaps \in [QuotaNums -> [id : 0..MaxSubvol, cleanup : BOOLEAN]]
    /\ {config, qgroup} \subseteq {NoQgroup} \cup {calc_qgroup(1, id) : id \in 0..(Shift - 1)}
    /\ deleted \subseteq owed /\ admin \in 0..MaxAdmin

(* However the items fall into batches, a search of the quota tree finds   *)
(* exactly the items of the type and range: does_qgroup_exist and          *)
(* qgroup_query_children miss none.                                        *)
SearchExact ==
    \A type \in {INFO, RELATION}, q \in qgroups \cup {calc_qgroup(1, 0)} :
        /\ ToSet(qgroups_tree_search(type, q, q)) = {k \in Items : k[2] = type /\ k[3] = q}
        /\ ToSet(qgroups_tree_search(type, 0, q)) = {k \in Items : k[2] = type /\ k[3] <= q}

(* qgroup_find_free never returns a qgroup that is in use, and takes the   *)
(* least id that is free.                                                  *)
FreeIsFree ==
    LET free == qgroup_find_free(1)
    IN  free \notin qgroups /\ \A q \in calc_qgroup(1, 0)..(free - 1) : q \in qgroups

(* After a successful prepareQuota the snapshots in the qgroup are exactly *)
(* the ones with a cleanup algorithm, and stay so while snapshots are      *)
(* created and deleted and the config is unloaded and loaded.              *)
QuotaMembership == prepared => Members = WithCleanup

(* A reply has the usage of the qgroup that was asked for, although the    *)
(* callback reads the first item of the buffer; and the free space is only *)
(* read when no snapshot deleted since the config was loaded takes any.    *)
ReplyExact == reply.value = reply.expected
=============================================================================
