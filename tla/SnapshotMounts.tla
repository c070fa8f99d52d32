--------------------------- MODULE SnapshotMounts ---------------------------
(***************************************************************************)
(* The mount of one snapshot on LVM or ext4 (Snapshot::mountFilesystem-    *)
(* Snapshot and the like): mounts on behalf of the user stay until the     *)
(* user unmounts, mounts of clients and comparisons are counted, and what  *)
(* is not needed any more is unmounted when the Snapper is unloaded.       *)
(*                                                                         *)
(* Handlers run under big_mutex and are one action.  A comparison mounts   *)
(* without it: its increment of mount_use_count is a read and a write.     *)
(***************************************************************************)
EXTENDS Integers, FiniteSetsExt

CONSTANTS
    Client,     \* the D-Bus clients
    MaxMounts,  \* bound: mounts a client holds
    UIntMod,    \* number of values of unsigned int
    Hazards     \* what may happen, a subset of HazardKinds

(* "unload"  the Snapper is unloaded although a client holds a mount       *)
(* "umount"  a client unmounts what it has not mounted                     *)
(* "race"    a handler mounts or unmounts while a comparison increments    *)
(* "throw"   a comparison throws while it has the snapshot mounted         *)
(* "fail"    the filesystem cannot mount the snapshot                      *)
HazardKinds == {"unload", "umount", "race", "throw", "fail"}

ASSUME MountsAssumption ==
    /\ IsFiniteSet(Client)
    /\ MaxMounts \in Nat
    /\ UIntMod \in Nat /\ UIntMod > MaxMounts * Cardinality(Client) + 1
    /\ Hazards \subseteq HazardKinds

VARIABLES
    mounted,      \* the snapshot is mounted
    loaded,       \* a Snapper is loaded
    mountChecked, \* Snapshot::mount_checked
    userRequest,  \* Snapshot::mount_user_request
    useCount,     \* Snapshot::mount_use_count
    status,       \* "none", "live" or "zombie"
    mounts,       \* Client::mounts
    comparing,    \* the step of a running comparison
    seen,         \* the value of mount_use_count its thread has read
    asked,        \* history: the user asked for the mount
    disturbed     \* history: one of Hazards has happened

fieldVars == <<loaded, mountChecked, userRequest, useCount>>
vars == <<mounted, fieldVars, status, mounts, comparing, seen, asked, disturbed>>

(* The types of the state.                                                 *)
TypeOK ==
    /\ {mounted, loaded, mountChecked, userRequest, asked, disturbed} \subseteq BOOLEAN
    /\ {useCount, seen} \subseteq 0..(UIntMod - 1)
    /\ status \in [Client -> {"none", "live", "zombie"}]
    /\ mounts \in [Client -> 0..MaxMounts]
    /\ comparing \in {"no", "mount", "walk", "umount"}

Init ==
    /\ mounted = FALSE
    /\ loaded = FALSE /\ mountChecked = FALSE /\ userRequest = FALSE /\ useCount = 0
    /\ status = [cl \in Client |-> "none"]
    /\ mounts = [cl \in Client |-> 0]
    /\ comparing = "no" /\ seen = 0
    /\ asked = FALSE /\ disturbed = FALSE

-----------------------------------------------------------------------------

(* The step is one of hazards that may happen, if any.                     *)
Meets(hazards) ==
    /\ hazards \subseteq Hazards
    /\ disturbed' = (disturbed \/ hazards # {})

(* The thread of a comparison has read mount_use_count and not yet written. *)
Race == IF comparing \in {"mount", "umount"} THEN {"race"} ELSE {}

(* mount_user_request once it has been checked whether the snapshot is     *)
(* mounted already; getSnapper has loaded a Snapper with cleared fields.   *)
Requested == IF mountChecked THEN userRequest ELSE mounted

Plus(count, n) == (count + n) % UIntMod

Connect(cl) ==
    /\ status[cl] = "none"
    /\ status' = [status EXCEPT ![cl] = "live"]
    /\ UNCHANGED <<mounted, fieldVars, mounts, comparing, seen, asked, disturbed>>

ClientDisconnected(cl) ==
    /\ status[cl] = "live"
    /\ status' = [status EXCEPT ![cl] = "zombie"]
    /\ UNCHANGED <<mounted, fieldVars, mounts, comparing, seen, asked, disturbed>>

(* MountSnapshot with user-request.                                        *)
MountForUser(cl) ==
    /\ status[cl] = "live"
    /\ Meets(Race)
    /\ loaded' = TRUE /\ mountChecked' = TRUE
    /\ userRequest' = TRUE
    /\ mounted' = TRUE
    /\ asked' = TRUE
    /\ UNCHANGED <<useCount, status, mounts, comparing, seen>>

(* MountSnapshot without: counted in the Snapshot and in the Client.       *)
Mount(cl) ==
    /\ status[cl] = "live"
    /\ Meets(Race)
    /\ mounts[cl] < MaxMounts
    /\ loaded' = TRUE /\ mountChecked' = TRUE
    /\ userRequest' = Requested
    /\ useCount' = Plus(useCount, 1)
    /\ mounted' = TRUE
    /\ mounts' = [mounts EXCEPT ![cl] = @ + 1]
    /\ UNCHANGED <<status, comparing, seen, asked>>

(* The filesystem throws after the count has been incremented.             *)
MountFails(cl) ==
    /\ status[cl] = "live"
    /\ Meets(Race \cup {"fail"})
    /\ ~mounted
    /\ loaded' = TRUE /\ mountChecked' = TRUE
    /\ userRequest' = Requested
    /\ useCount' = Plus(useCount, 1)
    /\ UNCHANGED <<mounted, status, mounts, comparing, seen, asked>>

(* Mutant: the use count is not looked at.                                 *)
UmountForUserAlways(cl) ==
    /\ status[cl] = "live"
    /\ Meets(Race)
    /\ loaded' = TRUE /\ mountChecked' = TRUE
    /\ userRequest' = FALSE
    /\ mounted' = FALSE
    /\ asked' = FALSE
    /\ UNCHANGED <<useCount, status, mounts, comparing, seen>>

(* UmountSnapshot with user-request unmounts unless it is used.            *)
UmountForUser(cl) ==
    /\ status[cl] = "live"
    /\ Meets(Race)
    /\ loaded' = TRUE /\ mountChecked' = TRUE
    /\ userRequest' = FALSE
    /\ mounted' = (mounted /\ useCount # 0)
    /\ asked' = FALSE
    /\ UNCHANGED <<useCount, status, mounts, comparing, seen>>

(* UmountSnapshot without only counts; remove_mount ignores a client that  *)
(* has no mount, umountFilesystemSnapshot does not know.                   *)
Umount(cl) ==
    /\ status[cl] = "live"
    /\ Meets(Race \cup (IF mounts[cl] = 0 THEN {"umount"} ELSE {}))
    /\ loaded' = TRUE /\ mountChecked' = TRUE
    /\ userRequest' = Requested
    /\ useCount' = Plus(useCount, -1)
    /\ mounts' = [mounts EXCEPT ![cl] = IF @ > 0 THEN @ - 1 ELSE @]
    /\ UNCHANGED <<mounted, status, comparing, seen, asked>>

(* ~Client: as many umounts as the client has mounts.                      *)
Reap(cl) ==
    /\ status[cl] = "zombie"
    /\ Meets(Race)
    /\ status' = [status EXCEPT ![cl] = "none"]
    /\ mounts' = [mounts EXCEPT ![cl] = 0]
    /\ IF mounts[cl] = 0
       THEN UNCHANGED fieldVars
       ELSE /\ loaded' = TRUE /\ mountChecked' = TRUE
            /\ userRequest' = Requested
            /\ useCount' = Plus(useCount, -mounts[cl])
    /\ UNCHANGED <<mounted, comparing, seen, asked>>

-----------------------------------------------------------------------------
(* Comparison::create, do_mount and do_umount.                             *)

CompareReads ==
    /\ comparing = "no" /\ \E cl \in Client : status[cl] = "live"
    /\ loaded' = TRUE /\ mountChecked' = TRUE
    /\ userRequest' = Requested
    /\ comparing' = "mount" /\ seen' = useCount
    /\ UNCHANGED <<mounted, useCount, status, mounts, asked, disturbed>>

CompareMounts ==
    /\ comparing = "mount"
    /\ useCount' = Plus(seen, 1)
    /\ mounted' = TRUE
    /\ comparing' = "walk"
    /\ UNCHANGED <<loaded, mountChecked, userRequest, status, mounts, seen, asked, disturbed>>

CompareThrows ==
    /\ Meets({"throw"})
    /\ comparing = "walk"
    /\ comparing' = "no" /\ seen' = 0
    /\ UNCHANGED <<mounted, fieldVars, status, mounts, asked>>

CompareReadsAgain ==
    /\ comparing = "walk"
    /\ comparing' = "umount" /\ seen' = useCount
    /\ UNCHANGED <<mounted, fieldVars, status, mounts, asked, disturbed>>

CompareUmounts ==
    /\ comparing = "umount"
    /\ useCount' = Plus(seen, -1)
    /\ comparing' = "no" /\ seen' = 0
    /\ UNCHANGED <<mounted, loaded, mountChecked, userRequest, status, mounts, asked, disturbed>>

(* handleUmountFilesystemSnapshot, called by ~Snapper.                     *)
KeptAtUnload == mounted /\ (mountChecked => userRequest \/ useCount # 0)

(* MetaSnapper::unload of a Snapper that is not referred to.  Comparisons  *)
(* hold a reference, mounts do not.                                        *)
Unload ==
    /\ loaded /\ comparing = "no"
    /\ Meets(IF \A cl \in Client : mounts[cl] = 0 THEN {} ELSE {"unload"})
    /\ mounted' = KeptAtUnload
    /\ loaded' = FALSE /\ mountChecked' = FALSE /\ userRequest' = FALSE /\ useCount' = 0
    /\ UNCHANGED <<status, mounts, comparing, seen, asked>>

CompareStep ==
    \/ CompareReads \/ CompareMounts \/ CompareThrows \/ CompareReadsAgain \/ CompareUmounts

Next ==
    \/ \E cl \in Client :
           \/ Connect(cl) \/ ClientDisconnected(cl) \/ Reap(cl)
           \/ MountForUser(cl) \/ UmountForUser(cl)
           \/ Mount(cl) \/ MountFails(cl) \/ Umount(cl)
    \/ CompareStep
    \/ Unload

Spec == Init /\ [][Next]_vars

(* periodic removes zombies and unloads unused Snappers; a comparison that *)
(* has begun ends.                                                         *)
FairSpec ==
    /\ Spec
    /\ \A cl \in Client : WF_vars(Reap(cl))
    /\ WF_vars(Unload)
    /\ WF_vars(CompareMounts) /\ WF_vars(CompareReadsAgain) /\ WF_vars(CompareUmounts)

-----------------------------------------------------------------------------

(* Until something of HazardKinds happens the count of the Snapshot is     *)
(* what its users account for: the mounts of clients, whether connected or *)
(* not yet removed, and the comparison (mount_use_count, Client::mounts).  *)
UseCountAgrees ==
    ~disturbed =>
        useCount = MapThenSumSet(LAMBDA cl : mounts[cl], Client)
                   + (IF comparing \in {"walk", "umount"} THEN 1 ELSE 0)

(* Until then a client or comparison that has the snapshot mounted does    *)
(* not lose the mount to another client's umount or to an unload           *)
(* (mount_use_count).                                                      *)
HeldMounted ==
    ~disturbed /\ (comparing \in {"walk", "umount"} \/ \E cl \in Client : mounts[cl] > 0) =>
        mounted

(* A mount the user asked for stays until the user gives it up, whatever   *)
(* clients do and although the Snapper that noted it (mount_user_request)  *)
(* is unloaded and loaded again.                                           *)
UserMountKept == asked => mounted

Released == ~mounted \/ asked \/ \E cl \in Client : status[cl] = "live"

(* doc/dbus-protocol.txt: "Snapshots mounted with user-request set to      *)
(* false will be unmounted (delayed) after the client disconnects.": when  *)
(* the last client has disconnected the snapshot is unmounted, unless the  *)
(* user wants it mounted or a client comes back first.                     *)
UnmountedAfterDisconnect == (\A cl \in Client : status[cl] # "live") ~> Released

(* The same of the clients for which nothing of HazardKinds happens: ~Client *)
(* and handleUmountFilesystemSnapshot leave nothing mounted.               *)
UnmountedUndisturbed ==
    (\A cl \in Client : status[cl] # "live") ~> (disturbed \/ Released)
=============================================================================
