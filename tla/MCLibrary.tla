----------------------------- MODULE MCLibrary ------------------------------
(* The library libsnapper: saved lists of files, comparisons and how they  *)
(* are undone, extended attributes, the files snapper writes, the working  *)
(* directory of the process, the cache of logical volumes and the quota    *)
(* groups. The components share nothing here; focus, chosen at the start,  *)
(* says which of them runs.                                                *)
EXTENDS MCFilelists, Sequences

CONSTANTS
    Inodes, FileNames,                      \* Stream
    MaxXaFaults, MaxForeign, MaxUndos,      \* Xattrs
    BufferSize, MaxLines, MaxLength,        \* LineFile
    MaxValue, MaxSets,                      \* Sysconfig
    Users, SDirs, MaxTmp, MaxDirFaults, NoUser,\* WorkDir
    Threads, Volumes, SkipActivation,       \* LvmCache
    MaxCommands, MaxLvmFaults,              \* LvmCache
    QuotaNums, MaxSubvol, Batch, MaxAdmin   \* Quota

VARIABLES
    focus,
    pre, post, system, before, entries, undo, steps, failed, undoing,
    type, snap1, snap2, recv, inode, files, exception, implicit,
    fileKind, xaPre, xaPost, inPost, ownerChanged, xaSystem, preToPost, undoPc,
    todo, statistic, undoOk, undosDone, xaFaults, foreign,
    compression, given, copying, outBuffer, disk, phase, thrown, inBuffer, position,
    line, got,
    lines, asSet, asList, sets,
    cwd, cwdMutex, user, mountedOn, tmpDirs, tmpValue, tmpFiles, touched, leaked,
    dirFaults,
    lvs, cache, dirs, mounted, vgShared, vgUpgrade, lvLock, mountMutex, thread,
    commands, lvmFaults,
    quotaOn, qgroups, relations, subvols, snaps, config, qgroup, deleted,
    nextSubvol, owed, admin, prepared, reply

undoVars == <<pre, post, system, before, entries, undo, steps, failed, undoing>>
streamVars == <<type, snap1, snap2, recv, inode, files, exception, implicit>>
xaVars == <<fileKind, xaPre, xaPost, inPost, ownerChanged, xaSystem, preToPost,
            undoPc, todo, statistic, undoOk, undosDone, xaFaults, foreign>>
lineVars == <<compression, given, copying, outBuffer, disk, phase, thrown, inBuffer,
              position, line, got>>
sysVars == <<lines, asSet, asList, sets>>
dirVars == <<cwd, cwdMutex, user, mountedOn, tmpDirs, tmpValue, tmpFiles, touched,
             leaked, dirFaults>>
lvmVars == <<lvs, cache, dirs, mounted, vgShared, vgUpgrade, lvLock, mountMutex,
             thread, commands, lvmFaults>>
quotaVars == <<quotaOn, qgroups, relations, subvols, snaps, config, qgroup, deleted,
               nextSubvol, owed, admin, prepared, reply>>

U == INSTANCE Undo

S == INSTANCE Stream

X == INSTANCE Xattrs

F == INSTANCE LineFile

C == INSTANCE Sysconfig

W == INSTANCE WorkDir WITH
    Root <- "/", Dirs <- SDirs

L == INSTANCE LvmCache WITH
    None <- NoUser

Q == INSTANCE Quota

all == <<focus, vars, undoVars, streamVars, xaVars, lineVars, sysVars, dirVars,
                 lvmVars, quotaVars>>

MCInit ==
    /\ focus \in {"filelists", "undo", "stream", "xattrs", "lines", "sysconfig",
                   "workdir", "lvm", "quota"}
    /\ Init /\ U!Init /\ S!Init /\ X!Init /\ F!Init /\ C!Init
    /\ W!Init /\ L!Init /\ Q!Init
    /\ focus # "xattrs" => fileKind = "link" /\ ~inPost
    /\ focus # "lines" => compression = "none" /\ disk = <<>>
    /\ focus # "sysconfig" => Len(lines) = 2

MCNext ==
    /\ UNCHANGED focus
    /\ \/ /\ focus = "filelists" /\ Next
          /\ UNCHANGED <<undoVars, streamVars, xaVars, lineVars, sysVars, dirVars,
                         lvmVars, quotaVars>>
       \/ /\ focus = "undo" /\ U!Next
          /\ UNCHANGED <<vars, streamVars, xaVars, lineVars, sysVars, dirVars,
                         lvmVars, quotaVars>>
       \/ /\ focus = "stream" /\ S!Next
          /\ UNCHANGED <<vars, undoVars, xaVars, lineVars, sysVars, dirVars,
                         lvmVars, quotaVars>>
       \/ /\ focus = "xattrs" /\ (X!Next \/ UNCHANGED xaVars)
          /\ UNCHANGED <<vars, undoVars, streamVars, lineVars, sysVars, dirVars,
                         lvmVars, quotaVars>>
       \/ /\ focus = "lines" /\ F!Next
          /\ UNCHANGED <<vars, undoVars, streamVars, xaVars, sysVars, dirVars,
                         lvmVars, quotaVars>>
       \/ /\ focus = "sysconfig" /\ (C!Next \/ UNCHANGED sysVars)
          /\ UNCHANGED <<vars, undoVars, streamVars, xaVars, lineVars, dirVars,
                         lvmVars, quotaVars>>
       \/ /\ focus = "workdir" /\ W!Next
          /\ UNCHANGED <<vars, undoVars, streamVars, xaVars, lineVars, sysVars,
                         lvmVars, quotaVars>>
       \/ /\ focus = "lvm" /\ L!Next
          /\ UNCHANGED <<vars, undoVars, streamVars, xaVars, lineVars, sysVars,
                         dirVars, quotaVars>>
       \/ /\ focus = "quota" /\ Q!Next
          /\ UNCHANGED <<vars, undoVars, streamVars, xaVars, lineVars, sysVars,
                         dirVars, lvmVars>>

MCSpec == MCInit /\ [][MCNext]_all

-----------------------------------------------------------------------------
(* Comparison::initialize, Snapshots::deleteFilelists and deleteSnapshot:  *)
(* a saved list of files still shows what its two snapshots contain,       *)
(* unless one was writable meanwhile, and none is left in or saved to the  *)
(* directory of a deleted snapshot.                                        *)
ListsFresh ==
    focus = "filelists" => TypeOK /\ CacheFresh /\ NothingLeftBehind

(* cmpDirs finds every difference of two trees, once and with the right    *)
(* status, and the processor of btrfs' send stream reports what cmpDirs    *)
(* reports, however the stream moves and links the files.                  *)
ComparisonsExact ==
    /\ focus = "undo" => U!ComparisonExact
    /\ focus = "stream" => S!AgreesWithGeneric

(* Files::doUndoStep: undoing all changes brings the tree of the first     *)
(* snapshot back, undoing some changes no other file; XAModification and   *)
(* XAUndoStatistic: an undo that reports success restored the attributes   *)
(* and ACLs that differ, and without errors a repeated undo succeeds.      *)
UndoExact ==
    /\ focus = "undo" => U!UndoRestores /\ U!OthersKept
    /\ focus = "xattrs" => X!XaRestored /\ X!RepeatedUndoSucceeds

(* AsciiFileReader reads what AsciiFileWriter wrote wherever the buffers   *)
(* end, and of a file whose writer was stopped its first lines, the last   *)
(* one cut; SysconfigFile::get_value finds what set_value set last, lists  *)
(* of names included.                                                      *)
FilesReadBack ==
    /\ focus = "lines" => F!ReadBack /\ F!CutAtEnd
    /\ focus = "sysconfig" => C!SetThenGet /\ C!ListReadBack

(* SDir and TmpMount: every *at operation that must go through the one     *)
(* working directory of the process works on the directory of its own      *)
(* SDir, a TmpMount leaves neither mount nor directory behind, and mktemp  *)
(* gives no two threads the same name.                                     *)
WorkDirSafe ==
    focus = "workdir" => W!OwnDirectory /\ W!TmpRemoved /\ W!TmpUnique

(* LogicalVolume and VolumeGroup: whenever a thread may read lv_info_map   *)
(* it agrees with LVM, and no thread loses the volume it works on,         *)
(* although the locks are upgraded and downgraded.                         *)
LvmCacheRight ==
    focus = "lvm" => L!TypeOK /\ L!CacheAgrees /\ L!VolumeKept

(* Quota groups: qgroups_tree_search finds exactly the items asked for     *)
(* across its batches, qgroup_find_free the least free group, prepareQuota *)
(* puts exactly the snapshots with a cleanup algorithm into the group, and *)
(* QueryQuota answers with the numbers of the moment.                      *)
QuotaRight ==
    focus = "quota" =>
        /\ Q!TypeOK /\ Q!SearchExact /\ Q!FreeIsFree /\ Q!QuotaMembership
        /\ Q!ReplyExact

(* What no step of the library does: finish a comparison of read-only      *)
(* snapshots with anything but their contents, touch an attribute that is  *)
(* already right, change another line of a sysconfig file than the one of  *)
(* its key, or deactivate a volume between its activation and its mount.   *)
LibrarySteps ==
    [][/\ focus = "filelists" => ComparisonRight
       /\ focus = "xattrs" => X!SameUntouched
       /\ focus = "sysconfig" => C!OnlyItsLine
       /\ focus = "lvm" => L!ActivationKept]_all
=============================================================================
