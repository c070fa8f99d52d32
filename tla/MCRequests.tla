----------------------------- MODULE MCRequests -----------------------------
(* What requests to snapperd do: the locks of clients, configs and         *)
(* permissions, the commands of the client snapper and its rollback, the   *)
(* messages on D-Bus and the file systems behind the interface Filesystem. *)
(* The components share nothing here; focus, chosen at the start, says     *)
(* which of them runs.                                                     *)
EXTENDS Backends

CONSTANTS
    RootClient, OtherClient,                \* Snapperd, with locks and mounts
    ConfigNames, ConfigSubvolumes, Strict,  \* Configs
    ConfigValues, Setters, None,            \* Configs
    MaxRequests, MaxFaults, MaxStops,       \* Configs
    MaxSetConfigs, MaxPermFaults,           \* Permissions
    Procs, MaxListed, MaxCommands, MaxErrors,\* Commands
    Users, Options, MaxSnapshot,            \* Rollback
    MaxRollbacks, MaxUpdates, MaxMishaps    \* Rollback

VARIABLES
    focus,
    daemon, armed, idleElapsed, metaSnappers, snapper, counter, unused, allowed,
    infos, entries, status, calls, thread, works, locks, mounts, comparisons, tasks,
    worker,
    configs, file, snapshotsDirs, snapped, meta, loaded, request, setters, requests,
    cfgFaults, stops, running, failed, raced, rejected,
    inFile, inCopy, inSnapper, allowed_uids, allowed_gids, acl, setConfig, verdicts,
    before, halfDone, setConfigs, permFaults,
    metadata, latest, defaultNum, compared, held, userMounts, proc, started, errors,
    snapshot, highest, rootContent, default, active, user, commands, updates,
    mishaps, mixed, copies,
    sentValue, message, readValue

daemonVars == <<daemon, armed, idleElapsed, metaSnappers, snapper, counter, unused,
                allowed, infos, entries, status, calls, thread, works, locks,
                mounts, comparisons, tasks, worker>>
confVars == <<configs, file, snapshotsDirs, snapped, meta, loaded, request, setters,
              requests, cfgFaults, stops, running, failed, raced, rejected>>
permVars == <<inFile, inCopy, inSnapper, allowed_uids, allowed_gids, acl, setConfig,
              verdicts, before, halfDone, setConfigs, permFaults>>
commandVars == <<metadata, latest, defaultNum, compared, held, userMounts, proc,
                 started, errors>>
rollbackVars == <<snapshot, highest, rootContent, default, active, user, commands,
                  updates, mishaps, mixed, copies>>
marshalVars == <<sentValue, message, readValue>>

D == INSTANCE Snapperd WITH
    Client <- {RootClient, OtherClient}, Root <- {RootClient}, Config <- {"root"},
    Num <- {1}, Slot <- {}, MaxCalls <- 1, MaxLocks <- 1, MaxMounts <- 1,
    MaxTasks <- 0, ComparisonMayFail <- FALSE

C == INSTANCE Configs WITH
    Subvolumes <- ConfigSubvolumes, Values <- ConfigValues, infos <- snapshotsDirs

P == INSTANCE Permissions

S == INSTANCE Commands WITH
    meta <- metadata

R == INSTANCE Rollback

M == INSTANCE Marshal

all == <<focus, backVars, daemonVars, confVars, permVars, commandVars,
                 rollbackVars, marshalVars>>

MCInit ==
    /\ focus \in {"backends", "locks", "configs", "permissions", "commands",
                   "rollback", "marshal"}
    /\ Init /\ D!Init /\ C!Init /\ P!Init /\ S!Init /\ R!Init
    /\ M!Init
    /\ focus # "locks" => metaSnappers = {}
    /\ focus # "rollback" => default = 0 /\ ~snapshot[1].readOnly
    /\ focus # "backends" => backend = "btrfs"

MCNext ==
    /\ UNCHANGED focus
    /\ \/ /\ focus = "backends" /\ (Next \/ UNCHANGED backVars)
          /\ UNCHANGED <<daemonVars, confVars, permVars, commandVars, rollbackVars,
                         marshalVars>>
       \/ /\ focus = "locks" /\ (D!Next \/ UNCHANGED daemonVars)
          /\ UNCHANGED <<backVars, confVars, permVars, commandVars, rollbackVars,
                         marshalVars>>
       \/ /\ focus = "configs" /\ C!Next
          /\ UNCHANGED <<backVars, daemonVars, permVars, commandVars, rollbackVars,
                         marshalVars>>
       \/ /\ focus = "permissions" /\ (P!Next \/ UNCHANGED permVars)
          /\ UNCHANGED <<backVars, daemonVars, confVars, commandVars, rollbackVars,
                         marshalVars>>
       \/ /\ focus = "commands" /\ (S!Next \/ UNCHANGED commandVars)
          /\ UNCHANGED <<backVars, daemonVars, confVars, permVars, rollbackVars,
                         marshalVars>>
       \/ /\ focus = "rollback" /\ R!Next
          /\ UNCHANGED <<backVars, daemonVars, confVars, permVars, commandVars,
                         marshalVars>>
       \/ /\ focus = "marshal" /\ M!Next
          /\ UNCHANGED <<backVars, daemonVars, confVars, permVars, commandVars,
                         rollbackVars>>

MCSpec == MCInit /\ [][MCNext]_all

-----------------------------------------------------------------------------
(* createConfig, deleteConfig, SetConfig and ConfigInfo: a listed config   *)
(* has its file and its .snapshots, no subvolume has two, what SetConfig   *)
(* answered is saved and the daemon knows what it would read after a       *)
(* restart, short of the failures and races named in Configs;              *)
(* check_permission grants nothing the configs did not allow, and after    *)
(* SetConfig the permissions and the ACL follow the file.                  *)
ConfigsAgree ==
    /\ focus = "configs" =>
          /\ C!TypeOK /\ C!ListedComplete /\ C!OneConfigPerSubvolume
          /\ C!SetConfigSaved /\ C!DaemonAgrees
    /\ focus = "permissions" => P!GrantedByConfig /\ P!PermissionsFollow

(* The commands of snapper and the file systems under them: the snapshots  *)
(* a status or diff works on exist until it is done, a delete that         *)
(* succeeds deleted all it was given but what it had to keep, and          *)
(* Snapshots::nextNumber gives no number whose snapshot is still there.    *)
CommandsRight ==
    /\ focus = "commands" => S!TypeOK /\ S!SourcesKept /\ S!DeleteComplete
    /\ focus = "backends" => TypeOK /\ NumberFree

(* command_rollback: however rollbacks, deletions, failures and boots      *)
(* interleave, the default and the mounted subvolume exist, and the        *)
(* snapshots that earlier rollbacks made the default can be cleaned up.    *)
RollbackRight ==
    focus = "rollback" => R!TypeOK /\ R!Bootable /\ R!SupersededCleanable

(* Marshaller and Unmarshaller: the reader of a message gets the value     *)
(* that was written, whatever its nesting and characters, and no string of *)
(* the message holds a byte above 127.                                     *)
WireRight ==
    focus = "marshal" => M!RoundTrip /\ M!WirePlain

(* What no step does: delete a config or a snapshot that another live      *)
(* client has locked, delete a snapshot that no running delete was given,  *)
(* or make a default of a rollback that cannot be written to or is not     *)
(* what was asked for.                                                     *)
RequestSteps ==
    [][/\ focus = "locks" => D!LocksRespected
       /\ focus = "commands" => S!DeletedAsAsked
       /\ focus = "rollback" => R!BootsWhatWasAsked]_all
=============================================================================
