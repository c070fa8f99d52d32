------------------------------ MODULE Configs ------------------------------
(***************************************************************************)
(* The configs of snapper: SNAPPER_CONFIGS in the sysconfig file, one      *)
(* config file and one .snapshots directory each (Snapper::createConfig,   *)
(* deleteConfig, setConfigInfo, the createConfig and deleteConfig of the   *)
(* filesystems), and what the daemon holds of them: a MetaSnapper with a   *)
(* copy of the config file per config and, when loaded, a Snapper with     *)
(* another copy.  A copy that was modified is saved by its destructor      *)
(* (SysconfigFile::~SysconfigFile).                                        *)
(*                                                                         *)
(* Create and delete run under the exclusive big_mutex, set under the      *)
(* shared one.  A config file is its subvolume and one value; a file that  *)
(* was truncated and not written again has neither.                        *)
(***************************************************************************)
EXTENDS Integers, FiniteSets

CONSTANTS ConfigNames, Subvolumes, Values, Setters,
          Strict,       \* subvolumes whose filesystem refuses an existing .snapshots
          MaxRequests,  \* bound: requests of the clients
          MaxFaults,    \* bound: failing steps
          MaxStops,     \* bound: crashes and exits of the daemon
          None

VARIABLES
    configs,        \* the value of SNAPPER_CONFIGS
    file,           \* [ConfigNames -> the config file]
    infos,          \* the subvolumes with a .snapshots
    snapped,        \* the subvolumes with snapshots
    meta,           \* MetaSnapper::config_info
    loaded,         \* Snapper::config_info of the loaded Snappers
    request,        \* the create or delete that is running
    setters,        \* the set_config calls that are running
    requests, cfgFaults, stops,
    running,        \* whether the daemon runs
    failed,         \* history: writing a file has failed, or the daemon crashed
    raced,          \* history: two set_config of one config were under way
    rejected        \* history: a set_config with an invalid key

confVars == <<configs, file, infos, snapped, meta, loaded, request, setters,
              requests, cfgFaults, stops, running, failed, raced, rejected>>

Copies == [subvolume : Subvolumes, value : Values, modified : BOOLEAN]

Files == [subvolume : Subvolumes, value : Values]

NoRequest == [pc |-> "none", config |-> None, subvolume |-> None]

Setter == [pc |-> "none", config |-> None, value |-> None]

TypeOK ==
    /\ configs \subseteq ConfigNames
    /\ file \in [ConfigNames -> Files \cup {None}]
    /\ infos \subseteq Subvolumes /\ snapped \subseteq infos
    /\ meta \in [ConfigNames -> Copies \cup {None}]
    /\ loaded \in [ConfigNames -> Copies \cup {None}]
    /\ \A c \in ConfigNames : loaded[c] # None => meta[c] # None

Init ==
    /\ configs = {} /\ file = [c \in ConfigNames |-> None]
    /\ infos = {} /\ snapped = {}
    /\ meta = [c \in ConfigNames |-> None]
    /\ loaded = [c \in ConfigNames |-> None]
    /\ request = NoRequest /\ setters = [k \in Setters |-> Setter]
    /\ requests = 0 /\ cfgFaults = 0 /\ stops = 0
    /\ running = TRUE /\ failed = FALSE /\ raced = FALSE /\ rejected = FALSE

Template == CHOOSE v \in Values : TRUE

Quiet == request.pc = "none" /\ \A k \in Setters : setters[k].pc = "none"

Request == requests < MaxRequests /\ requests' = requests + 1 /\ running

(* AsciiFile::save truncates the file and writes it anew: when writing     *)
(* fails the file is as it was, or empty, or complete (the destructor      *)
(* tries again).                                                           *)
Torn(old, empty, new) == {old, empty, new}

Fault ==
    /\ cfgFaults < MaxFaults
    /\ cfgFaults' = cfgFaults + 1

NoFault == UNCHANGED <<cfgFaults, failed>>

FileOf(copy) == [subvolume |-> copy.subvolume, value |-> copy.value]

CopyOf(f) == [subvolume |-> f.subvolume, value |-> f.value, modified |-> FALSE]

(* getConfigs: listed configs whose file can be read.                      *)
Readable == {c \in configs : file[c] # None}

Done == request' = NoRequest

Goto(pc) == request' = [request EXCEPT !.pc = pc]

unchangedDaemon == UNCHANGED <<meta, loaded, setters, stops, running, raced, rejected>>

-----------------------------------------------------------------------------
(* createConfig                                                            *)

CreateConfig(c, s) ==
    /\ Quiet /\ Request
    /\ IF \/ \E d \in Readable : file[d].subvolume = s
          \/ c \in configs
       THEN UNCHANGED request
       ELSE request' = [pc |-> "create list", config |-> c, subvolume |-> s]
    /\ UNCHANGED <<configs, file, infos, snapped>>
    /\ NoFault /\ unchangedDaemon

CreateListed ==
    LET c == request.config IN
    /\ request.pc = "create list"
    /\ \/ configs' = configs \cup {c} /\ Goto("create file") /\ NoFault
       \/ /\ Fault /\ failed' = TRUE
          /\ configs' \in Torn(configs, {}, configs \cup {c})
          /\ Done
    /\ UNCHANGED <<file, infos, snapped, requests>>
    /\ unchangedDaemon

(* When the config file cannot be written the name stays listed.           *)
CreateFile ==
    LET c == request.config
        new == [subvolume |-> request.subvolume, value |-> Template] IN
    /\ request.pc = "create file"
    /\ \/ file' = [file EXCEPT ![c] = new] /\ Goto("create infos") /\ NoFault
       \/ /\ Fault /\ failed' = TRUE
          /\ \E f \in Torn(file[c], None, new) : file' = [file EXCEPT ![c] = f]
          /\ Done
    /\ UNCHANGED <<configs, infos, snapped, requests>>
    /\ unchangedDaemon

(* Mutant: a failing filesystem does not take the name from the list.      *)
CreateInfosKeepsName ==
    LET c == request.config
        s == request.subvolume IN
    /\ request.pc = "create infos"
    /\ \/ /\ s \in Strict => s \notin infos
          /\ infos' = infos \cup {s} /\ Goto("create enter") /\ NoFault
          /\ UNCHANGED <<configs, file>>
       \/ /\ IF s \in Strict \cap infos THEN NoFault ELSE Fault /\ UNCHANGED failed
          /\ file' = [file EXCEPT ![c] = None]
          /\ Done /\ UNCHANGED <<configs, infos>>
    /\ UNCHANGED <<snapped, requests>>
    /\ unchangedDaemon

(* Filesystem::createConfig: btrfs and bcachefs refuse an existing         *)
(* .snapshots, lvm and ext4 take it over.  A failure undoes the rest.      *)
CreateInfos ==
    LET c == request.config
        s == request.subvolume IN
    /\ request.pc = "create infos"
    /\ \/ /\ s \in Strict => s \notin infos
          /\ infos' = infos \cup {s} /\ Goto("create enter") /\ NoFault
          /\ UNCHANGED <<configs, file>>
       \/ /\ IF s \in Strict \cap infos THEN NoFault ELSE Fault /\ UNCHANGED failed
          /\ configs' = configs \ {c}
          /\ file' = [file EXCEPT ![c] = None]
          /\ Done /\ UNCHANGED infos
    /\ UNCHANGED <<snapped, requests>>
    /\ unchangedDaemon

CreateEnter ==
    LET c == request.config IN
    /\ request.pc = "create enter"
    /\ meta' = [meta EXCEPT ![c] = CopyOf(file[c])]
    /\ Done
    /\ UNCHANGED <<configs, file, infos, snapped, requests, loaded, setters,
                   stops, running, raced, rejected>>
    /\ NoFault

(* Snapshots of the config, so that deleteConfig has something to delete.  *)
CreateSnapshot(c) ==
    /\ Quiet /\ running
    /\ meta[c] # None /\ meta[c].subvolume \in infos \ snapped
    /\ snapped' = snapped \cup {meta[c].subvolume}
    /\ loaded' = [loaded EXCEPT ![c] =
          IF @ = None /\ file[c] # None THEN CopyOf(file[c]) ELSE @]
    /\ file[c] # None
    /\ UNCHANGED <<configs, file, infos, meta, request, setters, requests, stops,
                   running, raced, rejected>>
    /\ NoFault

-----------------------------------------------------------------------------
(* deleteConfig works with a Snapper of its own.                           *)

DeleteConfig(c) ==
    /\ Quiet /\ Request
    /\ meta[c] # None
    /\ IF file[c] # None /\ file[c].subvolume \in infos
       THEN request' = [pc |-> "delete snapshots", config |-> c,
                        subvolume |-> file[c].subvolume]
       ELSE UNCHANGED request
    /\ UNCHANGED <<configs, file, infos, snapped>>
    /\ NoFault /\ unchangedDaemon

(* A snapshot that cannot be deleted is ignored here; the default and the  *)
(* active snapshot are kept.                                               *)
DeleteSnapshots ==
    /\ request.pc = "delete snapshots"
    /\ \/ snapped' = snapped \ {request.subvolume} /\ NoFault
       \/ Fault /\ UNCHANGED <<snapped, failed>>
    /\ Goto("delete infos")
    /\ UNCHANGED <<configs, file, infos, requests>>
    /\ unchangedDaemon

DeleteInfos ==
    /\ request.pc = "delete infos"
    /\ \/ /\ request.subvolume \notin snapped
          /\ infos' = infos \ {request.subvolume}
          /\ Goto("delete file") /\ NoFault
       \/ /\ IF request.subvolume \in snapped THEN NoFault ELSE Fault /\ UNCHANGED failed
          /\ Done /\ UNCHANGED infos
    /\ UNCHANGED <<configs, file, snapped, requests>>
    /\ unchangedDaemon

DeleteFile ==
    /\ request.pc = "delete file"
    /\ \/ /\ file' = [file EXCEPT ![request.config] = None]
          /\ Goto("delete list") /\ NoFault
       \/ Fault /\ failed' = TRUE /\ Done /\ UNCHANGED file
    /\ UNCHANGED <<configs, infos, snapped, requests>>
    /\ unchangedDaemon

DeleteListed ==
    LET c == request.config IN
    /\ request.pc = "delete list"
    /\ \/ configs' = configs \ {c} /\ Goto("delete entry") /\ NoFault
       \/ /\ Fault /\ failed' = TRUE
          /\ configs' \in Torn(configs, {}, configs \ {c})
          /\ Done
    /\ UNCHANGED <<file, infos, snapped, requests>>
    /\ unchangedDaemon

(* What the destructors of a MetaSnapper leave of the config file: first   *)
(* the Snapper, then the MetaSnapper saves its copy if it is modified.     *)
Destroyed(c) ==
    IF meta[c] # None /\ meta[c].modified THEN FileOf(meta[c])
    ELSE IF loaded[c] # None /\ loaded[c].modified THEN FileOf(loaded[c])
    ELSE file[c]

DeleteEntry ==
    LET c == request.config IN
    /\ request.pc = "delete entry"
    /\ file' = [file EXCEPT ![c] = Destroyed(c)]
    /\ meta' = [meta EXCEPT ![c] = None]
    /\ loaded' = [loaded EXCEPT ![c] = None]
    /\ Done
    /\ UNCHANGED <<configs, infos, snapped, requests, setters, stops, running,
                   raced, rejected>>
    /\ NoFault

-----------------------------------------------------------------------------
(* set_config, by several clients at a time.                               *)

unchangedByChange == UNCHANGED <<configs, infos, snapped, request, stops, running>>

SetValue(copy, v) == [copy EXCEPT !.value = v, !.modified = TRUE]

(* The MetaSnapper is set first.  With an invalid key that is all: the     *)
(* keys before it stay set.                                                *)
SetConfig(k, c, v) ==
    /\ request.pc = "none" /\ Request
    /\ setters[k].pc = "none"
    /\ meta[c] # None
    /\ meta' = [meta EXCEPT ![c] = SetValue(@, v)]
    /\ \/ rejected' = TRUE /\ UNCHANGED <<setters, raced>>
       \/ /\ setters' = [setters EXCEPT ![k] = [pc |-> "set", config |-> c, value |-> v]]
          /\ raced' = (raced \/ \E j \in Setters : setters[j].config = c)
          /\ UNCHANGED rejected
    /\ UNCHANGED <<file, loaded>>
    /\ NoFault /\ unchangedByChange

Answered(k) == setters' = [setters EXCEPT ![k] = Setter]

(* getSnapper and set_value; without its .snapshots no Snapper is made.    *)
SetLoaded(k) ==
    LET c == setters[k].config
        copy == IF loaded[c] # None THEN loaded[c] ELSE CopyOf(file[c]) IN
    /\ setters[k].pc = "set"
    /\ IF loaded[c] = None /\ (file[c] = None \/ file[c].subvolume \notin infos)
       THEN Answered(k) /\ UNCHANGED loaded
       ELSE /\ loaded' = [loaded EXCEPT ![c] = SetValue(copy, setters[k].value)]
            /\ setters' = [setters EXCEPT ![k].pc = "save"]
    /\ UNCHANGED <<file, meta, requests, raced, rejected>>
    /\ NoFault /\ unchangedByChange

(* SysconfigFile::save: nothing if not modified, otherwise write ...       *)
SetWritten(k) ==
    LET c == setters[k].config IN
    /\ setters[k].pc = "save"
    /\ \/ ~loaded[c].modified /\ Answered(k) /\ NoFault /\ UNCHANGED file
       \/ /\ loaded[c].modified
          /\ file' = [file EXCEPT ![c] = FileOf(loaded[c])]
          /\ setters' = [setters EXCEPT ![k].pc = "saved"]
          /\ NoFault
       \/ /\ loaded[c].modified /\ Fault /\ failed' = TRUE
          /\ \E f \in Torn(file[c], None, FileOf(loaded[c])) : file' = [file EXCEPT ![c] = f]
          /\ Answered(k)
    /\ UNCHANGED <<meta, loaded, requests, raced, rejected>>
    /\ unchangedByChange

(* ... and reset the flag.                                                 *)
SetSaved(k) ==
    LET c == setters[k].config IN
    /\ setters[k].pc = "saved"
    /\ loaded' = [loaded EXCEPT ![c].modified = FALSE]
    /\ Answered(k)
    /\ UNCHANGED <<file, meta, requests, raced, rejected>>
    /\ NoFault /\ unchangedByChange

-----------------------------------------------------------------------------
(* Unloading, exit, crash and start of the daemon.                         *)

Unload(c) ==
    /\ Quiet /\ running /\ loaded[c] # None
    /\ file' = [file EXCEPT ![c] = IF loaded[c].modified THEN FileOf(loaded[c]) ELSE @]
    /\ loaded' = [loaded EXCEPT ![c] = None]
    /\ UNCHANGED <<configs, infos, snapped, meta, request, setters, requests,
                   stops, running, raced, rejected>>
    /\ NoFault

Stop == running /\ stops < MaxStops /\ stops' = stops + 1 /\ running' = FALSE

Emptied ==
    /\ meta' = [c \in ConfigNames |-> None]
    /\ loaded' = [c \in ConfigNames |-> None]

Exit ==
    /\ Stop /\ Quiet
    /\ file' = [c \in ConfigNames |-> Destroyed(c)]
    /\ Emptied
    /\ UNCHANGED <<configs, infos, snapped, request, setters, requests, raced, rejected>>
    /\ NoFault

(* No destructors; a file that is being written may be left empty.         *)
Crash ==
    /\ Stop
    /\ configs' \in (IF request.pc \in {"create list", "delete list"}
                     THEN {configs, {}} ELSE {configs})
    /\ \E lost \in SUBSET {c \in ConfigNames :
             \/ request.pc = "create file" /\ request.config = c
             \/ \E k \in Setters : setters[k].pc = "save" /\ setters[k].config = c} :
          file' = [c \in ConfigNames |-> IF c \in lost THEN None ELSE file[c]]
    /\ failed' = (failed \/ ~Quiet)
    /\ Emptied
    /\ request' = NoRequest /\ setters' = [k \in Setters |-> Setter]
    /\ UNCHANGED <<infos, snapped, requests, cfgFaults, raced, rejected>>

Start ==
    /\ ~running /\ running' = TRUE
    /\ meta' = [c \in ConfigNames |-> IF c \in Readable THEN CopyOf(file[c]) ELSE None]
    /\ UNCHANGED <<configs, file, infos, snapped, loaded, request, setters, requests,
                   stops, raced, rejected>>
    /\ NoFault

(* Between requests the daemon waits.                                      *)
Wait == Quiet /\ running /\ UNCHANGED confVars

Next ==
    \/ \E c \in ConfigNames :
          \/ \E s \in Subvolumes : CreateConfig(c, s)
          \/ CreateSnapshot(c) \/ DeleteConfig(c) \/ Unload(c)
          \/ \E k \in Setters, v \in Values : SetConfig(k, c, v)
    \/ CreateListed \/ CreateFile \/ CreateInfos \/ CreateEnter
    \/ DeleteSnapshots \/ DeleteInfos \/ DeleteFile \/ DeleteListed \/ DeleteEntry
    \/ \E k \in Setters : SetLoaded(k) \/ SetWritten(k) \/ SetSaved(k)
    \/ Exit \/ Crash \/ Start \/ Wait

Spec == Init /\ [][Next]_confVars

-----------------------------------------------------------------------------
(* Whatever createConfig and deleteConfig go through, a listed config has  *)
(* its file and its .snapshots, so that a Snapper of it can be made.       *)
ListedComplete ==
    Quiet /\ ~failed => \A c \in configs : file[c] # None /\ file[c].subvolume \in infos

(* createConfig never covers a subvolume twice, also not with files that   *)
(* earlier requests left behind.                                           *)
OneConfigPerSubvolume ==
    ~failed => \A c, d \in Readable : c # d => file[c].subvolume # file[d].subvolume

(* The daemon knows the configs it would read after a restart, with the    *)
(* values in their files, unless a set_config was rejected half way.       *)
DaemonAgrees ==
    Quiet /\ running /\ ~failed =>
        /\ {c \in ConfigNames : meta[c] # None} = Readable
        /\ \A c \in Readable :
              /\ meta[c].subvolume = file[c].subvolume
              /\ ~rejected /\ ~raced => meta[c].value = file[c].value

(* An answered set_config is on the disk: the file, and not only the copy  *)
(* of the Snapper, has the last value, unless two calls overlapped.        *)
SetConfigSaved ==
    Quiet /\ ~failed /\ ~raced =>
        \A c \in ConfigNames : loaded[c] # None =>
            file[c] # None /\ loaded[c].value = file[c].value /\ ~loaded[c].modified
=============================================================================
