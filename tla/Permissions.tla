----------------------------- MODULE Permissions ----------------------------
(***************************************************************************)
(* Who may use a config: ALLOW_USERS and ALLOW_GROUPS as the config file,  *)
(* the copy of the daemon, the lists of ids that check_permission looks at *)
(* and the ACL of .snapshots (Snapper::syncAcl) hold them.  set_config of  *)
(* root and the requests of other clients run in different threads and     *)
(* both hold big_mutex shared only, so check_permission sees the lists     *)
(* while MetaSnapper::set_permissions rewrites them.                       *)
(***************************************************************************)
EXTENDS Integers, Sequences, SequencesExt, FiniteSets

CONSTANTS MaxSetConfigs,   \* bound: calls of set_config
          MaxPermFaults    \* bound: failing steps

(* The user database: names and the groups of each user.                   *)
Uids  == {"tux", "geeko"}
Gids  == {"wheel"}
GroupsOf(uid) == IF uid = "tux" THEN {"wheel"} ELSE {}

Ghost == "ghost"    \* a name that the database does not have

(* The values of ALLOW_USERS and ALLOW_GROUPS that are set.                *)
UserLists  == {{}, {"tux"}, {"geeko"}, {"geeko", Ghost}}
GroupLists == {{}, {"wheel"}}

Entry(tag, id, perms) == [tag |-> tag, id |-> id, perms |-> perms]

VARIABLES
    inFile,         \* the config file: [users, groups, sync]
    inCopy,         \* MetaSnapper::config_info
    inSnapper,      \* Snapper::config_info
    allowed_uids, allowed_gids,
    acl,            \* of .snapshots: a sequence of entries
    setConfig,      \* the running set_config
    verdicts,       \* history: answers of check_permission to each user
    before,         \* history: the config file before the running set_config
    halfDone,       \* history: a set_config failed on the way
    setConfigs, permFaults

permVars == <<inFile, inCopy, inSnapper, allowed_uids, allowed_gids, acl, setConfig,
              verdicts, before, halfDone, setConfigs, permFaults>>

Config(users, groups, sync) == [users |-> users, groups |-> groups, sync |-> sync]

NoCall == [pc |-> "none", keys |-> {}, raw |-> Config({}, {}, FALSE)]

BaseAcl == <<Entry("user_obj", "", "rwx"), Entry("group_obj", "", "r-x"),
             Entry("other", "", "---")>>

Init ==
    /\ inFile = Config({"tux"}, {}, FALSE)
    /\ inCopy = inFile /\ inSnapper = inFile /\ before = inFile
    /\ allowed_uids = {"tux"} /\ allowed_gids = {}
    /\ acl = BaseAcl \o <<Entry("user", "tux", "r--"), Entry("group", "users", "rwx")>>
    /\ setConfig = NoCall /\ verdicts = [u \in Uids |-> {}] /\ halfDone = FALSE
    /\ setConfigs = 0 /\ permFaults = 0

(* The keys of a request replace the values, the others stay.              *)
With(config, call) == [k \in DOMAIN config |->
                           IF k \in call.keys THEN call.raw[k] ELSE config[k]]

Goto(pc) == setConfig' = [setConfig EXCEPT !.pc = pc]

Throws == setConfig' = NoCall /\ halfDone' = TRUE

Fault == permFaults < MaxPermFaults /\ permFaults' = permFaults + 1

NoFault == UNCHANGED permFaults

-----------------------------------------------------------------------------
SetConfig(keys, raw) ==
    /\ setConfig.pc = "none" /\ setConfigs < MaxSetConfigs
    /\ setConfigs' = setConfigs + 1
    /\ setConfig' = [pc |-> "save", keys |-> keys, raw |-> raw]
    /\ inCopy' = With(inCopy, setConfig')
    /\ before' = inFile /\ verdicts' = [u \in Uids |-> {}]
    /\ UNCHANGED <<inFile, inSnapper, allowed_uids, allowed_gids, acl, halfDone>> /\ NoFault

AfterAcl == IF setConfig.keys \cap {"users", "groups"} # {} THEN "uids" ELSE "none"

(* Snapper::setConfigInfo up to the ACL.                                   *)
Save ==
    /\ setConfig.pc = "save"
    /\ inSnapper' = With(inSnapper, setConfig)
    /\ \/ /\ inFile' = inSnapper' /\ NoFault /\ UNCHANGED halfDone
          /\ Goto(IF inSnapper'.sync THEN "acl" ELSE AfterAcl)
       \/ Fault /\ Throws /\ UNCHANGED inFile
    /\ UNCHANGED <<inCopy, allowed_uids, allowed_gids, acl, verdicts, before, setConfigs>>

(* The loop over the entries: a named entry that is wanted gets its        *)
(* permissions, another one is deleted; what is then missing is added.     *)
syncAcl(entries, uids, gids) ==
    LET wanted(e) == CASE e.tag = "user"  -> e.id \in uids
                       [] e.tag = "group" -> e.id \in gids
                       [] OTHER -> TRUE
        named(e) == e.tag \in {"user", "group"}
        kept == SelectSeq(entries, wanted)
        set == [i \in DOMAIN kept |-> IF named(kept[i]) THEN [kept[i] EXCEPT !.perms = "r-x"]
                                      ELSE kept[i]]
        missing == ({Entry("user", u, "r-x") : u \in uids} \cup
                    {Entry("group", g, "r-x") : g \in gids}) \ Range(set)
    IN set \o SetToSeq(missing)

(* Names that cannot be resolved are an error for the ACL.                 *)
SyncAcl ==
    /\ setConfig.pc = "acl"
    /\ \/ /\ inSnapper.users \subseteq Uids /\ NoFault
          /\ acl' = syncAcl(acl, inSnapper.users, inSnapper.groups)
          /\ Goto(AfterAcl) /\ UNCHANGED halfDone
       \/ ~(inSnapper.users \subseteq Uids) /\ Throws /\ UNCHANGED acl /\ NoFault
       \/ Fault /\ Throws /\ UNCHANGED acl
    /\ UNCHANGED <<inFile, inCopy, inSnapper, allowed_uids, allowed_gids, verdicts, before,
                   setConfigs>>

Lists(uids, gids, pc) ==
    /\ allowed_uids' = uids /\ allowed_gids' = gids /\ Goto(pc)
    /\ UNCHANGED <<inFile, inCopy, inSnapper, acl, verdicts, before, halfDone, setConfigs>>
    /\ NoFault

(* set_permissions clears a list, then fills it; here unknown names are    *)
(* left out.                                                               *)
SetUids ==
    \/ setConfig.pc = "uids" /\ Lists({}, allowed_gids, "fill uids")
    \/ setConfig.pc = "fill uids" /\ Lists(inCopy.users \cap Uids, allowed_gids, "gids")

SetGids ==
    \/ setConfig.pc = "gids" /\ Lists(allowed_uids, {}, "fill gids")
    \/ setConfig.pc = "fill gids" /\ Lists(allowed_uids, inCopy.groups \cap Gids, "none")

check_permission(uid) ==
    uid \in allowed_uids \/ GroupsOf(uid) \cap allowed_gids # {}

(* A request of another client.                                            *)
OtherRequest(uid) ==
    /\ verdicts' = [verdicts EXCEPT ![uid] = @ \cup {check_permission(uid)}]
    /\ verdicts' # verdicts
    /\ UNCHANGED <<inFile, inCopy, inSnapper, allowed_uids, allowed_gids, acl, setConfig,
                   before, halfDone, setConfigs>>
    /\ NoFault

Next ==
    \/ \E u \in UserLists, g \in GroupLists, s \in BOOLEAN,
          keys \in {{"users"}, {"groups"}, {"sync"}, {"users", "groups", "sync"}} :
             SetConfig(keys, Config(u, g, s))
    \/ Save \/ SyncAcl \/ SetUids \/ SetGids
    \/ \E u \in Uids : OtherRequest(u)

Spec == Init /\ [][Next]_permVars

-----------------------------------------------------------------------------
Allows(config, uid) == uid \in config.users \/ GroupsOf(uid) \cap config.groups # {}

(* check_permission never grants a request that neither the config before  *)
(* the running set_config nor the one it writes allows, also while         *)
(* set_permissions rewrites the lists.                                     *)
GrantedByConfig ==
    ~halfDone => \A u \in Uids : TRUE \in verdicts[u] =>
                     Allows(before, u) \/ Allows(inCopy, u)

(* Once set_config is through, check_permission decides by the config file *)
(* and, with SYNC_ACL, the ACL of .snapshots names exactly the users and   *)
(* groups of the file, each once and with r-x, beside the entries it       *)
(* always has (Snapper::syncAcl, MetaSnapper::set_permissions).  A         *)
(* set_config that failed on the way leaves them apart.                    *)
PermissionsFollow ==
    setConfig.pc = "none" /\ ~halfDone =>
        /\ \A u \in Uids : check_permission(u) = Allows(inFile, u)
        /\ inFile.sync =>
              /\ Range(acl) = Range(BaseAcl) \cup
                    {Entry("user", u, "r-x") : u \in inFile.users} \cup
                    {Entry("group", g, "r-x") : g \in inFile.groups}
              /\ IsInjective(acl)

=============================================================================
