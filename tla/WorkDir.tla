------------------------------ MODULE WorkDir ------------------------------
(***************************************************************************)
(* Directories as file descriptors (SDir of snapper/FileUtils.cc).  Some   *)
(* system calls know no file descriptor: for mount, umount2, llistxattr,   *)
(* lgetxattr and lsetfilecon a thread changes the working directory of the *)
(* whole process, under cwd_mutex, and back to "/" afterwards.  Temporary  *)
(* directories and mounts are removed by destructors.  Names of temporary  *)
(* files come from a counter that all threads share without a lock.        *)
(***************************************************************************)
EXTENDS Integers, FiniteSets

CONSTANTS Users,          \* the threads
          Dirs,           \* directories that are used at the same time
          MaxTmp,         \* bound: attempts of mktemp
          MaxDirFaults,   \* bound: failing system calls
          NoUser, Root

VARIABLES
    cwd,            \* the working directory of the process
    cwdMutex,       \* SDir::cwd_mutex
    user,           \* [Users -> what the thread does]
    mountedOn,      \* the directories something is mounted on
    tmpDirs,        \* the temporary directories, by thread
    tmpValue,       \* the static value of mktemp
    tmpFiles,       \* the temporary files: <<name, thread>>
    touched,        \* history: <<asked, used>> directories of system calls
    leaked,         \* history: threads whose umount or rmdir failed
    dirFaults

dirVars == <<cwd, cwdMutex, user, mountedOn, tmpDirs, tmpValue, tmpFiles, touched,
             leaked, dirFaults>>

Idle == [op |-> "none", pc |-> "none", dir |-> Root, value |-> 0, count |-> 0]

Init ==
    /\ cwd = Root /\ cwdMutex = NoUser
    /\ user = [u \in Users |-> Idle]
    /\ mountedOn = {} /\ tmpDirs = {} /\ tmpValue = 0 /\ tmpFiles = {}
    /\ touched = {} /\ leaked = {} /\ dirFaults = 0

Fault == dirFaults < MaxDirFaults /\ dirFaults' = dirFaults + 1

NoFault == UNCHANGED dirFaults

Goto(u, pc) == user' = [user EXCEPT ![u].pc = pc]

tmp == <<tmpDirs, tmpValue, tmpFiles, leaked>>

work == <<cwd, cwdMutex, mountedOn, touched>>

(* A thread mounts or unmounts a snapshot, or looks at the attributes of a *)
(* symbolic link, a device or a socket, which open refuses.                *)
Begin(u, op, d) ==
    /\ user[u].op = "none"
    /\ op = "umount" => d \in mountedOn
    /\ op = "mount" => d \notin mountedOn
    /\ user' = [user EXCEPT ![u] = [Idle EXCEPT !.op = op, !.pc = "lock", !.dir = d]]
    /\ UNCHANGED <<work, tmp>> /\ NoFault

(* Mutant: the lock is only taken to mount and unmount.                    *)
LockUnlessXattr(u) ==
    /\ user[u].pc = "lock"
    /\ IF user[u].op = "xattr" THEN UNCHANGED cwdMutex
       ELSE cwdMutex = NoUser /\ cwdMutex' = u
    /\ Goto(u, "fchdir")
    /\ UNCHANGED <<cwd, mountedOn, touched, tmp>> /\ NoFault

Lock(u) ==
    /\ user[u].pc = "lock"
    /\ cwdMutex = NoUser /\ cwdMutex' = u
    /\ Goto(u, "fchdir")
    /\ UNCHANGED <<cwd, mountedOn, touched, tmp>> /\ NoFault

Fchdir(u) ==
    /\ user[u].pc = "fchdir"
    /\ \/ cwd' = user[u].dir /\ Goto(u, "call") /\ NoFault
       \/ Fault /\ Goto(u, "unlock") /\ UNCHANGED cwd
    /\ UNCHANGED <<cwdMutex, mountedOn, touched, tmp>>

(* The system call takes effect in the directory the process is in.        *)
Call(u) ==
    /\ user[u].pc = "call"
    /\ \/ /\ mountedOn' = (CASE user[u].op = "mount" -> mountedOn \cup {cwd}
                             [] user[u].op = "umount" -> mountedOn \ {cwd}
                             [] OTHER -> mountedOn)
          /\ touched' = touched \cup {<<user[u].dir, cwd>>} /\ NoFault
       \/ Fault /\ UNCHANGED <<mountedOn, touched>>
    /\ Goto(u, "chdir")
    /\ UNCHANGED <<cwd, cwdMutex, tmp>>

Chdir(u) ==
    /\ user[u].pc = "chdir"
    /\ cwd' = Root
    /\ Goto(u, "unlock")
    /\ UNCHANGED <<cwdMutex, mountedOn, touched, tmp>> /\ NoFault

Unlock(u) ==
    /\ user[u].pc = "unlock"
    /\ cwdMutex' = IF cwdMutex = u THEN NoUser ELSE cwdMutex
    /\ user' = [user EXCEPT ![u] = Idle]
    /\ UNCHANGED <<cwd, mountedOn, touched, tmp>> /\ NoFault

-----------------------------------------------------------------------------
(* TmpMount.  SDir::mount and umount are taken as one step here: their     *)
(* working directory is the subject above.                                 *)

TmpBegin(u) ==
    /\ user[u].op = "none" /\ u \notin tmpDirs
    /\ \/ /\ tmpDirs' = tmpDirs \cup {u} /\ NoFault
          /\ user' = [user EXCEPT ![u] = [Idle EXCEPT !.op = "tmp", !.pc = "mount"]]
       \/ Fault /\ UNCHANGED <<tmpDirs, user>>
    /\ UNCHANGED <<work, tmpValue, tmpFiles, leaked>>

(* When the constructor throws, the TmpDir in it is destroyed.             *)
TmpMounted(u) ==
    /\ user[u].op = "tmp" /\ user[u].pc = "mount" /\ cwdMutex = NoUser
    /\ \/ mountedOn' = mountedOn \cup {u} /\ Goto(u, "use") /\ NoFault
       \/ Fault /\ Goto(u, "rmdir") /\ UNCHANGED mountedOn
    /\ UNCHANGED <<cwd, cwdMutex, touched, tmp>>

TmpUmount(u) ==
    /\ user[u].op = "tmp" /\ user[u].pc = "use" /\ cwdMutex = NoUser
    /\ \/ mountedOn' = mountedOn \ {u} /\ NoFault /\ UNCHANGED leaked
       \/ Fault /\ leaked' = leaked \cup {u} /\ UNCHANGED mountedOn
    /\ Goto(u, "rmdir")
    /\ UNCHANGED <<cwd, cwdMutex, touched, tmpDirs, tmpValue, tmpFiles>>

(* rmdir refuses a directory something is mounted on.                      *)
TmpRmdir(u) ==
    /\ user[u].op = "tmp" /\ user[u].pc = "rmdir"
    /\ \/ u \notin mountedOn /\ tmpDirs' = tmpDirs \ {u} /\ NoFault /\ UNCHANGED leaked
       \/ u \in mountedOn /\ NoFault /\ UNCHANGED <<tmpDirs, leaked>>
       \/ Fault /\ leaked' = leaked \cup {u} /\ UNCHANGED tmpDirs
    /\ user' = [user EXCEPT ![u] = Idle]
    /\ UNCHANGED <<work, tmpValue, tmpFiles>>

-----------------------------------------------------------------------------
(* mktemp: the counter is advanced with the time and read without a lock.  *)

MktempBegin(u) ==
    /\ user[u].op = "none" /\ Cardinality(tmpFiles) < MaxTmp
    /\ \E step \in 0 .. 1 :
          /\ tmpValue' = (tmpValue + step) % MaxTmp
          /\ user' = [user EXCEPT ![u] = [Idle EXCEPT !.op = "mktemp", !.pc = "open",
                                                      !.value = tmpValue']]
    /\ UNCHANGED <<work, tmpDirs, tmpFiles, leaked>> /\ NoFault

(* One turn of the loop; a name that exists, or another error.             *)
MktempOpen(u) ==
    /\ user[u].op = "mktemp"
    /\ IF \E f \in tmpFiles : f[1] = user[u].value
       THEN /\ tmpValue' = (tmpValue + 1) % MaxTmp
            /\ user' = [user EXCEPT ![u] =
                  IF user[u].count + 1 = MaxTmp THEN Idle
                  ELSE [user[u] EXCEPT !.count = user[u].count + 1, !.value = tmpValue']]
            /\ NoFault /\ UNCHANGED tmpFiles
       ELSE /\ \/ tmpFiles' = tmpFiles \cup {<<user[u].value, u>>} /\ NoFault
               \/ Fault /\ UNCHANGED tmpFiles
            /\ user' = [user EXCEPT ![u] = Idle]
            /\ UNCHANGED tmpValue
    /\ UNCHANGED <<work, tmpDirs, leaked>>

(* The file is renamed or removed by the one who made it.                  *)
TmpFileGone(u) ==
    /\ user[u].op = "none"
    /\ \E f \in tmpFiles : f[2] = u /\ tmpFiles' = tmpFiles \ {f}
    /\ UNCHANGED <<work, user, tmpDirs, tmpValue, leaked>> /\ NoFault

Next ==
    \E u \in Users :
        \/ \E op \in {"mount", "umount", "xattr"}, d \in Dirs : Begin(u, op, d)
        \/ Lock(u) \/ Fchdir(u) \/ Call(u) \/ Chdir(u) \/ Unlock(u)
        \/ TmpBegin(u) \/ TmpMounted(u) \/ TmpUmount(u) \/ TmpRmdir(u)
        \/ MktempBegin(u) \/ MktempOpen(u) \/ TmpFileGone(u)

Spec == Init /\ [][Next]_dirVars

-----------------------------------------------------------------------------
(* A mount, umount or look at attributes through the working directory     *)
(* (SDir::mount, umount, listxattr, getxattr) happens in the directory of  *)
(* the SDir, whatever other threads do, and nobody finds the process in    *)
(* another directory than "/" when it takes cwd_mutex.                     *)
OwnDirectory ==
    /\ \A t \in touched : t[1] = t[2]
    /\ cwdMutex = NoUser => cwd = Root

(* A TmpMount leaves neither its mount nor its directory behind, also when *)
(* its constructor throws, unless umount or rmdir themselves fail.         *)
TmpRemoved ==
    \A u \in Users : user[u].op # "tmp" /\ u \notin leaked =>
                         u \notin tmpDirs /\ u \notin mountedOn

(* mktemp never gives two threads the same file, though the counter is     *)
(* read and written without a lock.                                        *)
TmpUnique == \A f, g \in tmpFiles : f[1] = g[1] => f = g

=============================================================================
