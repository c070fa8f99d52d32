--------------------------- MODULE WorkDirProofs ---------------------------
(***************************************************************************)
(* Proofs about WorkDir, for any threads, directories and bounds.  The     *)
(* inductive invariant says who owns the working directory: a thread past  *)
(* Lock holds cwd_mutex, and its step tells which directory the process is *)
(* in; and how far a thread is tells what is left of its TmpMount.         *)
(***************************************************************************)
EXTENDS WorkDir, TLAPS

Inside == {"fchdir", "call", "chdir", "unlock"}

Ops == {"none", "mount", "umount", "xattr", "tmp", "mktemp"}

Pcs == Inside \cup {"none", "lock", "mount", "use", "rmdir", "open"}

Thread == [op : Ops, pc : Pcs, dir : Dirs \cup {Root}, value : Int, count : Int]

Types ==
    /\ user \in [Users -> Thread]
    /\ tmpValue \in Int

(* The thread in the middle of a call owns cwd_mutex and knows where the   *)
(* process is.                                                             *)
Owner ==
    /\ cwdMutex = NoUser => cwd = Root
    /\ \A u \in Users :
          /\ user[u].pc \in Inside => cwdMutex = u
          /\ user[u].pc \in {"fchdir", "unlock"} => cwd = Root
          /\ user[u].pc \in {"call", "chdir"} => cwd = user[u].dir

Steps ==
    \A u \in Users :
        /\ user[u].op = "tmp" => user[u].pc \in {"mount", "use", "rmdir"}
        /\ user[u].pc \in Inside \cup {"lock"} => user[u].op \in {"mount", "umount", "xattr"}
        /\ user[u].pc = "call" => cwd \notin Users

(* What a TmpMount has left at each of its steps.                          *)
TmpSteps ==
    \A u \in Users : u \notin leaked =>
        /\ u \in tmpDirs => user[u].op = "tmp"
        /\ u \in mountedOn => user[u].op = "tmp" /\ user[u].pc = "use"

Apart ==
    /\ NoUser \notin Users
    /\ (Dirs \cup {Root}) \cap Users = {}
    /\ MaxTmp \in Nat \ {0}

IInv == Types /\ Owner /\ Steps /\ (\A t \in touched : t[1] = t[2])

(* A step of a thread changes its own record and no other.                 *)
Moves(u, r) == user' \in [Users -> Thread] /\ user'[u] = r
               /\ \A w \in Users \ {u} : user'[w] = user[w]

LEMMA MovesTo ==
  ASSUME Types, NEW u \in Users, NEW r \in Thread, user' = [user EXCEPT ![u] = r]
  PROVE  Moves(u, r)
  BY DEF Types, Moves

LEMMA IdleThread ==
  /\ Idle \in Thread /\ Idle.op = "none" /\ Idle.pc = "none"
  BY DEF Idle, Thread, Ops, Pcs, Inside

LEMMA BeginThread ==
  ASSUME NEW op \in {"mount", "umount", "xattr"}, NEW d \in Dirs
  PROVE  LET r == [Idle EXCEPT !.op = op, !.pc = "lock", !.dir = d]
         IN  r \in Thread /\ r.op = op /\ r.pc = "lock"
  <1>1. ASSUME NEW t \in Thread, NEW o \in Ops, NEW p \in Pcs
        PROVE  [t EXCEPT !.op = o, !.pc = p, !.dir = d] \in Thread
    BY Zenon DEF Thread
  <1>2. op \in Ops /\ "lock" \in Pcs
    BY DEF Ops, Pcs
  <1>3. [Idle EXCEPT !.op = op, !.pc = "lock", !.dir = d] \in Thread
    BY <1>1, <1>2, IdleThread, Zenon
  <1>4. QED
    BY <1>3 DEF Idle

LEMMA TmpThread ==
  LET r == [Idle EXCEPT !.op = "tmp", !.pc = "mount"]
  IN  r \in Thread /\ r.op = "tmp" /\ r.pc = "mount"
  <1>1. ASSUME NEW t \in Thread, NEW o \in Ops, NEW p \in Pcs
        PROVE  [t EXCEPT !.op = o, !.pc = p] \in Thread
    BY Zenon DEF Thread
  <1>2. "tmp" \in Ops /\ "mount" \in Pcs
    BY DEF Ops, Pcs
  <1>3. [Idle EXCEPT !.op = "tmp", !.pc = "mount"] \in Thread
    BY <1>1, <1>2, IdleThread, Zenon
  <1>4. QED
    BY <1>3 DEF Idle

LEMMA MktempThread ==
  ASSUME NEW v \in Int
  PROVE  LET r == [Idle EXCEPT !.op = "mktemp", !.pc = "open", !.value = v]
         IN  r \in Thread /\ r.op = "mktemp" /\ r.pc = "open"
  <1>1. ASSUME NEW t \in Thread, NEW o \in Ops, NEW p \in Pcs
        PROVE  [t EXCEPT !.op = o, !.pc = p, !.value = v] \in Thread
    BY Zenon DEF Thread
  <1>2. "mktemp" \in Ops /\ "open" \in Pcs
    BY DEF Ops, Pcs
  <1>3. [Idle EXCEPT !.op = "mktemp", !.pc = "open", !.value = v] \in Thread
    BY <1>1, <1>2, IdleThread, Zenon
  <1>4. QED
    BY <1>3 DEF Idle

LEMMA RetryThread ==
  ASSUME NEW t \in Thread, t.op = "mktemp", NEW v \in Int
  PROVE  LET r == [t EXCEPT !.count = t.count + 1, !.value = v]
         IN  r \in Thread /\ r.op = "mktemp" /\ r.pc = t.pc
  <1>1. ASSUME NEW c \in Int PROVE [t EXCEPT !.count = c, !.value = v] \in Thread
    BY Zenon DEF Thread
  <1>2. t.count + 1 \in Int
    BY DEF Thread
  <1>3. [t EXCEPT !.count = t.count + 1, !.value = v] \in Thread
    BY <1>1, <1>2, Zenon
  <1>4. QED
    BY <1>3 DEF Thread

LEMMA OpenMoves ==
  ASSUME NEW u \in Users, MktempOpen(u)
  PROVE  \/ user' = [user EXCEPT ![u] = Idle]
         \/ user' = [user EXCEPT ![u] = [user[u] EXCEPT !.count = user[u].count + 1,
                                                       !.value = tmpValue']]
  <1>1. CASE user[u].count + 1 = MaxTmp
    BY <1>1 DEF MktempOpen
  <1>2. CASE user[u].count + 1 # MaxTmp
    BY <1>2 DEF MktempOpen
  <1>3. QED
    BY <1>1, <1>2, Zenon

LEMMA MovesPc ==
  ASSUME Types, NEW u \in Users, NEW p \in Pcs, Goto(u, p)
  PROVE  /\ user' \in [Users -> Thread] /\ user'[u].pc = p
         /\ user'[u].op = user[u].op /\ user'[u].dir = user[u].dir
         /\ \A w \in Users \ {u} : user'[w] = user[w]
  BY DEF Types, Goto, Thread

LEMMA InitOwner == ASSUME Apart, Init PROVE IInv /\ TmpSteps /\ TmpUnique
  <1>1. \A u \in Users : user[u] = Idle
    BY DEF Init
  <1>2. Types
    BY IdleThread DEF Init, Types
  <1>3. Owner /\ Steps
    BY <1>1, IdleThread DEF Init, Owner, Steps, Inside
  <1>4. QED
    BY <1>1, <1>2, <1>3, IdleThread DEF Init, IInv, TmpSteps, TmpUnique

LEMMA StepOwner ==
  ASSUME Apart, IInv, [Next]_dirVars
  PROVE  IInv'
  <1> USE DEF IInv
  <1>0. Types /\ tmpValue \in Int
    BY DEF Types
  <1>1. CASE UNCHANGED dirVars
    BY <1>1 DEF dirVars, Types, Owner, Steps
  <1>2. ASSUME NEW u \in Users, NEW op \in {"mount", "umount", "xattr"}, NEW d \in Dirs, Begin(u, op, d)
        PROVE IInv'
    <2> DEFINE r == [Idle EXCEPT !.op = op, !.pc = "lock", !.dir = d]
    <2>1. r \in Thread /\ r.op = op /\ r.pc = "lock"
      BY BeginThread, Zenon
    <2>2. Moves(u, r)
      BY <1>2, <1>0, <2>1, MovesTo, Zenon DEF Begin
    <2>3. QED
      BY <1>2, <2>1, <2>2 DEF Begin, Moves, work, tmp, Types, Owner, Steps, Inside
  <1>3. ASSUME NEW u \in Users, Lock(u) PROVE IInv'
    <2>1. Goto(u, "fchdir")
      BY <1>3 DEF Lock
    <2>2. QED
      BY <1>3, <1>0, <2>1, MovesPc DEF Lock, tmp, Types, Owner, Steps, Inside, Pcs, Apart
  <1>4. ASSUME NEW u \in Users, Fchdir(u) PROVE IInv'
    <2>1. CASE Goto(u, "call") /\ cwd' = user[u].dir
      BY <1>4, <1>0, <2>1, MovesPc DEF Fchdir, tmp, Types, Owner, Steps, Inside, Pcs, Apart, Thread
    <2>2. CASE Goto(u, "unlock") /\ UNCHANGED cwd
      BY <1>4, <1>0, <2>2, MovesPc DEF Fchdir, tmp, Types, Owner, Steps, Inside, Pcs, Apart
    <2>3. QED
      BY <1>4, <2>1, <2>2 DEF Fchdir
  <1>5. ASSUME NEW u \in Users, Call(u) PROVE IInv'
    <2>1. Goto(u, "chdir")
      BY <1>5 DEF Call
    <2>2. cwd = user[u].dir
      BY <1>5 DEF Call, Owner
    <2>3. \A t \in touched' : t[1] = t[2]
      BY <1>5, <2>2 DEF Call
    <2>4. QED
      BY <1>5, <1>0, <2>1, <2>3, MovesPc DEF Call, tmp, Types, Owner, Steps, Inside, Pcs, Apart
  <1>6. ASSUME NEW u \in Users, Chdir(u) PROVE IInv'
    <2>1. Goto(u, "unlock")
      BY <1>6 DEF Chdir
    <2>2. QED
      BY <1>6, <1>0, <2>1, MovesPc DEF Chdir, tmp, Types, Owner, Steps, Inside, Pcs, Apart
  <1>7. ASSUME NEW u \in Users, Unlock(u) PROVE IInv'
    <2>1. Moves(u, Idle)
      BY <1>7, <1>0, IdleThread, MovesTo, Zenon DEF Unlock
    <2>2. QED
      BY <1>7, <2>1, IdleThread DEF Unlock, Moves, tmp, Types, Owner, Steps, Inside, Pcs, Apart
  <1>8. ASSUME NEW u \in Users, TmpBegin(u) PROVE IInv'
    <2> DEFINE r == [Idle EXCEPT !.op = "tmp", !.pc = "mount"]
    <2>1. r \in Thread /\ r.op = "tmp" /\ r.pc = "mount"
      BY TmpThread
    <2>2. Moves(u, r) \/ UNCHANGED user
      BY <1>8, <1>0, <2>1, MovesTo DEF TmpBegin
    <2>3. UNCHANGED <<cwd, cwdMutex, touched, tmpValue>>
      BY <1>8 DEF TmpBegin, work
    <2>4. QED
      <3>1. CASE UNCHANGED user
        BY <2>3, <3>1 DEF Types, Owner, Steps
      <3>2. CASE Moves(u, r)
        <4> HIDE DEF r
        <4>1. QED
          BY <2>1, <2>3, <3>2 DEF Moves, Types, Owner, Steps, Inside
      <3>3. QED
        BY <2>2, <3>1, <3>2
  <1>9. ASSUME NEW u \in Users, TmpMounted(u) \/ TmpUmount(u) PROVE IInv'
    <2>1. Goto(u, "use") \/ Goto(u, "rmdir")
      BY <1>9 DEF TmpMounted, TmpUmount
    <2>2. UNCHANGED <<cwd, cwdMutex, touched, tmpValue>> /\ user[u].op = "tmp"
      BY <1>9 DEF TmpMounted, TmpUmount, tmp
    <2>3. CASE Goto(u, "use")
      BY <1>0, <2>2, <2>3, MovesPc DEF Types, Owner, Steps, Inside, Pcs
    <2>4. CASE Goto(u, "rmdir")
      BY <1>0, <2>2, <2>4, MovesPc DEF Types, Owner, Steps, Inside, Pcs
    <2>5. QED
      BY <2>1, <2>3, <2>4
  <1>10. ASSUME NEW u \in Users, TmpRmdir(u) PROVE IInv'
    <2>1. Moves(u, Idle)
      BY <1>10, <1>0, IdleThread, MovesTo, Zenon DEF TmpRmdir
    <2>2. UNCHANGED <<cwd, cwdMutex, touched, tmpValue>>
      BY <1>10 DEF TmpRmdir, work
    <2>3. QED
      BY <2>1, <2>2, IdleThread DEF Moves, Types, Owner, Steps, Inside
  <1>11. ASSUME NEW u \in Users, MktempBegin(u) PROVE IInv'
    <2>1. tmpValue' \in Int
      BY <1>11, <1>0 DEF MktempBegin, Apart
    <2> DEFINE r == [Idle EXCEPT !.op = "mktemp", !.pc = "open", !.value = tmpValue']
    <2>2. r \in Thread /\ r.op = "mktemp" /\ r.pc = "open"
      BY <2>1, MktempThread, Zenon
    <2>3. user' = [user EXCEPT ![u] = r] /\ UNCHANGED <<cwd, cwdMutex, touched>>
      BY <1>11 DEF MktempBegin, work
    <2>4. Moves(u, r)
      BY <2>2, <2>3, <1>0, MovesTo, Zenon
    <2>5. QED
      BY <2>1, <2>2, <2>3, <2>4 DEF Moves, Types, Owner, Steps, Inside
  <1>12. ASSUME NEW u \in Users, MktempOpen(u) PROVE IInv'
    <2>1. tmpValue' \in Int
      BY <1>12, <1>0 DEF MktempOpen, Apart
    <2>2. UNCHANGED <<cwd, cwdMutex, touched>>
      BY <1>12 DEF MktempOpen, work
    <2> DEFINE r == [user[u] EXCEPT !.count = user[u].count + 1, !.value = tmpValue']
    <2>3. user[u] \in Thread
      BY DEF Types
    <2>4. r \in Thread /\ r.op = "mktemp" /\ r.pc = user[u].pc
      <3>1. user[u].op = "mktemp"
        BY <1>12 DEF MktempOpen
      <3>2. QED
        BY <2>1, <2>3, <3>1, RetryThread, Zenon
    <2>5. user' = [user EXCEPT ![u] = Idle] \/ user' = [user EXCEPT ![u] = r]
      BY <1>12, OpenMoves, Zenon
    <2>6. CASE user' = [user EXCEPT ![u] = Idle]
      <3>1. Moves(u, Idle)
        BY <2>6, <1>0, IdleThread, MovesTo, Zenon
      <3>2. QED
        BY <2>1, <2>2, <3>1, IdleThread DEF Moves, Types, Owner, Steps, Inside
    <2>7. CASE user' = [user EXCEPT ![u] = r]
      <3>1. Moves(u, r)
        BY <2>4, <2>7, <1>0, MovesTo, Zenon
      <3>2. user[u].op = "mktemp" /\ user[u].pc \notin Inside \cup {"lock"}
        BY <1>12 DEF MktempOpen, Steps
      <3>3. QED
        <4> HIDE DEF r
        <4>1. Types'
          BY <2>1, <3>1 DEF Moves, Types
        <4>2. Owner'
          BY <2>2, <2>4, <3>1, <3>2 DEF Moves, Owner, Inside
        <4>3. Steps'
          BY <2>2, <2>4, <3>1, <3>2 DEF Moves, Steps, Inside
        <4>4. QED
          BY <2>2, <4>1, <4>2, <4>3
    <2>8. QED
      BY <2>5, <2>6, <2>7
  <1>13. ASSUME NEW u \in Users, TmpFileGone(u) PROVE IInv'
    BY <1>13 DEF TmpFileGone, work, Types, Owner, Steps
  <1>14. QED
    BY <1>1, <1>2, <1>3, <1>4, <1>5, <1>6, <1>7, <1>8, <1>9, <1>10, <1>11, <1>12, <1>13 DEF Next

(* SDir's own system calls: a thread mounts, unmounts or reads attributes  *)
(* in the directory it asked for, and leaves the process in "/", for any   *)
(* number of threads and directories.                                      *)
THEOREM OwnDirectoryAlways == ASSUME Apart PROVE Spec => []OwnDirectory
  <1>1. Init => IInv
    BY InitOwner
  <1>2. IInv /\ [Next]_dirVars => IInv'
    BY StepOwner
  <1>3. IInv => OwnDirectory
    BY DEF IInv, Owner, OwnDirectory
  <1>4. QED
    BY <1>1, <1>2, <1>3, PTL DEF Spec

LEMMA StepTmp ==
  ASSUME Apart, IInv, TmpSteps, [Next]_dirVars
  PROVE  TmpSteps'
  <1>0. Types /\ Steps /\ tmpValue \in Int
    BY DEF IInv, Types
  <1>1. CASE UNCHANGED dirVars
    BY <1>1 DEF dirVars, TmpSteps
  <1>2. ASSUME NEW u \in Users, NEW op \in {"mount", "umount", "xattr"}, NEW d \in Dirs, Begin(u, op, d)
        PROVE TmpSteps'
    <2>1. \A w \in Users \ {u} : user'[w] = user[w]
      BY <1>2, <1>0 DEF Begin, Types
    <2>2. QED
      BY <1>2, <2>1 DEF Begin, work, tmp, TmpSteps
  <1>3. ASSUME NEW u \in Users, NEW p \in Pcs, Goto(u, p), user[u].op # "tmp",
               UNCHANGED <<mountedOn, tmp>>
        PROVE TmpSteps'
    BY <1>3, <1>0, MovesPc DEF tmp, TmpSteps
  <1>4. ASSUME NEW u \in Users, Lock(u) \/ Fchdir(u) \/ Chdir(u)
        PROVE TmpSteps'
    <2>1. user[u].op # "tmp"
      BY <1>4, <1>0 DEF Lock, Fchdir, Chdir, Steps
    <2>2. \E p \in Pcs : Goto(u, p)
      BY <1>4 DEF Lock, Fchdir, Chdir, Pcs, Inside
    <2>3. UNCHANGED <<mountedOn, tmp>>
      BY <1>4 DEF Lock, Fchdir, Chdir
    <2>4. QED
      BY <1>3, <2>1, <2>2, <2>3
  <1>5. ASSUME NEW u \in Users, Call(u) PROVE TmpSteps'
    <2>1. user[u].op # "tmp" /\ cwd \notin Users
      BY <1>5, <1>0 DEF Call, Steps, Inside
    <2>2. \A w \in Users : w \in mountedOn' => w \in mountedOn
      BY <1>5, <2>1 DEF Call
    <2>3. Goto(u, "chdir") /\ UNCHANGED tmp /\ "chdir" \in Pcs
      BY <1>5 DEF Call, Pcs, Inside
    <2>4. QED
      BY <1>0, <2>1, <2>2, <2>3, MovesPc DEF tmp, TmpSteps
  <1>6. ASSUME NEW u \in Users, Unlock(u) PROVE TmpSteps'
    <2>1. user[u].op # "tmp"
      BY <1>6, <1>0 DEF Unlock, Steps, Inside
    <2>2. Moves(u, Idle)
      BY <1>6, <1>0, IdleThread, MovesTo, Zenon DEF Unlock
    <2>3. QED
      BY <1>6, <2>1, <2>2 DEF Moves, Unlock, tmp, TmpSteps
  <1>7. ASSUME NEW u \in Users, TmpBegin(u) PROVE TmpSteps'
    <2>1. UNCHANGED <<mountedOn, leaked>> /\ user[u].op = "none"
      BY <1>7 DEF TmpBegin, work
    <2>2. CASE UNCHANGED <<tmpDirs, user>>
      BY <2>1, <2>2 DEF TmpSteps
    <2>3. CASE /\ tmpDirs' = tmpDirs \cup {u}
               /\ user' = [user EXCEPT ![u] = [Idle EXCEPT !.op = "tmp", !.pc = "mount"]]
      <3>1. Moves(u, [Idle EXCEPT !.op = "tmp", !.pc = "mount"])
        BY <1>0, <2>3, TmpThread, MovesTo, Zenon
      <3>2. user'[u].op = "tmp" /\ \A w \in Users \ {u} : user'[w] = user[w]
        BY <3>1, TmpThread DEF Moves
      <3>3. QED
        BY <2>1, <2>3, <3>2, Zenon DEF TmpSteps
    <2>4. QED
      BY <1>7, <2>2, <2>3 DEF TmpBegin
  <1>8. ASSUME NEW u \in Users, TmpMounted(u) PROVE TmpSteps'
    BY <1>8, <1>0, MovesPc DEF TmpMounted, tmp, TmpSteps, Pcs
  <1>9. ASSUME NEW u \in Users, TmpUmount(u) PROVE TmpSteps'
    BY <1>9, <1>0, MovesPc DEF TmpUmount, TmpSteps, Pcs
  <1>10. ASSUME NEW u \in Users, TmpRmdir(u) PROVE TmpSteps'
    <2>1. Moves(u, Idle)
      BY <1>10, <1>0, IdleThread, MovesTo, Zenon DEF TmpRmdir
    <2>2. QED
      BY <1>10, <2>1 DEF Moves, TmpRmdir, work, TmpSteps
  <1>11. ASSUME NEW u \in Users, MktempBegin(u) \/ MktempOpen(u) PROVE TmpSteps'
    <2>1. user[u].op # "tmp" /\ UNCHANGED <<mountedOn, tmpDirs, leaked>>
      BY <1>11 DEF MktempBegin, MktempOpen, work
    <2>2. \A w \in Users \ {u} : user'[w] = user[w]
      BY <1>11, <1>0, OpenMoves, Zenon DEF MktempBegin, Types
    <2>3. QED
      BY <2>1, <2>2 DEF TmpSteps
  <1>12. ASSUME NEW u \in Users, TmpFileGone(u) PROVE TmpSteps'
    BY <1>12 DEF TmpFileGone, work, TmpSteps
  <1>13. QED
    BY <1>1, <1>2, <1>4, <1>5, <1>6, <1>7, <1>8, <1>9, <1>10, <1>11, <1>12 DEF Next

(* TmpMount and TmpDir: whatever else the threads do, what a TmpMount made *)
(* is gone with it, unless its own umount or rmdir failed.                 *)
THEOREM TmpRemovedAlways == ASSUME Apart PROVE Spec => []TmpRemoved
  <1>1. Init => IInv /\ TmpSteps
    BY InitOwner
  <1>2. IInv /\ TmpSteps /\ [Next]_dirVars => IInv' /\ TmpSteps'
    BY StepOwner, StepTmp
  <1>3. TmpSteps => TmpRemoved
    BY DEF TmpSteps, TmpRemoved
  <1>4. QED
    BY <1>1, <1>2, <1>3, PTL DEF Spec

(* mktemp: O_EXCL keeps the names apart, though the counter is shared      *)
(* without a lock; no bound on threads, files or tries matters.            *)
THEOREM TmpUniqueAlways == Spec => []TmpUnique
  <1>1. Init => TmpUnique
    BY DEF Init, TmpUnique
  <1>2. ASSUME TmpUnique, [Next]_dirVars PROVE TmpUnique'
    <2>1. ASSUME NEW u \in Users, MktempOpen(u) PROVE TmpUnique'
      <3>1. CASE UNCHANGED tmpFiles
        BY <1>2, <3>1 DEF TmpUnique
      <3>2. CASE /\ tmpFiles' = tmpFiles \cup {<<user[u].value, u>>}
                 /\ ~ \E f \in tmpFiles : f[1] = user[u].value
        BY <1>2, <3>2 DEF TmpUnique
      <3>3. QED
        BY <2>1, <3>1, <3>2 DEF MktempOpen
    <2>2. ASSUME NEW u \in Users, TmpFileGone(u) PROVE TmpUnique'
      BY <1>2, <2>2 DEF TmpFileGone, TmpUnique
    <2>3. CASE UNCHANGED tmpFiles
      BY <1>2, <2>3 DEF TmpUnique
    <2>4. QED
      BY <1>2, <2>1, <2>2, <2>3
      DEF Next, Begin, Lock, Fchdir, Call, Chdir, Unlock, TmpBegin, TmpMounted, TmpUmount,
          TmpRmdir, MktempBegin, tmp, dirVars
  <1>3. QED
    BY <1>1, <1>2, PTL DEF Spec

=============================================================================
