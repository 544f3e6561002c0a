------------------------------ MODULE Syscalls ------------------------------
(***************************************************************************)
(* The system calls, sys/syscall.c, with the dispatcher in sys/intr.c, the *)
(* descriptor table in proc/scheduler.c and the permission check of        *)
(* dev/vfs.c, as the one process that calls them sees them.  A call runs   *)
(* with interrupts off and is one step.                                    *)
(*                                                                         *)
(* A path stands for the vnode it leads to; what a path can lead to is the *)
(* subject of module Vfs.  Nothing a program can call deletes a vnode or   *)
(* changes its mode, and every vnode belongs to user 0 and group 0.        *)
(***************************************************************************)
EXTENDS Integers, Sequences

CONSTANTS Path,         \* paths of vnodes
          NULL,
          NodeAt,       \* the vnode at each path at boot, or NULL
          Creatable,    \* paths whose parent is a directory with room
          Given,        \* <<path looked up, path created>> of what open is given
          Id,           \* user and group ids, 0 among them
          MaxFds        \* PROC_MAX_FDS

Kind == {"DIR", "FILE", "DEV"}
Wild == "wild"          \* a pointer to no vnode
Mode == SUBSET ({"usr", "grp", "oth"} \X {"r", "w"})
Vnode == [type : Kind, mode : Mode]

ASSUME SyscallsAssumption ==
    /\ MaxFds \in Nat \ {0}
    /\ NULL \notin Path /\ Wild \notin Path /\ NULL # Wild /\ NULL \notin Vnode
    /\ NodeAt \in [Path -> Vnode \cup {NULL}]
    /\ Creatable \subseteq Path /\ Given \subseteq Path \X Path
    /\ Id \subseteq Nat /\ 0 \in Id

EOK == 0
ENOENT == 1
EBADF == 2
EFAULT == 3
EINVAL == 4
ENOTIMPL == 6
EACCES == 7
ENOTTY == 8

Fd == 0 .. MaxFds - 1

VARIABLES
    node,       \* the vnode at each path, or NULL
    fd_table,   \* fd_table[fd]: the path whose vnode is open there, or NULL
    fd_count,
    whoami,     \* [uid, gid]
    errno,
    rax,        \* the status the last call returned
    moved,      \* the transfer the last call did: <<path, "r" or "w">>, or <<>>
    phase       \* "running", "exited"; or a call that does not return: a failed
                \* "assert", a "panic", or "undefined" after a wild pointer

callVars == <<node, fd_table, fd_count, whoami, errno, rax, moved, phase>>

CallsInit ==
    /\ node = NodeAt
    /\ \E stdout \in Path :
          /\ NodeAt[stdout] # NULL /\ NodeAt[stdout].type = "DEV"
          /\ fd_table = [fd \in Fd |-> IF fd = 0 THEN stdout ELSE NULL]
    /\ fd_count = 1
    /\ whoami = [uid |-> 0, gid |-> 0]
    /\ errno = EOK /\ rax = 0 /\ moved = <<>>
    /\ phase = "running"

-----------------------------------------------------------------------------
\* syscall_handler: the status goes to rax and, when negative, to errno.
Return(status) ==
    /\ phase = "running" /\ phase' = "running"
    /\ rax' = status
    /\ errno' = IF status < 0 THEN -status ELSE errno

Transfers == moved' = <<>>
Files == <<fd_table, fd_count>>

\* A call that never returns.
Stops(how) ==
    /\ phase = "running" /\ phase' = how
    /\ Transfers
    /\ UNCHANGED <<node, Files, whoami, errno, rax>>

\* scheduler_proc_add_vnode returns -1 when the table is full.
CanAdd == fd_count < MaxFds

AddedAt == IF CanAdd THEN fd_count ELSE -1
Added(p) == IF CanAdd
            THEN /\ fd_table' = [fd_table EXCEPT ![fd_count] = p]
                 /\ fd_count' = fd_count + 1
            ELSE UNCHANGED Files

\* ramfs_create: only devices are not readable by others.
WritableMode(kind) == {"usr", "grp", "oth"} \X {"r", "w"}
DefaultMode(kind) ==
    {<<"usr", "r">>, <<"usr", "w">>, <<"grp", "r">>}
        \cup IF kind = "DEV" THEN {} ELSE {<<"oth", "r">>}

\* p is looked up, and q created when nothing is found: the same path but for
\* the odd names of FILENAME_FROM_PATH (see Vfs).
sys_open(p, q, create, kind) ==
    LET created == create /\ node[p] = NULL /\ node[q] = NULL /\ q \in Creatable
        found == node[p] # NULL \/ created IN
    /\ node' = IF created
               THEN [node EXCEPT ![q] = [type |-> kind, mode |-> DefaultMode(kind)]]
               ELSE node
    /\ IF found THEN Return(AddedAt) /\ Added(IF created THEN q ELSE p)
                ELSE Return(-ENOENT) /\ UNCHANGED Files
    /\ Transfers
    /\ UNCHANGED whoami

\* A path without a slash in front leads to nothing, not even to a directory:
\* vfs_create_vnode takes the lock of NULL.
open_relative(create) ==
    IF create THEN Stops("panic")
    ELSE Return(-ENOENT) /\ Transfers /\ UNCHANGED <<node, Files, whoami>>

\* scheduler_proc_remove_vnode: the later descriptors move down by one.
LastMoves(fd) ==
    [k \in Fd |-> IF k = fd_count - 1 THEN NULL
                  ELSE IF k = fd THEN fd_table[fd_count - 1] ELSE fd_table[k]]
Removed(fd) ==
    [k \in Fd |-> IF k = fd_count - 1 THEN NULL
                  ELSE IF fd <= k /\ k < fd_count - 1 THEN fd_table[k + 1]
                  ELSE fd_table[k]]

sys_close(fd) ==
    /\ IF fd \in Fd /\ fd_table[fd] # NULL
       THEN /\ Return(0)
            /\ fd_table' = Removed(fd)
            /\ fd_count' = fd_count - 1
       ELSE Return(-EBADF) /\ UNCHANGED Files
    /\ Transfers
    /\ UNCHANGED <<node, whoami>>

\* The owner's bits are tried, then the group's, then the others'.
vfs_am_i_allowed(v, action) ==
    \/ whoami.uid = 0 /\ <<"usr", action>> \in v.mode
    \/ whoami.gid = 0 /\ <<"grp", action>> \in v.mode
    \/ <<"oth", action>> \in v.mode

\* fd_table[fd], with no check of fd.  Behind the table lies fd_count and before
\* it the page map; neither points to a vnode.
Slot(fd) ==
    IF fd \in Fd THEN fd_table[fd]
    ELSE IF fd = MaxFds /\ fd_count = 0 THEN NULL ELSE Wild

\* sys_read ("r") and sys_write ("w"): a directory, or a vnode whose
\* operation fails, gives -1, which becomes ENOTIMPL.
Transfer(fd, action, size, result) ==
    LET p == Slot(fd)
        Returns(status, done) ==
            Return(status) /\ moved' = done /\ UNCHANGED <<node, Files, whoami>> IN
    IF p = NULL THEN Returns(-EBADF, <<>>)
    ELSE IF p = Wild THEN Stops("undefined")
    ELSE IF ~vfs_am_i_allowed(node[p], action) THEN Returns(-EACCES, <<>>)
    ELSE IF size = 0 THEN Stops("assert")
    ELSE IF node[p].type = "DIR" \/ result = -1 THEN Returns(-ENOTIMPL, <<>>)
    ELSE Returns(result, <<p, action>>)

\* A call that asks about an open file.
Asks(fd, status) ==
    IF Slot(fd) = Wild THEN Stops("undefined")
    ELSE /\ Return(IF Slot(fd) = NULL THEN -EBADF ELSE status)
         /\ Transfers
         /\ UNCHANGED <<node, Files, whoami>>

\* sys_stat reports on any open file; NULL is refused before the descriptor.
sys_stat(fd, buffer) ==
    IF buffer THEN Asks(fd, 0)
    ELSE Return(-EFAULT) /\ Transfers /\ UNCHANGED <<node, Files, whoami>>

\* No file system has an ioctl operation.
sys_ioctl(fd) == Asks(fd, -ENOTTY)

sys_setuid(id) ==
    /\ Return(0) /\ Transfers
    /\ whoami' = [whoami EXCEPT !.uid = id]
    /\ UNCHANGED <<node, Files>>

sys_setgid(id) ==
    /\ Return(0) /\ Transfers
    /\ whoami' = [whoami EXCEPT !.gid = id]
    /\ UNCHANGED <<node, Files>>

\* getpid (the first process is 0), uname, and numbers beyond the table.
OtherCalls ==
    /\ \E status \in {0, -ENOTIMPL, -EINVAL} : Return(status)
    /\ Transfers
    /\ UNCHANGED <<node, Files, whoami>>

\* scheduler_exit clears the open files, not their number, and frees the
\* process; the system halts behind it.
sys_exit ==
    /\ phase = "running" /\ phase' = "exited"
    /\ fd_table' = [k \in Fd |-> IF k < fd_count THEN NULL ELSE fd_table[k]]
    /\ Transfers
    /\ UNCHANGED <<node, fd_count, whoami, errno, rax>>

Sizes == {0, 1}
AnyFd == -1 .. MaxFds

CallsNext ==
    \/ \E g \in Given, create \in BOOLEAN, kind \in Kind : sys_open(g[1], g[2], create, kind)
    \/ \E create \in BOOLEAN : open_relative(create)
    \/ \E fd \in AnyFd : sys_close(fd)
    \/ \E fd \in AnyFd, action \in {"r", "w"}, size \in Sizes, result \in {-1, 1} :
          Transfer(fd, action, size, result)
    \/ \E fd \in AnyFd, buffer \in BOOLEAN : sys_stat(fd, buffer)
    \/ \E fd \in AnyFd : sys_ioctl(fd)
    \/ \E id \in Id : sys_setuid(id) \/ sys_setgid(id)
    \/ OtherCalls
    \/ sys_exit

CallsSpec == CallsInit /\ [][CallsNext]_callVars

-----------------------------------------------------------------------------
CallsTypeOK ==
    /\ node \in [Path -> Vnode \cup {NULL}]
    /\ fd_table \in [Fd -> Path \cup {NULL}]
    /\ fd_count \in 0 .. MaxFds
    /\ whoami \in [uid : Id, gid : Id]
    /\ errno \in Nat /\ rax \in Int
    /\ moved \in {<<>>} \cup (Path \X {"r", "w"})
    /\ phase \in {"running", "exited", "assert", "panic", "undefined"}

\* The number of descriptors in use; nobody reads fd_count after the exit.
InUse == IF phase = "exited" THEN 0 ELSE fd_count

\* The descriptors in use are exactly 0 .. fd_count - 1, after any sequence of
\* opens and closes: none is lost behind fd_count, and every open file exists.
FdsCompact ==
    \A fd \in Fd : /\ fd_table[fd] # NULL <=> fd < InUse
                   /\ fd_table[fd] # NULL => node[fd_table[fd]] # NULL

\* A process that has given up both its ids writes only to what was there at
\* boot for everybody to write to, whatever it opened or created, before or
\* after: sys_open checks nothing, no right is kept with a descriptor, and what
\* it creates belongs to user 0, whoever asks, and is not for others to write.
WritesAsAtBoot ==
    [][\A p \in Path : moved' = <<p, "w">> /\ whoami.uid # 0 /\ whoami.gid # 0
          => NodeAt[p] # NULL /\ <<"oth", "w">> \in NodeAt[p].mode]_callVars

\* The descriptor table implements the list of open files.
Opened == INSTANCE OpenFiles
    WITH Node <- Path, Max <- MaxFds,
         files <- [k \in 1 .. InUse |-> fd_table[k - 1]]
OpenRefinement == Opened!OpenSpec
=============================================================================
