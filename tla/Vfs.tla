-------------------------------- MODULE Vfs --------------------------------
(***************************************************************************)
(* The tree of vnodes, dev/vfs.c, with the creation of vnodes by           *)
(* fs/ramfs.c, the devices of fs/devfs.c, and open as sys/syscall.c does   *)
(* it.  A path is the sequence of its components, a vnode a number; the    *)
(* children of a vnode are the list that child and next make.              *)
(*                                                                         *)
(* The components are those that the lookups split a string into: a        *)
(* trailing slash adds none, and one of more than 255 characters is cut    *)
(* into several.  The name under which open creates a vnode is what        *)
(* FILENAME_FROM_PATH finds instead: the last component as a rule, but     *)
(* for "/foo/" it is "o/", and a long component is left whole.  No lookup  *)
(* ever asks for such a name.                                              *)
(*                                                                         *)
(* The operations run one at a time (boot thread, then system calls with   *)
(* interrupts off), so the vnode locks are never contended.  vfs_umount    *)
(* and vfs_chown are never called; contents, modes and times are the       *)
(* subject of Ramfs and Syscalls.                                          *)
(***************************************************************************)
EXTENDS Naturals, Sequences, FiniteSetsExt

CONSTANTS Name,         \* names of vnodes
          Component,    \* those that lookups ask for, "dev" among them
          Path,         \* paths programs and the kernel use
          Given,        \* <<path, FILENAME_FROM_PATH>> of what open is given
          MaxNodes      \* bound on the number of vnodes

ASSUME VfsAssumption ==
    /\ "dev" \in Component /\ Component \subseteq Name
    /\ Path \subseteq Seq(Component)
    /\ Given \subseteq Path \X Name
    /\ \A g \in Given : g[2] \in Component => g[1] # <<>> /\ g[2] = g[1][Len(g[1])]
    /\ MaxNodes \in Nat \ {0}

NULL == 0
Root == 1
Node == 1 .. MaxNodes
Kind == {"DIR", "FILE", "DEV"}

VARIABLES
    alive,      \* the vnodes that exist
    name, type, parent,
    children,   \* the list of the children of each vnode
    mounts,     \* the roots of the mounts, in the order of the list
    dangling    \* whether a list leads to a vnode that was freed

vars == <<alive, name, type, parent, children, mounts, dangling>>

-----------------------------------------------------------------------------
vfs_lookup(dir, n) ==
    LET same == {k \in DOMAIN children[dir] : name[children[dir][k]] = n} IN
    IF same = {} THEN NULL ELSE children[dir][Min(same)]

\* One turn of the loop in vfs_lazy_lookup: it stays at a missing component,
\* with NULL, and at a vnode that is not a directory, with that one.
ThroughFiles(at, n) == IF at = NULL THEN NULL ELSE vfs_lookup(at, n)
Turn(at, n) == IF at = NULL \/ type[at] # "DIR" THEN at ELSE vfs_lookup(at, n)

\* The walk from one root
Walk(root, path) ==
    LET at[k \in 0 .. Len(path)] == IF k = 0 THEN root ELSE Turn(at[k - 1], path[k]) IN
    at[Len(path)]

\* vfs_lazy_lookup: a path not found is tried, all of it, from the next mount.
vfs_lazy_lookup(path) ==
    LET found == {k \in DOMAIN mounts : Walk(mounts[k], path) # NULL} IN
    IF found = {} THEN NULL ELSE Walk(mounts[Min(found)], path)

\* The last vnode on the way, whatever its type.
Further(last, n) ==
    LET next == vfs_lookup(last.at, n) IN
    IF last.stop \/ next = NULL THEN [last EXCEPT !.stop = TRUE] ELSE [last EXCEPT !.at = next]
vfs_lazy_lookup_last(path) ==
    LET last[k \in 0 .. Len(path)] ==
            IF k = 0 THEN [at |-> Root, stop |-> FALSE] ELSE Further(last[k - 1], path[k]) IN
    last[Len(path)].at

-----------------------------------------------------------------------------
Init ==
    /\ alive = {Root}
    /\ name = [v \in Node |-> "dev"] /\ type = [v \in Node |-> "DIR"]
    /\ parent = [v \in Node |-> Root]
    /\ children = [v \in Node |-> <<>>]
    /\ mounts = <<Root>>
    /\ dangling = FALSE

Exists(dir, n) == vfs_lookup(dir, n) # NULL
NeverExists(dir, n) == FALSE
Refuses(dir, n) == Exists(dir, n)
Linked(dir, v) == Append(children[dir], v)

New == Min(Node \ alive)

\* vfs_create_vnode and ramfs_create: NULL under what is not a directory or
\* when the name is taken; otherwise a vnode at the end of the list.
CanCreate(dir, n) == type[dir] = "DIR" /\ ~Refuses(dir, n)
Created(dir, n, kind) ==
    /\ alive # Node
    /\ alive' = alive \cup {New}
    /\ name' = [name EXCEPT ![New] = n]
    /\ type' = [type EXCEPT ![New] = kind]
    /\ parent' = [parent EXCEPT ![New] = dir]
    /\ children' = [children EXCEPT ![New] = <<>>, ![dir] = Linked(dir, New)]

Tree == <<alive, name, type, parent, children>>

\* With a freed vnode in a list anything may happen; the model ends there.
Sound == ~dangling

\* The kernel creates files and directories in directories it looks up.
vfs_create_vnode(path, n, kind) ==
    LET dir == vfs_lazy_lookup(path) IN
    /\ Sound /\ dir # NULL
    /\ IF CanCreate(dir, n) THEN Created(dir, n, kind) ELSE UNCHANGED Tree
    /\ UNCHANGED <<mounts, dangling>>

\* sys_open: the vnode is created in the last directory found, by the name
\* FILENAME_FROM_PATH gives, if there is memory.  A string that does not start
\* with a slash leads nowhere and leaves the tree alone: open returns ENOENT, or
\* with O_CREATE the kernel panics on the missing directory (see Syscalls).
sys_open(path, n, create, memory, kind) ==
    LET found == vfs_lazy_lookup(path)
        dir == vfs_lazy_lookup_last(path) IN
    /\ Sound
    /\ IF found = NULL /\ create /\ memory /\ CanCreate(dir, n)
       THEN Created(dir, n, kind)
       ELSE UNCHANGED Tree
    /\ UNCHANGED <<mounts, dangling>>

\* devfs_init: vfs_mount finds the directory and appends a mount whose root it
\* becomes.  (With a /dev in the archive the assertion halts the kernel.)
MountRoot == New
devfs_init ==
    /\ Sound /\ Len(mounts) = 1 /\ CanCreate(Root, "dev")
    /\ Created(Root, "dev", "DIR")
    /\ mounts' = Append(mounts, MountRoot)
    /\ UNCHANGED dangling

\* devfs_add_dev: the vnode is deleted again when its data cannot be allocated.
devfs_add_dev(n) ==
    /\ Sound /\ Len(mounts) = 2
    /\ IF CanCreate(mounts[2], n) THEN Created(mounts[2], n, "DEV") ELSE UNCHANGED Tree
    /\ UNCHANGED <<mounts, dangling>>

\* vfs_delete_node, of the vnode just appended: only the link from the parent
\* to its first child is cut, so that a sibling may still lead to it.
vfs_delete_node(n) ==
    LET dir == mounts[2] IN
    /\ Sound /\ Len(mounts) = 2 /\ CanCreate(dir, n) /\ alive # Node
    /\ name' = [name EXCEPT ![New] = n]
    /\ type' = [type EXCEPT ![New] = "DEV"]
    /\ parent' = [parent EXCEPT ![New] = dir]
    /\ children' = [children EXCEPT ![dir] = IF @ = <<>> THEN <<>> ELSE Append(@, New)]
    /\ dangling' = (children[dir] # <<>>)
    /\ UNCHANGED <<alive, mounts>>

Next ==
    \/ \E path \in Path, n \in Component, kind \in Kind : vfs_create_vnode(path, n, kind)
    \/ \E g \in Given, create, memory \in BOOLEAN, kind \in Kind :
            sys_open(g[1], g[2], create, memory, kind)
    \/ devfs_init
    \/ \E n \in Component : devfs_add_dev(n) \/ vfs_delete_node(n)

Spec == Init /\ [][Next]_vars

-----------------------------------------------------------------------------
\* The path of every vnode, up through the parents.
PathTo ==
    LET up[v \in Node] == IF v = Root THEN <<>> ELSE Append(up[parent[v]], name[v]) IN up

\* Every vnode whose name can be asked for has a path and is found by it,
\* however the tree came about: lists of children lose nobody and hold no name
\* twice, only directories have any, and none that open made under an odd name
\* does.  Those are lost: no path leads to them.
FoundByPath ==
    \A v \in alive :
        IF name[v] \in Component
        THEN PathTo[v] \in Seq(Component) /\ vfs_lazy_lookup(PathTo[v]) = v
        ELSE \A path \in Path : vfs_lazy_lookup(path) # v

\* Whether path p starts with path s.
StartsWith(p, s) == Len(s) <= Len(p) /\ SubSeq(p, 1, Len(s)) = s

\* What a path leads to: the vnode it names, or a file or device on the way to
\* it, in the tree or else below the root of the second mount; nothing is
\* found only if there is no such vnode.
LookupMeans ==
    Sound => \A path \in Path :
        LET v == vfs_lazy_lookup(path)
            Leads(p) == {w \in alive : \/ PathTo[w] = p
                                       \/ type[w] # "DIR" /\ StartsWith(p, PathTo[w])}
            fallback == IF Len(mounts) = 1 THEN {} ELSE Leads(PathTo[mounts[2]] \o path) IN
        IF Leads(path) # {} THEN v \in Leads(path)
        ELSE IF v # NULL THEN v \in fallback ELSE fallback = {}

=============================================================================
