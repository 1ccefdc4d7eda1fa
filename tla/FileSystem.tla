----------------------------- MODULE FileSystem -----------------------------
(***************************************************************************)
(* Files and directories as scripts use them: src/src/lualib/lua_fs.c on   *)
(* Linux.  Every node has its own Lua state and its own thread, but the    *)
(* working directory, the lock files and one static buffer are those of    *)
(* the process.                                                            *)
(*                                                                         *)
(* Three parts that do not touch each other: directory locks, directory    *)
(* iterators and the permissions of files.                                 *)
(***************************************************************************)
EXTENDS Naturals, FiniteSets

CONSTANTS
    Dirs, Here,         \* directories by absolute path, and the path "."
    Locks, Iterators,   \* objects of scripts
    MaxEntries,         \* how many entries a directory has
    Threads,            \* the threads of the nodes
    Bits9,              \* the places of a permission string, 1 .. n in order
    Free                \* no path, no lock

ASSUME FilesAssumption ==
    /\ Here \notin Dirs
    /\ Free \notin Dirs \cup Locks \cup {Here}
    /\ MaxEntries \in Nat
    /\ IsFiniteSet(Bits9) /\ Bits9 = 1 .. Cardinality(Bits9)

VARIABLES
    cwd,        \* the working directory
    links,      \* for each directory the lock whose lockfile.lfs is in it, or Free
    path,       \* the field ln of each lock: a path, or Free
    locked,     \* the directory that each lock was made for, or Free
    relative,   \* a lock was ever made by a relative path
    dir,        \* each iterator: "none", "open", "closed" or "collected"
    entries,    \* how many entries each open directory has left
    closedirs,  \* how many times closedir was called for each iterator
    at,         \* each thread's place in perm2string; 0 outside
    mode,       \* the permissions of the file each thread asks about, a set of places
    perms,      \* the static buffer: the places that are not '-'
    told,       \* what each thread was told last
    disturbed   \* the threads whose call another one's overlapped

lockVars == <<cwd, links, path, locked, relative>>
dirVars == <<dir, entries, closedirs>>
permVars == <<at, mode, perms, told, disturbed>>

-----------------------------------------------------------------------------
(* Directory locks *)

Resolved(p) == IF p = Here THEN cwd ELSE p

\* chdir, of any node
ChangeDir(d) == cwd' = d /\ UNCHANGED <<links, path, locked, relative>>

\* lock_dir: the link is the lock.  One that is there already is an error.
LockDir(l, p) ==
    /\ path[l] = Free /\ locked[l] = Free
    /\ links[Resolved(p)] = Free
    /\ links' = [links EXCEPT ![Resolved(p)] = l]
    /\ path' = [path EXCEPT ![l] = p]
    /\ locked' = [locked EXCEPT ![l] = Resolved(p)]
    /\ relative' = (relative \/ p = Here)
    /\ UNCHANGED cwd

\* Mutant: the field is left as it was.
NoPathKept(l) == path[l]

NoPath(l) == Free

\* free and __gc: whatever lock file is found by that path now is removed.
UnlockDir(l) ==
    /\ path[l] # Free
    /\ links' = [links EXCEPT ![Resolved(path[l])] = Free]
    /\ path' = [path EXCEPT ![l] = NoPath(l)]
    /\ locked' = [locked EXCEPT ![l] = Free]
    /\ UNCHANGED <<cwd, relative>>

LocksNext == \/ \E d \in Dirs : ChangeDir(d)
             \/ \E l \in Locks : UnlockDir(l) \/ \E p \in Dirs \cup {Here} : LockDir(l, p)

-----------------------------------------------------------------------------
(* Directory iterators *)

\* dir(path) opens the directory, or raises an error and leaves an object without
\* one, which the script never sees.
OpenDir(i) ==
    /\ dir[i] = "none"
    /\ \/ \E n \in 0 .. MaxEntries : /\ dir' = [dir EXCEPT ![i] = "open"]
                                     /\ entries' = [entries EXCEPT ![i] = n]
       \/ /\ dir' = [dir EXCEPT ![i] = "collected"] /\ UNCHANGED entries
    /\ UNCHANGED closedirs

\* Mutant: the end of the directory is not remembered.
AfterLastOpen == "open"

AfterLast == "closed"

\* An entry, or after the last one the end, which closes the directory.  On a closed
\* directory next raises an error.
NextEntry(i) ==
    /\ dir[i] = "open"
    /\ \/ /\ entries[i] > 0
          /\ entries' = [entries EXCEPT ![i] = @ - 1]
          /\ UNCHANGED <<dir, closedirs>>
       \/ /\ entries[i] = 0
          /\ closedirs' = [closedirs EXCEPT ![i] = @ + 1]
          /\ dir' = [dir EXCEPT ![i] = AfterLast]
          /\ UNCHANGED entries

\* close, and __gc, which comes last
CloseDir(i, to) ==
    /\ dir[i] \in {"open", "closed"}
    /\ closedirs' = IF dir[i] = "open" THEN [closedirs EXCEPT ![i] = @ + 1] ELSE closedirs
    /\ dir' = [dir EXCEPT ![i] = to]
    /\ UNCHANGED entries

DirsNext == \E i \in Iterators : \/ OpenDir(i) \/ NextEntry(i)
                                 \/ \E to \in {"closed", "collected"} : CloseDir(i, to)

-----------------------------------------------------------------------------
(* Permissions: attributes(file, "permissions") or attributes(file) *)

Places == Cardinality(Bits9)

Attributes(t, m) ==
    LET others == {u \in Threads \ {t} : at[u] # 0}
    IN  /\ at[t] = 0
        /\ mode' = [mode EXCEPT ![t] = m]
        /\ at' = [at EXCEPT ![t] = 1]
        /\ disturbed' = (disturbed \ {t}) \cup others \cup (IF others = {} THEN {} ELSE {t})
        /\ UNCHANGED <<perms, told>>

\* Mutant: what the last call left in the buffer stays there.
ClearedNot(p) == perms

Cleared(p) == perms \ {p}

\* perm2string fills the buffer with '-', one place after the other, ...
ClearPlace(t) == /\ at[t] \in 1 .. Places
                 /\ perms' = Cleared(at[t])
                 /\ at' = [at EXCEPT ![t] = @ + 1]
                 /\ UNCHANGED <<mode, told, disturbed>>

\* ... and then puts in the letters, ...
SetPlace(t) == /\ at[t] \in Places + 1 .. 2 * Places
               /\ perms' = perms \cup ({at[t] - Places} \cap mode[t])
               /\ at' = [at EXCEPT ![t] = @ + 1]
               /\ UNCHANGED <<mode, told, disturbed>>

\* ... and push_st_perm copies it into a Lua string.
PushPerm(t) == /\ at[t] = 2 * Places + 1
               /\ told' = [told EXCEPT ![t] = perms]
               /\ at' = [at EXCEPT ![t] = 0]
               /\ UNCHANGED <<mode, perms, disturbed>>

PermsNext == \E t \in Threads : \/ \E m \in SUBSET Bits9 : Attributes(t, m)
                                \/ ClearPlace(t) \/ SetPlace(t) \/ PushPerm(t)

-----------------------------------------------------------------------------
FilesInit ==
    /\ cwd \in Dirs
    /\ links = [d \in Dirs |-> Free]
    /\ path = [l \in Locks |-> Free]
    /\ locked = [l \in Locks |-> Free]
    /\ relative = FALSE
    /\ dir = [i \in Iterators |-> "none"]
    /\ entries = [i \in Iterators |-> 0]
    /\ closedirs = [i \in Iterators |-> 0]
    /\ at = [t \in Threads |-> 0]
    /\ mode = [t \in Threads |-> {}]
    /\ perms = {}
    /\ told = [t \in Threads |-> {}]
    /\ disturbed = {}

FilesNext == \/ LocksNext /\ UNCHANGED <<dirVars, permVars>>
             \/ DirsNext /\ UNCHANGED <<lockVars, permVars>>
             \/ PermsNext /\ UNCHANGED <<lockVars, dirVars>>

FilesSpec == FilesInit /\ [][FilesNext]_<<lockVars, dirVars, permVars>>

-----------------------------------------------------------------------------
\* Type correctness.
FilesTypeOK == /\ links \in [Dirs -> Locks \cup {Free}]
               /\ path \in [Locks -> Dirs \cup {Here, Free}]
               /\ closedirs \in [Iterators -> Nat]
               /\ perms \subseteq Bits9

\* A directory lock is one node's until that node gives it up: nobody else locks the
\* directory, and the lock file is there.  That needs locks by absolute paths; for a
\* relative one, the node that frees it removes the lock file of wherever the nodes
\* have gone since.
LockHeld == ~relative => \A l \in Locks, d \in Dirs : (locked[l] = d <=> links[d] = l)

\* However scripts leave an iterator, its directory is closed once.
DirClosedOnce == \A i \in Iterators :
    /\ dir[i] = "open" => closedirs[i] = 0
    /\ dir[i] = "closed" => closedirs[i] = 1

\* A script is told the permissions of the file it asked about, whatever the calls
\* before left in the buffer, unless another node asks while it does: then the two
\* get a mixture.
PermsOfFile == \A t \in Threads \ disturbed : at[t] = 0 => told[t] = mode[t]

\* What the process has once for all nodes, its directories and the buffer of
\* perm2string, serves each node as if it were the node's own.
SharedStateKept == LockHeld /\ PermsOfFile
=============================================================================
