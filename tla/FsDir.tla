-------------------------------- MODULE FsDir --------------------------------
(***************************************************************************)
(* The name layer of fs/fs.c: fs_lookup() and fs_mknod(), with the inode   *)
(* allocator they use.  One step performs one write that other calls can   *)
(* see: a sector of the inode table, or the whole fs_write() that appends  *)
(* a directory entry, whose commit point is the write of the directory's   *)
(* inode (module FsFile).  A crash may fall between any two of them.       *)
(*                                                                         *)
(* A path is a sequence of tokens, each Slash or a name; two names are     *)
(* never adjacent.  Paths are shorter than MAXPATH.                        *)
(***************************************************************************)
EXTENDS Integers, Sequences, FiniteSetsExt, SequencesExt

CONSTANTS
  NINODES,             \* inodes of the file system, numbered from 0
  NDIRENTS_PER_BLOCK,  \* directory entries of a block
  Names,               \* names of at most MAXNAME - 1 characters
  LongNames,           \* longer names
  Paths                \* paths callers pass to fs_mknod()

NULLINUM == 0
ROOTINUM == 1
Slash    == "/"
Empty    == ""     \* the name of no characters
Free     == "free" \* inode type 0
T_REG    == "reg"
T_DIR    == "dir"

ASSUME NamesAssumption ==
  /\ NINODES \in Nat /\ NINODES >= 2 /\ NDIRENTS_PER_BLOCK \in Nat \ {0}
  /\ Names \cap LongNames = {}
  /\ {Slash, Empty} \cap (Names \cup LongNames) = {}
  /\ Paths \subseteq Seq({Slash} \cup Names \cup LongNames)

Inum == 0 .. NINODES - 1

VARIABLES
  inode,    \* type, link count and directory entries of each inode
  pc,       \* step of the fs_mknod() that is running: "idle" when none is,
            \* "link", "count" or "undo"
  call,     \* its path, its type, the directory, the name and the new inode
  ret,      \* value of the last fs_mknod()
  crashed   \* some fs_mknod() was cut short

vars == <<inode, pc, call, ret, crashed>>

NoCall == [path |-> <<>>, type |-> Free, dir |-> NULLINUM, name |-> Empty,
           inum |-> NULLINUM]

-----------------------------------------------------------------------------
(***************************************************************************)
(* Lookup.                                                                 *)
(***************************************************************************)

Directories == {n \in Inum : inode[n].type = T_DIR}

\* Mutant: the last entry is not looked at.
Searched_short(des) == 1 .. Len(des) - 1
Searched(des) == DOMAIN des

\* The inode of the first entry called name, NULLINUM if there is none.
dir_lookup(n, name) ==
  LET des == inode[n].dirents
      at  == {i \in Searched(des) : des[i].name = name}
  IN  IF inode[n].type = T_DIR /\ at # {} THEN des[Min(at)].inum ELSE NULLINUM

\* The tokens of a path that are not slashes, in their order.
NamesIn(path) ==
  LET upto[k \in 0 .. Len(path)] ==
        IF k = 0 THEN <<>>
        ELSE IF path[k] = Slash THEN upto[k - 1] ELSE Append(upto[k - 1], path[k])
  IN  upto[Len(path)]

\* The names fs_lookup() takes from an absolute path.  Only one leading slash
\* is skipped: a second one ends a name of no characters.
Components(path) ==
  IF Len(path) > 1 /\ path[2] = Slash THEN <<Empty>> \o NamesIn(path) ELSE NamesIn(path)

Resolve(names) ==
  LET at[k \in 0 .. Len(names)] ==
        IF k = 0 THEN ROOTINUM
        ELSE IF at[k - 1] = NULLINUM THEN NULLINUM ELSE dir_lookup(at[k - 1], names[k])
  IN  at[Len(names)]

fs_lookup(path) ==
  IF path = <<>> \/ path[1] # Slash THEN NULLINUM ELSE Resolve(Components(path))

(***************************************************************************)
(* getname(): every path can be seen as parent/name.                       *)
(***************************************************************************)

\* Where the name of a path is; the first token if it has slashes only.
NameAt(path) == Max({1} \cup {i \in DOMAIN path : path[i] # Slash})

HasName(path) ==
  /\ path # <<>>
  /\ path # <<Slash>> => path[NameAt(path)] \notin {Slash} \cup LongNames

NameOf(path) ==
  IF path[NameAt(path)] = Slash THEN Empty ELSE path[NameAt(path)]
ParentOf(path) ==
  IF path = <<Slash>> THEN path ELSE SubSeq(path, 1, NameAt(path) - 1)

(***************************************************************************)
(* alloc_inode(): the first inode of type 0.                               *)
(***************************************************************************)
\* Mutant: inodes in use are not passed over.
Unused_any == Inum \ {NULLINUM, ROOTINUM}
Unused == {n \in Inum : inode[n].type = Free}

alloc_inode(n, type) ==
  /\ n \in Unused /\ \A m \in Unused : n <= m
  /\ inode' = [inode EXCEPT ![n] = [type |-> type, linkcnt |-> 0, dirents |-> <<>>]]

-----------------------------------------------------------------------------
\* The table fs_format() leaves: inodes 0 and 1 are directories, 1 the root.
Init ==
  /\ inode = [n \in Inum |-> [type |-> IF n \in {NULLINUM, ROOTINUM} THEN T_DIR ELSE Free,
                              linkcnt |-> 0, dirents |-> <<>>]]
  /\ pc = "idle" /\ call = NoCall /\ ret = NULLINUM /\ crashed = FALSE

(***************************************************************************)
(* fs_mknod().                                                             *)
(***************************************************************************)

\* Mutant: duplicates are not looked for.
Duplicate_never(path) == FALSE
Duplicate(path) == dir_lookup(fs_lookup(ParentOf(path)), NameOf(path)) # NULLINUM

\* What fs_mknod() checks before it writes anything.
Acceptable(path) ==
  /\ HasName(path)
  /\ fs_lookup(ParentOf(path)) \in Directories \ {NULLINUM}
  /\ ~Duplicate(path)

Refuse(path) ==
  /\ pc = "idle"
  /\ ~Acceptable(path) \/ Unused = {}
  /\ ret' = NULLINUM
  /\ UNCHANGED <<inode, pc, call, crashed>>

\* The checks pass and alloc_inode() takes an inode.
Begin(path, type) ==
  /\ pc = "idle"
  /\ Acceptable(path)
  /\ \E n \in Unused :
       /\ alloc_inode(n, type)
       /\ call' = [path |-> path, type |-> type, dir |-> fs_lookup(ParentOf(path)),
                   name |-> NameOf(path), inum |-> n]
  /\ pc' = "link"
  /\ UNCHANGED <<ret, crashed>>

\* The entry is appended to the directory.  Entries never cross a block, so
\* fs_write() stores the whole of it or, for want of a block, nothing.
Link ==
  /\ pc = "link" /\ pc' = "count"
  /\ inode' = [inode EXCEPT ![call.dir].dirents =
                 Append(@, [name |-> call.name, inum |-> call.inum])]
  /\ UNCHANGED <<call, ret, crashed>>

LinkFails ==
  /\ pc = "link" /\ pc' = "undo"
  /\ Len(inode[call.dir].dirents) % NDIRENTS_PER_BLOCK = 0
  /\ UNCHANGED <<inode, call, ret, crashed>>

\* free_inode() of the new inode, which has no blocks yet.
\* Mutant: the directory is freed instead.
Freed_dir == call.dir
Freed == call.inum

\* Mutant: the new inode is left allocated.
TypeAfterUndo_kept == inode[Freed].type
TypeAfterUndo == Free

Undo ==
  /\ pc = "undo" /\ pc' = "idle"
  /\ inode' = [inode EXCEPT ![Freed].type = TypeAfterUndo]
  /\ ret' = NULLINUM /\ call' = NoCall
  /\ UNCHANGED crashed

\* The link count of the new inode goes to 1.
Counted == call.inum

Count ==
  /\ pc = "count" /\ pc' = "idle"
  /\ inode' = [inode EXCEPT ![Counted].linkcnt = @ + 1]
  /\ ret' = call.inum /\ call' = NoCall
  /\ UNCHANGED crashed

\* The machine stops between two writes.
Crash ==
  /\ pc # "idle" /\ pc' = "idle"
  /\ call' = NoCall /\ ret' = NULLINUM /\ crashed' = TRUE
  /\ UNCHANGED inode

fs_mknod == \/ \E path \in Paths : Refuse(path) \/ \E t \in {T_REG, T_DIR} : Begin(path, t)
            \/ Link \/ LinkFails \/ Undo \/ Count

Next == fs_mknod \/ Crash

Spec == Init /\ [][Next]_vars

-----------------------------------------------------------------------------
(***************************************************************************)
(* Properties.                                                             *)
(***************************************************************************)

Dirents == Seq([name : {Empty} \cup Names, inum : Inum])

\* The inode table and the running call keep their types; no inode is ever
\* counted twice, and no entry has a name fs_lookup() could not match.
TypeOK ==
  /\ DOMAIN inode = Inum
  /\ \A n \in Inum :
       /\ inode[n].type \in {Free, T_REG, T_DIR}
       /\ inode[n].linkcnt \in 0 .. 1
       /\ inode[n].dirents \in Dirents
  /\ pc \in {"idle", "link", "count", "undo"}
  /\ call.dir \in Inum /\ call.inum \in Inum /\ call.name \in {Empty} \cup Names
  /\ ret \in Inum /\ crashed \in BOOLEAN

\* The entries on the disk, each by its directory and its place there.
Entries == UNION {{<<d, i>> : i \in DOMAIN inode[d].dirents} : d \in Directories}
EntryAt(e)   == inode[e[1]].dirents[e[2]]
EntriesOf(n) == {e \in Entries : EntryAt(e).inum = n}

Created == {n \in Inum \ {NULLINUM, ROOTINUM} : inode[n].type # Free}

\* Whatever write a crash interrupts, an entry names an inode that is in use, no
\* inode has two names, and an entry leads from an inode to one that was taken
\* after it, so that none is its own ancestor: the directories form a tree.
NoDanglingEntry ==
  \A e \in Entries :
    /\ EntryAt(e).inum \in Created
    /\ EntriesOf(EntryAt(e).inum) = {e}
    /\ e[1] \in Directories /\ e[1] < EntryAt(e).inum

\* No directory ever holds two entries of one name, so that an entry can not
\* hide another from fs_lookup().
NoDuplicateName ==
  \A d, e \in Entries :
    d[1] = e[1] /\ EntryAt(d).name = EntryAt(e).name => d = e

\* The link count of an inode is that of its entries, less one while or if
\* fs_mknod() stopped between the two writes; it never exceeds it.  Without a
\* crash every inode in use has a name once no call is running: a failed
\* fs_mknod() gives its inode back.
LinksCounted ==
  /\ \A n \in Inum :
       LET lag == Cardinality(EntriesOf(n)) - inode[n].linkcnt
       IN  /\ lag \in {0, 1}
           /\ lag = 1 => crashed \/ (pc = "count" /\ call.inum = n)
  /\ pc = "idle" /\ ~crashed => \A n \in Created : EntriesOf(n) # {}

\* The calls that return an inode.
Returns(path) == pc = "count" /\ call.path = path /\ ret' # NULLINUM
Found(path)   == fs_lookup(path)' = ret' /\ inode'[ret'].type = call.type

\* When fs_mknod() returns an inode for a path that has a name in it,
\* fs_lookup() of the same path finds that inode.  fs_mknod("/") creates an
\* entry with an empty name, which fs_lookup("/") does not mean.
CreatedIsFound ==
  [][\A path \in Paths \ {<<Slash>>} : Returns(path) => Found(path)]_vars

(***************************************************************************)
(* The names of NameSpec, as fs_lookup() sees them.  Routes are bounded by *)
(* the number of inodes.                                                   *)
(***************************************************************************)
Routes == UNION {[1 .. k -> {Empty} \cup Names] : k \in 0 .. NINODES - 2}

NameTree == INSTANCE NameSpec WITH
  Inum   <- Inum,
  Routes <- Routes,
  Root   <- ROOTINUM,
  Dir    <- T_DIR,
  Types  <- {T_REG, T_DIR},
  node   <- [r \in {s \in Routes : Resolve(s) # NULLINUM} |->
               [inum |-> Resolve(r), type |-> inode[Resolve(r)].type]],
  call   <- IF pc \in {"idle", "undo"} THEN {}
            ELSE {[route |-> Append(Components(ParentOf(call.path)), call.name),
                   type |-> call.type, inum |-> call.inum]}

\* Seen from outside, fs_mknod() adds its own name to the tree, in one step,
\* or does nothing; whenever the machine stops, no other name has changed.
NamesAreSafe == NameTree!Spec
=============================================================================
