--------------------------------- MODULE Mkfs ---------------------------------
(***************************************************************************)
(* mkfs/mkfs.c: after the start, which is that of FsFormat, main() reads   *)
(* commands and carries them out by calls of fs.c, each of which does what *)
(* FileSpec and NameSpec say.  A command makes many such calls, and mkfs   *)
(* may be stopped between any two, and in the middle of one.               *)
(*                                                                         *)
(* A name stands for a path: it is in the directory that Parent gives, and *)
(* in none if the path is relative or too long or its parent is never      *)
(* there.  The room of the disk is counted in entries of directories and   *)
(* bytes of files that are not in a hole.                                  *)
(***************************************************************************)
EXTENDS FsFormat, Sequences, FiniteSets, FiniteSetsExt

CONSTANTS
  Names,      \* names in the file system
  Root,       \* the name of the root directory, "/"
  Parent,     \* the directory of a name, "" for a path that has none
  Hosts,      \* names of files of the host
  HostFiles,  \* what they may hold at first, Absent for one that is not there
  OldTree,    \* the files of a file system that is there at first
  Word,       \* what is in the buffer that write stores
  BUFSZ,      \* its size, 64
  WriteArgs,  \* sizes and offsets that write is given
  SZMIN,      \* the smallest negative size that inode_rw() refuses
  MaxFile,    \* bytes of the largest file
  Outside,    \* an inode that is not in the table
  Room,       \* entries and bytes for which the disk has blocks
  MaxCmds     \* bound: commands in a behaviour

T_REG  == 1

\* In place of the text of a file that is not there.
Absent == <<-1>>

VARIABLES
  tree,    \* the files on the disk: inode, type and bytes, by name
  host,    \* the files of the host
  cmd,     \* the command in progress and its local variables
  last,    \* the command that returned last, and whether it did what it is for
  source,  \* history: what each file is a copy of, and whether it is complete
  scribbled,  \* history: a directory was written to as if it were a file
  ncmds

session  == <<tree, host, cmd, last, source, scribbled, ncmds>>
mkfsVars == <<vars, session>>

NoCmd  == [op |-> "none", name |-> "", host |-> "", off |-> 0, sz |-> 0, pos |-> 0]
NoCopy == [of |-> Absent, done |-> FALSE]

\* The function f with a value at x.
With(f, x, v) == [y \in DOMAIN f \cup {x} |-> IF y = x THEN v ELSE f[y]]

MkfsInit ==
  /\ Init
  /\ tree = IF disk[startlba].su.magic THEN OldTree ELSE <<>>
  /\ host \in HostFiles
  /\ cmd = NoCmd /\ last = NoCmd /\ ncmds = 0 /\ scribbled = FALSE
  /\ source = [n \in DOMAIN tree |-> NoCopy]

-----------------------------------------------------------------------------
(***************************************************************************)
(* The file system.  A byte 0 that was never written is a hole.            *)
(***************************************************************************)
Weight(b) == 1 + Cardinality({k \in DOMAIN b : b[k] # 0})
Total(w)  == MapThenSumSet(LAMBDA n : w[n], DOMAIN w)
Used(t)   == Total([n \in DOMAIN t |-> Weight(t[n].bytes)])

\* The length that no file outgrows: a write ends there, a copied file, or a
\* copied directory.
Longest == Max({Cardinality(Names)} \cup {a.off + BUFSZ : a \in WriteArgs}
                 \cup {Len(h[g]) : h \in HostFiles, g \in Hosts})

ASSUME SessionAssumption ==
  /\ IsFiniteSet(Names) /\ IsFiniteSet(Hosts) /\ IsFiniteSet(HostFiles) /\ IsFiniteSet(WriteArgs)
  /\ BUFSZ \in Nat /\ Room \in Nat /\ MaxFile \in Nat /\ MaxCmds \in Nat /\ Word \in Int
  /\ SZMIN \in Int /\ Outside \notin Table
  /\ \A a \in WriteArgs : a.off \in Nat /\ a.sz \in Int /\ a.sz >= SZMIN
  /\ \A h \in HostFiles : h \in [Hosts -> Seq(Int)]

ASSUME PathAssumption ==
  Root \notin Names /\ "" \notin Names /\ Parent \in [Names -> Names \cup {Root, ""}]

\* A file system that is there at first has the two reserved inodes, and its
\* inodes are those of its files.
ASSUME OldTreeAssumption ==
  /\ DOMAIN OldTree \subseteq Names /\ Used(OldTree) <= Room
  /\ OldTree \in [DOMAIN OldTree -> [inode : Table \ Reserved, type : {T_REG, T_DIR}, bytes : Seq(Int)]]
  /\ \A m, n \in DOMAIN OldTree : m # n => OldTree[m].inode # OldTree[n].inode
  /\ \A n \in DOMAIN OldTree : Len(OldTree[n].bytes) <= Longest
  /\ \A d \in {c \in Contents : c[startlba].su.magic} :
       /\ \A s \in Reserved : d[s[1]].types[s[2]] # 0
       /\ \A n \in DOMAIN OldTree : LET s == OldTree[n].inode IN d[s[1]].types[s[2]] = OldTree[n].type

\* fs_lookup() of a path, and whether it is that of a directory.
Found(n)     == n = Root \/ n \in DOMAIN tree
Directory(n) == n = Root \/ (n \in DOMAIN tree /\ tree[n].type = T_DIR)

Children(d) == {n \in DOMAIN tree : Parent[n] = d}
\* The names below a directory, on any level.
Under(d) == {n \in Names : \A S \in SUBSET Names :
               (\A m \in Names : Parent[m] \in S \cup {d} => m \in S) => n \in S}

\* fs_mknod() of a name that is new: a parent that is there and a directory,
\* an inode, and room for an entry.
Placed(n)    == Directory(Parent[n])
Creatable(n) == Placed(n) /\ FreeInodes # {} /\ Used(tree) < Room

\* Mutant: every inode becomes that of a file.
Typed_reg(type) == T_REG
Typed(type)     == type

Create(n, type) ==
  \E s \in FreeInodes :
    /\ Take(s, Typed(type))
    /\ tree' = With(tree, n, [inode |-> s, type |-> type, bytes |-> <<>>])

\* A file's bytes when the first m bytes of a buffer are written at an offset:
\* a gap is filled with zeros, and the file never shrinks.
Overwritten(b, buf, m, off) ==
  [k \in 1 .. Max({Len(b), off + m}) |->
     IF k > off /\ k <= off + m THEN buf[k - off] ELSE IF k <= Len(b) THEN b[k] ELSE 0]
WithBytes(n, b) == [tree EXCEPT ![n].bytes = b]

\* fs_write() stores as many bytes as there is room for on the disk and in the
\* largest file; past that it stores none, and the size grows all the same.
Fits(n, buf, m, off) ==
  /\ m = 0 \/ off + m <= MaxFile
  /\ Used(WithBytes(n, Overwritten(tree[n].bytes, buf, m, off))) <= Room
\* Mutant: it stores what it was given.
Stored_all(n, buf, off) == Len(buf)
Stored(n, buf, off)     == Max({m \in 0 .. Len(buf) : Fits(n, buf, m, off)})

\* What fs_read() gives of a name, a byte at a time: nothing past the largest
\* file.  An entry of a directory is one cell.
Entry    == 1
Shown(n) == IF Directory(n) THEN Cardinality(Children(n))
            ELSE IF Len(tree[n].bytes) <= MaxFile THEN Len(tree[n].bytes) ELSE MaxFile
Text(n)  == [k \in 1 .. Shown(n) |-> IF Directory(n) THEN Entry ELSE tree[n].bytes[k]]

-----------------------------------------------------------------------------
(***************************************************************************)
(* The commands.                                                           *)
(***************************************************************************)

\* Commands are given on a file system whose formatting was never cut short,
\* and none after a directory was written to.
Running(op) == pc = "mounted" /\ cmd.op = op

\* A line is read and its words are found: a command without its name goes on
\* with what is on the stack.
Ops == {"ls", "migrate", "retrieve", "read", "write", "mkdir", "touch"}

Prompt(op, n, h, off, sz) ==
  /\ Running("none") /\ ~crashed /\ ~scribbled /\ ncmds < MaxCmds
  /\ cmd' = [op |-> op, name |-> n, host |-> h, off |-> off, sz |-> sz, pos |-> 0]
  /\ ncmds' = ncmds + 1 /\ last' = NoCmd /\ formatted' = FALSE
  /\ UNCHANGED <<disk, pc, su, i, first, crashed, tree, host, source, scribbled>>

\* The variables of FsFormat that no command changes, and those of a command
\* that changes no inode.
fixed == <<pc, su, i, first, formatted, crashed, ncmds>>

kept  == <<fixed, scribbled>>

Return(ok) == cmd' = NoCmd /\ last' = [cmd EXCEPT !.op = IF ok THEN @ ELSE "failed"]
Go(op)     == cmd' = [cmd EXCEPT !.op = op] /\ UNCHANGED last

\* A message is printed, or what is in a file or directory.
Tell ==
  /\ \/ Running("ls") \/ Running("read")
     \/ Running("migrate") /\ Found(cmd.name)
     \/ (Running("retrieve") \/ Running("write")) /\ ~Found(cmd.name)
  /\ Return(FALSE)
  /\ UNCHANGED <<kept, disk, tree, host, source>>

\* do_mkdir() and do_touch(), which do not look at what fs_mknod() returns.
Mknod ==
  /\ Running("mkdir") \/ Running("touch")
  /\ \/ /\ ~Found(cmd.name) /\ Creatable(cmd.name)
        /\ Create(cmd.name, IF cmd.op = "mkdir" THEN T_DIR ELSE T_REG)
        /\ source' = With(source, cmd.name, NoCopy)
        /\ Return(TRUE)
     \/ /\ Found(cmd.name) \/ ~Creatable(cmd.name)
        /\ UNCHANGED <<disk, tree, source>>
        /\ Return(FALSE)
  /\ UNCHANGED <<kept, host>>

\* do_migrate(): the file is made, then the file of the host is opened, and
\* its bytes are copied one by one.
MigrateCreate ==
  /\ Running("migrate") /\ ~Found(cmd.name) /\ Creatable(cmd.name)
  /\ Create(cmd.name, T_REG)
  /\ source' = With(source, cmd.name, [of |-> host[cmd.host], done |-> FALSE])
  /\ Go("open")
  /\ UNCHANGED <<kept, host>>

\* Every failure of fs_mknod(), whatever its reason.
MigratePanic ==
  /\ Running("migrate") /\ ~Found(cmd.name) /\ ~Creatable(cmd.name)
  /\ Go("panic")
  /\ UNCHANGED <<kept, disk, tree, host, source>>

MigrateOpen ==
  /\ Running("open")
  /\ IF host[cmd.host] = Absent THEN Return(FALSE) ELSE Go("copy")
  /\ UNCHANGED <<kept, disk, tree, host, source>>

\* Where the byte goes: the offset is raised after the call.
\* Mutant: before it.
Position_raised == cmd.off + 1
Position        == cmd.off

MigrateByte ==
  /\ Running("copy") /\ cmd.off < Len(host[cmd.host])
  /\ LET c == <<host[cmd.host][cmd.off + 1]>>
         m == Stored(cmd.name, c, Position)
     IN  /\ tree' = WithBytes(cmd.name, Overwritten(tree[cmd.name].bytes, c, m, Position))
         /\ cmd' = IF m = 1 THEN [cmd EXCEPT !.off = @ + 1] ELSE [cmd EXCEPT !.op = "panic"]
  /\ UNCHANGED <<kept, disk, host, last, source>>

MigrateEnd ==
  /\ Running("copy") /\ cmd.off >= Len(host[cmd.host])
  /\ source' = [source EXCEPT ![cmd.name].done = TRUE]
  /\ Return(TRUE)
  /\ UNCHANGED <<kept, disk, tree, host>>

\* do_retrieve(): the file of the host is made empty, if it can be opened.
Truncated(h)     == <<>>

RetrieveOpen ==
  /\ Running("retrieve") /\ Found(cmd.name)
  /\ \/ host' = [host EXCEPT ![cmd.host] = Truncated(cmd.host)] /\ Go("fetch")
     \/ UNCHANGED host /\ Return(FALSE)
  /\ UNCHANGED <<kept, disk, tree, source>>

\* No one looks whether the host has taken the byte; if not, the next one
\* takes its place.
RetrieveByte ==
  /\ Running("fetch") /\ cmd.off < Len(Text(cmd.name))
  /\ \/ /\ host' = [host EXCEPT ![cmd.host] =
                      Overwritten(@, <<Text(cmd.name)[cmd.off + 1]>>, 1, cmd.pos)]
        /\ cmd' = [cmd EXCEPT !.off = @ + 1, !.pos = @ + 1]
     \/ UNCHANGED host /\ cmd' = [cmd EXCEPT !.off = @ + 1]
  /\ UNCHANGED <<kept, disk, tree, last, source>>

\* Mutant: a file that has not all been taken is copied again.
RetrieveEnd_again ==
  /\ Running("fetch") /\ cmd.off >= Len(Text(cmd.name))
  /\ IF cmd.pos = cmd.off THEN Return(TRUE)
     ELSE cmd' = [cmd EXCEPT !.off = 0, !.pos = 0] /\ UNCHANGED last
  /\ UNCHANGED <<kept, disk, tree, host, source>>

RetrieveEnd ==
  /\ Running("fetch") /\ cmd.off >= Len(Text(cmd.name))
  /\ Return(cmd.pos = cmd.off)
  /\ UNCHANGED <<kept, disk, tree, host, source>>

\* do_read(s, 1): what is written is the buffer the words were read into.
Cut(sz)     == Min({BUFSZ, sz})

\* Mutant: the size that was asked for is expected.
Expected_all(sz) == sz
Expected(sz)     == Cut(sz)

Buffer == [k \in 1 .. Cut(cmd.sz) |-> Word]

\* A size that inode_rw() refuses; below SZMIN it would take it for a large one.
Refused(sz) == sz \in SZMIN .. -1

WriteFile ==
  /\ Running("write") /\ Found(cmd.name) /\ ~Directory(cmd.name) /\ ~Refused(cmd.sz)
  /\ LET m == Stored(cmd.name, Buffer, cmd.off) IN
     /\ tree' = WithBytes(cmd.name, Overwritten(tree[cmd.name].bytes, Buffer, m, cmd.off))
     /\ IF m = Expected(cmd.sz) THEN Return(TRUE) ELSE Go("panic")
  /\ source' = [source EXCEPT ![cmd.name] = NoCopy]
  /\ UNCHANGED <<kept, disk, host>>

\* fs_write() returns -1, which for a size of -1 is what is expected.
WriteRefused ==
  /\ Running("write") /\ Found(cmd.name) /\ Refused(cmd.sz)
  /\ IF Expected(cmd.sz) = -1 THEN Return(FALSE) ELSE Go("panic")
  /\ UNCHANGED <<kept, disk, tree, host, source>>

\* No one looks at the type: the buffer goes over entries of the directory d.
\* An entry that is hit is gone, with what is below it, or leads to another
\* inode.  What that one holds, and names that may appear, are left out: the
\* model takes no command after this one.
Scribble(d) ==
  /\ \E hit \in SUBSET Children(d) : \E gone \in SUBSET hit :
       \E s \in (Table \ Reserved) \cup {Outside} :
         LET left == DOMAIN tree \ (gone \cup UNION {Under(n) : n \in hit}) IN
         /\ tree' = [n \in left |-> IF n \in hit THEN [tree[n] EXCEPT !.inode = s] ELSE tree[n]]
         /\ source' = [n \in left |-> source[n]]
  /\ scribbled' = TRUE

WriteDirectory ==
  /\ Running("write") /\ Directory(cmd.name) /\ ~Refused(cmd.sz)
  /\ Scribble(cmd.name)
  /\ Return(TRUE) \/ Go("panic")
  /\ UNCHANGED <<fixed, disk, host>>

Write == WriteFile \/ WriteRefused \/ WriteDirectory

Commands == \/ Tell \/ Mknod \/ MigrateCreate \/ MigratePanic \/ MigrateOpen \/ MigrateByte
            \/ MigrateEnd \/ RetrieveOpen \/ RetrieveByte \/ RetrieveEnd \/ Write

-----------------------------------------------------------------------------
(***************************************************************************)
(* mkfs is stopped, between two calls or in one.                           *)
(***************************************************************************)

\* What a call that is cut short may leave: some bytes of a write, entries of
\* a directory that was written to, an inode without a name.
HalfDone ==
  \/ UNCHANGED <<disk, tree, source, scribbled>>
  \/ /\ cmd.op = "write" /\ cmd.name \in DOMAIN tree /\ ~Directory(cmd.name)
     /\ \E P \in SUBSET {k \in DOMAIN tree[cmd.name].bytes :
                         k > cmd.off /\ k <= cmd.off + Cut(cmd.sz) /\ k <= MaxFile} :
          tree' = WithBytes(cmd.name, [k \in DOMAIN tree[cmd.name].bytes |->
                                         IF k \in P THEN Word ELSE tree[cmd.name].bytes[k]])
     /\ Used(tree') <= Room
     /\ source' = [source EXCEPT ![cmd.name] = NoCopy]
     /\ UNCHANGED <<disk, scribbled>>
  \/ /\ cmd.op = "write" /\ Directory(cmd.name) /\ ~Refused(cmd.sz)
     /\ Scribble(cmd.name)
     /\ UNCHANGED disk
  \/ /\ cmd.op \in {"migrate", "mkdir", "touch"} /\ ~Found(cmd.name) /\ Placed(cmd.name)
     /\ \E s \in FreeInodes : Take(s, IF cmd.op = "mkdir" THEN T_DIR ELSE T_REG)
     /\ UNCHANGED <<tree, source, scribbled>>

Kill ==
  /\ pc = "mounted" /\ cmd.op # "none"
  /\ HalfDone
  /\ pc' = "off" /\ su' = Super(0, 0, FALSE) /\ cmd' = NoCmd
  /\ UNCHANGED <<i, first, formatted, crashed, host, last, ncmds>>

\* The steps of FsFormat; the superblock that is written belongs to a new,
\* empty file system.
Mounting ==
  \/ (Start \/ Zero \/ Reserve \/ Mount \/ Crash) /\ UNCHANGED session
  \/ Quit /\ cmd.op = "none" /\ UNCHANGED session
  \/ WriteSuper /\ tree' = <<>> /\ source' = <<>> /\ UNCHANGED <<host, cmd, last, scribbled, ncmds>>

\* Nothing is made with the name of the root.
Prompts ==
  \/ Prompt("ls", "", "", 0, 0) \/ Prompt("read", "", "", 0, 0)
  \/ \E n \in Names, op \in {"mkdir", "touch"} : Prompt(op, n, "", 0, 0)
  \/ \E n \in Names \cup {Root} :
       \/ \E a \in WriteArgs : Prompt("write", n, "", a.off, a.sz)
       \/ \E op \in {"migrate", "retrieve"}, h \in Hosts : Prompt(op, n, h, 0, 0)

MkfsNext == Mounting \/ Prompts \/ Commands \/ Kill

\* The program runs on when it was given a command.
MkfsSpec == MkfsInit /\ [][MkfsNext]_mkfsVars /\ WF_mkfsVars(Commands)

-----------------------------------------------------------------------------
(***************************************************************************)
(* Properties.                                                             *)
(***************************************************************************)

\* No file outgrows what the commands can write, and the room is kept to.
MkfsTypeOK ==
  /\ TypeOK
  /\ DOMAIN tree \subseteq Names /\ DOMAIN source = DOMAIN tree
  /\ \A n \in DOMAIN tree :
       /\ tree[n].inode \in (Table \ Reserved) \cup {Outside} /\ tree[n].type \in {T_REG, T_DIR}
       /\ Len(tree[n].bytes) <= Longest
  /\ Used(tree) <= Room
  /\ cmd.op \in Ops \cup {"none", "open", "copy", "fetch", "panic"}
  /\ cmd.op # "none" => pc = "mounted" /\ cmd.name \in Names \cup {Root, ""}
  /\ ncmds \in 0 .. MaxCmds

\* Every name has an inode of its own in the table, of the type it was made
\* with, however often mkfs was stopped: the inode table and the directories
\* agree, as long as write was given files only.
InodesMatch ==
  ~scribbled =>
    /\ \A n \in DOMAIN tree : LET s == tree[n].inode IN s \in Table /\ disk[s[1]].types[s[2]] = tree[n].type
    /\ \A m, n \in DOMAIN tree : m # n => tree[m].inode # tree[n].inode

\* A file that was migrated is a copy of the file of the host, and the start
\* of a copy if migrate was stopped or has run out of room; so it stays until
\* somebody writes to it.
MigratedIsPrefix ==
  \A n \in DOMAIN tree :
    LET b == tree[n].bytes  c == source[n] IN
    c.of # Absent => /\ Len(b) <= Len(c.of) /\ b = SubSeq(c.of, 1, Len(b))
                     /\ c.done => Len(b) = Len(c.of)

\* A file that was retrieved is the file, as much of it as can be read, also
\* where the host had a longer one, if the host has taken every byte.
RetrievedIsFile == last.op = "fetch" => host[last.host] = Text(last.name)

\* Files are copied right both ways.
CopiesAreRight == MigratedIsPrefix /\ RetrievedIsFile

\* A write is given a directory; what it hits is below that.
Endangered(n) == cmd.op = "write" /\ n \in Under(cmd.name)

\* Neither a command nor another start of mkfs removes a file, changes its
\* inode, or touches the bytes of a file but the one it was given; the only
\* names that come to harm are those below a directory that write was given.
FilesSurvive ==
  [][\A n \in DOMAIN tree : ~Endangered(n) =>
       /\ n \in DOMAIN tree'
       /\ tree'[n].inode = tree[n].inode /\ tree'[n].type = tree[n].type
       /\ tree'[n].bytes # tree[n].bytes => n = cmd.name /\ cmd.op \in {"copy", "write"}]_mkfsVars

\* The reasons for a panic(): the disk is full or has no inode left, the path
\* is none that a file can be made at, the file would outgrow the largest one,
\* the size is negative.  How full the disk is, is not known after a write on
\* a directory.
Full      == FreeInodes = {} \/ Used(tree) = Room
Misplaced == ~Found(cmd.name) /\ ~Placed(cmd.name)
TooLarge  == cmd.off >= MaxFile \/ cmd.off + Cut(cmd.sz) > MaxFile
Reason    == Full \/ Misplaced \/ TooLarge \/ cmd.sz < -1 \/ scribbled

\* A panic() tells the truth: it has one of these reasons, and does not come
\* because a part of what was asked for was written.
PanicsHaveReason == cmd.op = "panic" => Reason

\* How many calls the command in progress makes at most.
CallsLeft ==
  CASE cmd.op = "migrate" -> 3 + Len(host[cmd.host])
    [] cmd.op = "open"    -> 2 + Len(host[cmd.host])
    [] cmd.op = "copy"    -> 1 + Len(host[cmd.host]) - cmd.off
    [] cmd.op = "retrieve" /\ Found(cmd.name) -> 2 + Len(Text(cmd.name))
    [] cmd.op = "fetch"   -> 1 + Len(Text(cmd.name)) - cmd.off
    [] cmd.op \in {"none", "panic"} -> 0
    [] OTHER -> 1

\* Each call brings a command nearer to its end, whatever the files hold and
\* whatever fails: no byte is copied twice.
CommandGetsOn == [][Commands => CallsLeft' \in 0 .. CallsLeft - 1]_mkfsVars

\* Every command comes to an end, or to a panic() that has a reason.
CommandsEnd == cmd.op \in Ops ~> cmd.op = "none" \/ (cmd.op = "panic" /\ Reason)
=============================================================================
