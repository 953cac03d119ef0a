----------------------------- MODULE FsDirProofs -----------------------------
(***************************************************************************)
(* Proofs about FsDir, for every number of inodes, set of names and set of *)
(* paths: whatever write a crash interrupts, the entries of the            *)
(* directories name inodes in use, each once and under a name of its own,  *)
(* and link counts count them; what fs_mknod() makes is what fs_lookup()   *)
(* finds, and FsDir implements NameSpec.                                   *)
(***************************************************************************)
EXTENDS FsDir, FiniteSetTheorems, SequenceTheorems, WellFoundedInduction, TLAPS

-----------------------------------------------------------------------------
(***************************************************************************)
(* Least and greatest elements: dir_lookup() takes the first entry of a    *)
(* name, getname() the last token that is not a slash.                     *)
(***************************************************************************)

\* A non-empty set of consecutive numbers' elements has a least one: of its
\* initial parts, one has no smaller among them.
LEMMA Least ==
  ASSUME NEW a \in Int, NEW b \in Int, NEW S, S \subseteq a .. b, S # {}
  PROVE  \E x \in S : \A y \in S : x <= y
<1> DEFINE Below(x) == {y \in S : y <= x}
           T == {Below(x) : x \in S}
<1>1. IsFiniteSet(S)
  BY FS_Interval, FS_Subset
<1>2. T \subseteq FiniteSubsetsOf(S) /\ T # {}
  <2>1. FiniteSubsetsOf(S) = SUBSET S
    BY <1>1, FS_FiniteSubsetsOfFinite
  <2>2. \A x \in S : Below(x) \in SUBSET S
    OBVIOUS
  <2>3. T \subseteq SUBSET S
    BY <2>2
  <2>4. T # {}
    OBVIOUS
  <2> HIDE DEF T
  <2> QED BY <2>1, <2>3, <2>4
<1>3. PICK X \in T : \A Y \in T : <<Y, X>> \notin StrictSubsetOrdering(S)
  <2> HIDE DEF T
  <2> QED BY <1>2, <1>1, FS_StrictSubsetOrderingWellFounded, WFMin
<1>4. PICK x \in S : X = Below(x)
  OBVIOUS
<1>5. ASSUME NEW y \in S, ~(x <= y) PROVE FALSE
  <2>1. x \in Int /\ y \in Int /\ y < x
    BY <1>5
  <2>2. ASSUME NEW z \in Below(y) PROVE z \in Below(x)
    BY <2>1
  <2>3. x \in Below(x) /\ x \notin Below(y)
    BY <2>1
  <2>4. <<Below(y), Below(x)>> \in StrictSubsetOrdering(S)
    BY <2>2, <2>3 DEF StrictSubsetOrdering
  <2> QED BY <2>4, <1>3, <1>4
<1> QED BY <1>5

\* Counted from the other end, the least element is the greatest.
LEMMA Greatest ==
  ASSUME NEW b \in Nat, NEW S, S \subseteq 1 .. b, S # {}
  PROVE  \E x \in S : \A y \in S : x >= y
<1> DEFINE R == {r \in 0 .. b : b - r \in S}
<1>1. \A x \in S : b - x \in R
  OBVIOUS
<1>2. R \subseteq 0 .. b /\ R # {}
  BY <1>1
<1>3. PICK r \in R : \A s \in R : r <= s
  <2>1. 0 \in Int /\ b \in Int
    OBVIOUS
  <2> HIDE DEF R
  <2> QED BY <1>2, <2>1, Least
<1>4. \A y \in S : b - r >= y
  BY <1>1, <1>3
<1> QED BY <1>3, <1>4

LEMMA MinIn ==
  ASSUME NEW a \in Int, NEW b \in Int, NEW S, S \subseteq a .. b, S # {}
  PROVE  Min(S) \in S
BY Least DEF Min

LEMMA MaxIn ==
  ASSUME NEW b \in Nat, NEW S, S \subseteq 1 .. b, S # {}
  PROVE  Max(S) \in S
BY Greatest DEF Max

-----------------------------------------------------------------------------
(***************************************************************************)
(* The inductive invariant.                                                *)
(***************************************************************************)

Tokens == {Empty} \cup Names

Types ==
  /\ inode \in [Inum -> [type : {Free, T_REG, T_DIR}, linkcnt : 0 .. 1, dirents : Dirents]]
  /\ pc \in {"idle", "link", "count", "undo"}
  /\ call.dir \in Inum /\ call.inum \in Inum /\ call.name \in Tokens
  /\ ret \in Inum /\ crashed \in BOOLEAN

Named(n) == \E e \in Entries : EntryAt(e).inum = n

\* Inodes 0 and 1 are never free, so that nothing is created in their place.
Reserved == inode[NULLINUM].type # Free /\ inode[ROOTINUM].type # Free

\* Inodes in use come before those that are free.
Packed == \A m, n \in Inum : inode[m].type = Free /\ m < n => inode[n].type = Free

\* An entry names an inode in use, younger than its own directory; no two
\* entries name the same inode, and no two of one directory have one name.
EntriesOK ==
  /\ \A e \in Entries : EntryAt(e).inum \in Created /\ e[1] < EntryAt(e).inum
  /\ \A d, e \in Entries : EntryAt(d).inum = EntryAt(e).inum => d = e
  /\ \A d, e \in Entries : d[1] = e[1] /\ EntryAt(d).name = EntryAt(e).name => d = e

\* The new inode of a running call is in use, is not counted, and has no entry
\* until Link has appended it; until then the directory has none of its name,
\* and the inode is the last in use, so that Undo leaves no gap.
CallOK ==
  /\ pc # "idle" => call.inum \in Created /\ inode[call.inum].linkcnt = 0
  /\ pc \in {"link", "undo"} => ~Named(call.inum) /\ inode[call.inum].dirents = <<>>
  /\ pc \in {"link", "undo"} => \A m \in Inum : call.inum < m => inode[m].type = Free
  /\ pc = "link" => /\ call.dir \in Directories /\ call.dir < call.inum
                    /\ \A e \in Entries : e[1] = call.dir => EntryAt(e).name # call.name
  /\ pc = "count" => Named(call.inum)

\* Only what has a name is counted; what has a name is counted but for a call
\* that is running or was stopped; what is in use has a name but for these.
CountsOK ==
  /\ \A n \in Inum : ~Named(n) => inode[n].linkcnt = 0
  /\ ~crashed => \A n \in Inum :
       Named(n) /\ inode[n].linkcnt = 0 => pc = "count" /\ call.inum = n
  /\ ~crashed => \A n \in Created :
       Named(n) \/ (pc \in {"link", "undo"} /\ call.inum = n)

IInv == Types /\ Reserved /\ Packed /\ EntriesOK /\ CallOK /\ CountsOK

-----------------------------------------------------------------------------
(***************************************************************************)
(* Entries.                                                                *)
(***************************************************************************)

LEMMA InUnion ==
  ASSUME NEW D, NEW node
  PROVE  LET all == UNION {{<<d, i>> : i \in DOMAIN node[d].dirents} : d \in D}
         IN  /\ \A e : e \in all <=> \E d \in D : \E i \in DOMAIN node[d].dirents : e = <<d, i>>
             /\ \A d, i : <<d, i>> \in all <=> d \in D /\ i \in DOMAIN node[d].dirents
<1> DEFINE Of(d) == {<<d, i>> : i \in DOMAIN node[d].dirents}
           all   == UNION {Of(d) : d \in D}
<1>1. \A e, d : e \in Of(d) <=> \E i \in DOMAIN node[d].dirents : e = <<d, i>>
  OBVIOUS
<1>2. \A e : e \in all <=> \E d \in D : e \in Of(d)
  <2> HIDE DEF Of
  <2> QED OBVIOUS
<1>3. \A e : e \in all <=> \E d \in D : \E i \in DOMAIN node[d].dirents : e = <<d, i>>
  <2> HIDE DEF all, Of
  <2> QED BY <1>1, <1>2
<1>4. ASSUME NEW d, NEW i
      PROVE  <<d, i>> \in all <=> d \in D /\ i \in DOMAIN node[d].dirents
  <2> HIDE DEF all
  <2>1. <<d, i>> \in all <=> \E c \in D : \E j \in DOMAIN node[c].dirents : <<d, i>> = <<c, j>>
    BY <1>3
  <2> QED BY <2>1
<1> QED BY <1>3, <1>4

LEMMA InEntries ==
  /\ \A e : e \in Entries <=> \E d \in Directories : \E i \in DOMAIN inode[d].dirents : e = <<d, i>>
  /\ \A d, i : <<d, i>> \in Entries <=> d \in Directories /\ i \in DOMAIN inode[d].dirents
BY InUnion DEF Entries

LEMMA InEntriesNext ==
  /\ \A e : e \in Entries' <=> \E d \in Directories' : \E i \in DOMAIN inode'[d].dirents : e = <<d, i>>
  /\ \A d, i : <<d, i>> \in Entries' <=> d \in Directories' /\ i \in DOMAIN inode'[d].dirents
BY InUnion DEF Entries

\* What dir_lookup() does not find is not there.
LEMMA LookupFinds ==
  ASSUME IInv, NEW n \in Directories, NEW name, dir_lookup(n, name) = NULLINUM,
         NEW e \in Entries, e[1] = n
  PROVE  EntryAt(e).name # name
<1> SUFFICES ASSUME EntryAt(e).name = name PROVE FALSE
  OBVIOUS
<1> DEFINE des == inode[n].dirents
           at  == {i \in Searched(des) : des[i].name = name}
<1>1. PICK i \in DOMAIN des : e = <<n, i>>
  BY InEntries
<1>2. des \in Seq([name : Tokens, inum : Inum]) /\ n \in Inum /\ inode[n].type = T_DIR
  BY DEF IInv, Types, Directories, Dirents, Tokens
<1>3. at \subseteq 1 .. Len(des) /\ at # {}
  BY <1>1, <1>2 DEF Searched, EntryAt
<1>4. Min(at) \in at
  <2>1. 1 \in Int /\ Len(des) \in Int
    BY <1>2
  <2> HIDE DEF at
  <2> QED BY <1>3, <2>1, MinIn
<1>5. dir_lookup(n, name) = des[Min(at)].inum
  BY <1>2, <1>3 DEF dir_lookup
<1>6. <<n, Min(at)>> \in Entries /\ EntryAt(<<n, Min(at)>>) = des[Min(at)]
  <2>1. Min(at) \in DOMAIN des
    BY <1>4 DEF Searched
  <2> HIDE DEF at, des
  <2> QED BY <2>1, InEntries DEF EntryAt, des
<1>7. des[Min(at)].inum \in Created
  BY <1>6 DEF IInv, EntriesOK
<1> QED BY <1>5, <1>7 DEF Created

\* The name that getname() takes from a path it accepts.
LEMMA NameType ==
  ASSUME NEW path \in Paths, HasName(path)
  PROVE  NameOf(path) \in Tokens
<1> USE NamesAssumption
<1> DEFINE last == {i \in DOMAIN path : path[i] # Slash}
<1>1. path \in Seq({Slash} \cup Names \cup LongNames) /\ path # <<>>
  BY DEF HasName
<1>2. Len(path) \in Nat /\ DOMAIN path = 1 .. Len(path) /\ 1 \in DOMAIN path
  BY <1>1
<1>3. NameAt(path) \in DOMAIN path
  <2>1. {1} \cup last \subseteq 1 .. Len(path)
    BY <1>2
  <2>2. Max({1} \cup last) \in {1} \cup last
    <3> HIDE DEF last
    <3> QED BY <1>2, <2>1, MaxIn
  <2> QED BY <2>1, <2>2, <1>2 DEF NameAt
<1>4. path[NameAt(path)] \in {Slash} \cup Names \cup LongNames
  BY <1>1, <1>3
<1>5. path = <<Slash>> => path[NameAt(path)] = Slash
  BY <1>3
<1> QED BY <1>4, <1>5 DEF HasName, NameOf, Tokens

\* A step that leaves the entries alone keeps them sound, if what they name
\* stays in use.
LEMMA SameEntries ==
  ASSUME EntriesOK, Entries' = Entries, \A e \in Entries : EntryAt(e)' = EntryAt(e),
         \A n \in Created : Named(n) => n \in Created'
  PROVE  EntriesOK' /\ \A n : Named(n)' <=> Named(n)
<1>1. \A n : Named(n)' <=> Named(n)
  BY DEF Named
<1>2. ASSUME NEW e \in Entries
      PROVE  EntryAt(e).inum \in Created'
  BY DEF EntriesOK, Named
<1> QED BY <1>1, <1>2 DEF EntriesOK

-----------------------------------------------------------------------------
(***************************************************************************)
(* Every step keeps the invariant.                                         *)
(***************************************************************************)

\* A step that changes no type and no entry, but types of inodes without any.
LEMMA KeepsEntries ==
  ASSUME Types, NEW n \in Inum, NEW node,
         inode[n].dirents = <<>> \/ n \notin Directories,
         node.dirents = <<>>,
         inode' = [inode EXCEPT ![n] = node]
  PROVE  Entries' = Entries /\ \A e \in Entries : EntryAt(e)' = EntryAt(e)
<1>1. \A m \in Inum : m # n => inode'[m] = inode[m]
  BY DEF Types
<1>2. inode'[n].dirents = <<>>
  BY DEF Types
<1>3. \A d, i : d \in Directories /\ i \in DOMAIN inode[d].dirents
                  <=> d \in Directories' /\ i \in DOMAIN inode'[d].dirents
  BY <1>1, <1>2 DEF Directories
<1>4. \A e : e \in Entries' <=> e \in Entries
  BY <1>3, InEntries, InEntriesNext
<1>5. Entries' = Entries
  BY <1>4
<1>6. ASSUME NEW e \in Entries PROVE EntryAt(e)' = EntryAt(e)
  <2>1. PICK d \in Directories : \E i \in DOMAIN inode[d].dirents : e = <<d, i>>
    BY InEntries
  <2>2. d # n /\ d \in Inum
    BY <2>1 DEF Directories
  <2> QED BY <2>1, <2>2, <1>1 DEF EntryAt
<1> QED BY <1>5, <1>6

LEMMA InitHolds == Init => IInv
<1> SUFFICES ASSUME Init PROVE IInv
  OBVIOUS
<1> USE NamesAssumption DEF Init, NULLINUM, ROOTINUM
<1>1. Types
  <2>1. <<>> \in Dirents
    BY DEF Dirents
  <2>2. \A n \in Inum : inode[n] \in [type : {Free, T_REG, T_DIR}, linkcnt : 0 .. 1, dirents : Dirents]
    BY <2>1
  <2>3. inode \in [Inum -> [type : {Free, T_REG, T_DIR}, linkcnt : 0 .. 1, dirents : Dirents]]
    BY <2>2
  <2>4. call.dir \in Inum /\ call.inum \in Inum /\ call.name \in Tokens /\ ret \in Inum
    BY DEF NoCall, Inum, Tokens
  <2> QED BY <2>3, <2>4 DEF Types
<1>2. Entries = {}
  <2>1. \A d \in Directories : inode[d].dirents = <<>>
    BY DEF Directories
  <2>2. \A e : e \notin Entries
    BY <2>1, InEntries
  <2> QED BY <2>2
<1>3. Created = {}
  BY DEF Created, Inum, Free, T_DIR
<1>4. \A n : ~Named(n)
  BY <1>2 DEF Named
<1>5. Reserved
  BY DEF Reserved, Inum, Free, T_DIR
<1>6. Packed
  BY DEF Packed, Inum, Free, T_DIR
<1> QED BY <1>1, <1>2, <1>3, <1>4, <1>5, <1>6 DEF IInv, EntriesOK, CallOK, CountsOK, Inum

\* Begin: the inode was free, and no entry names a free inode.
LEMMA BeginStep ==
  ASSUME IInv, NEW path \in Paths, NEW type \in {T_REG, T_DIR}, Begin(path, type)
  PROVE  IInv'
<1>1. PICK n \in Inum :
        /\ inode[n].type = Free /\ \A m \in Inum : inode[m].type = Free => n <= m
        /\ inode' = [inode EXCEPT ![n] = [type |-> type, linkcnt |-> 0, dirents |-> <<>>]]
        /\ call' = [path |-> path, type |-> type, dir |-> fs_lookup(ParentOf(path)),
                    name |-> NameOf(path), inum |-> n]
        /\ pc' = "link" /\ UNCHANGED <<ret, crashed>>
  BY DEF Begin, alloc_inode, Unused
<1> DEFINE new == [type |-> type, linkcnt |-> 0, dirents |-> <<>>]
<1>2. /\ HasName(path) /\ call'.dir \in Directories
      /\ dir_lookup(call'.dir, NameOf(path)) = NULLINUM
  BY <1>1 DEF Begin, Acceptable, Duplicate
<1>3. call'.name \in Tokens /\ call'.dir \in Inum
  BY <1>1, <1>2, NameType DEF Directories
<1>4. Types
  BY DEF IInv
<1>5. n \notin Directories /\ n \notin Created /\ n \notin {NULLINUM, ROOTINUM}
  BY <1>1 DEF Directories, Created, Free, T_DIR, IInv, Reserved
<1>6. Entries' = Entries /\ \A e \in Entries : EntryAt(e)' = EntryAt(e)
  <2>1. new.dirents = <<>> /\ inode' = [inode EXCEPT ![n] = new]
    BY <1>1
  <2> HIDE DEF new
  <2> QED BY <2>1, <1>4, <1>5, KeepsEntries
<1>7. \A m \in Inum : inode'[m] = IF m = n THEN new ELSE inode[m]
  BY <1>1, <1>4 DEF Types
<1>8. Created' = Created \cup {n}
  BY <1>1, <1>5, <1>7 DEF Created, Free, T_REG, T_DIR
<1>9. EntriesOK' /\ \A m : Named(m)' <=> Named(m)
  BY <1>6, <1>8, SameEntries DEF IInv
<1>10. ~Named(n)
  BY <1>5 DEF IInv, EntriesOK, Named
<1>11. Types'
  <2>1. <<>> \in Dirents
    BY DEF Dirents
  <2> QED BY <1>1, <1>3, <1>4, <2>1 DEF Types
<1>12. Reserved'
  BY <1>7, <1>5, NamesAssumption DEF IInv, Reserved, Inum, NULLINUM, ROOTINUM
<1>13. /\ \A m \in Inum : n < m => inode[m].type = Free
       /\ \A m \in Inum : inode[m].type # Free => m < n
  BY <1>1, NamesAssumption DEF IInv, Packed, Inum
<1>14. Packed'
  BY <1>1, <1>4, <1>7, <1>13, NamesAssumption DEF Packed, Inum, Free, T_REG, T_DIR
<1>15. CallOK'
  <2>1. call'.dir < n
    BY <1>2, <1>13 DEF Directories, Free, T_DIR
  <2>2. \A m \in Inum : n < m => inode'[m].type = Free
    BY <1>7, <1>13, NamesAssumption DEF Inum
  <2>3. call'.dir # n /\ call'.dir \in Directories'
    BY <1>2, <1>5, <1>7 DEF Directories
  <2>4. \A e \in Entries : e[1] = call'.dir => EntryAt(e).name # call'.name
    BY <1>1, <1>2, LookupFinds
  <2>5. inode'[n] = new
    BY <1>1, <1>7
  <2> QED BY <1>1, <1>6, <1>8, <1>9, <1>10, <2>3, <2>4, <2>5, <2>1, <2>2 DEF CallOK
<1>16. CountsOK'
  <2>1. pc = "idle"
    BY DEF Begin
  <2> QED BY <1>1, <1>7, <1>8, <1>9, <1>10, <2>1 DEF IInv, CountsOK
<1> QED BY <1>9, <1>11, <1>12, <1>15, <1>16, <1>14 DEF IInv

\* What Append does to the places of a sequence.
LEMMA Appended ==
  ASSUME NEW S, NEW s \in Seq(S), NEW x \in S
  PROVE  /\ Append(s, x) \in Seq(S)
         /\ DOMAIN Append(s, x) = DOMAIN s \cup {Len(s) + 1}
         /\ \A i \in DOMAIN s : Append(s, x)[i] = s[i]
         /\ Append(s, x)[Len(s) + 1] = x
         /\ Len(s) + 1 \notin DOMAIN s
<1>1. Append(s, x) \in Seq(S) /\ Len(Append(s, x)) = Len(s) + 1
  BY AppendProperties
<1>2. Len(s) \in Nat /\ DOMAIN s = 1 .. Len(s) /\ DOMAIN Append(s, x) = 1 .. Len(Append(s, x))
  BY <1>1
<1>3. (\A i \in 1 .. Len(s) : Append(s, x)[i] = s[i]) /\ Append(s, x)[Len(s) + 1] = x
  BY AppendProperties
<1> QED BY <1>1, <1>2, <1>3

\* Link: the one new entry names the new inode, under a new name.
LEMMA LinkStep == IInv /\ Link => IInv'
<1> SUFFICES ASSUME IInv, Link PROVE IInv'
  OBVIOUS
<1> DEFINE d   == call.dir
           des == inode[d].dirents
           new == [name |-> call.name, inum |-> call.inum]
<1>1. /\ pc = "link" /\ pc' = "count" /\ UNCHANGED <<call, ret, crashed>>
      /\ inode' = [inode EXCEPT ![d].dirents = Append(des, new)]
  BY DEF Link
<1>2. Types /\ EntriesOK /\ CallOK /\ CountsOK /\ Reserved
  BY DEF IInv
<1>3. /\ d \in Directories /\ d \in Inum /\ d < call.inum
      /\ call.inum \in Created /\ call.inum \in Inum /\ ~Named(call.inum)
      /\ inode[call.inum].linkcnt = 0
      /\ \A e \in Entries : e[1] = d => EntryAt(e).name # call.name
  BY <1>1, <1>2 DEF CallOK, Directories, Created
<1>4. des \in Seq([name : Tokens, inum : Inum]) /\ new \in [name : Tokens, inum : Inum]
  BY <1>2, <1>3 DEF Types, Dirents, Tokens
<1>5. /\ Append(des, new) \in Seq([name : Tokens, inum : Inum])
      /\ DOMAIN Append(des, new) = DOMAIN des \cup {Len(des) + 1}
      /\ \A i \in DOMAIN des : Append(des, new)[i] = des[i]
      /\ Append(des, new)[Len(des) + 1] = new
      /\ Len(des) + 1 \notin DOMAIN des
  <2> HIDE DEF des, new
  <2> QED BY <1>4, Appended
<1>6. \A m \in Inum : inode'[m] = IF m = d THEN [inode[d] EXCEPT !.dirents = Append(des, new)]
                                  ELSE inode[m]
  BY <1>1, <1>2 DEF Types
<1>7. Types'
  <2>1. Append(des, new) \in Dirents
    BY <1>5 DEF Dirents, Tokens
  <2>2. inode[d] \in [type : {Free, T_REG, T_DIR}, linkcnt : 0 .. 1, dirents : Dirents]
    BY <1>2, <1>3 DEF Types
  <2>3. [inode[d] EXCEPT !.dirents = Append(des, new)]
          \in [type : {Free, T_REG, T_DIR}, linkcnt : 0 .. 1, dirents : Dirents]
    BY <2>1, <2>2
  <2> HIDE DEF new, des
  <2> QED BY <1>1, <1>2, <1>3, <2>3 DEF Types
<1>8. \A m \in Inum : inode'[m].type = inode[m].type /\ inode'[m].linkcnt = inode[m].linkcnt
  BY <1>2, <1>6 DEF Types
<1>9. Created' = Created /\ Directories' = Directories
  BY <1>8 DEF Created, Directories
<1>10. inode'[d].dirents = Append(des, new)
  BY <1>2, <1>3, <1>6 DEF Types
<1>11. PICK k : k = <<d, Len(des) + 1>>
  OBVIOUS
<1>12. Entries' = Entries \cup {k} /\ k \notin Entries
  <2>2. \A c \in Directories : c # d => inode'[c].dirents = inode[c].dirents
    BY <1>6 DEF Directories
  <2> HIDE DEF new, des
  <2>3. \A c \in Directories : \A i : i \in DOMAIN inode'[c].dirents
          <=> i \in DOMAIN inode[c].dirents \/ (c = d /\ i = Len(des) + 1)
    BY <2>2, <1>5, <1>10 DEF des
  <2>4. \A e : e \in Entries' <=> e \in Entries \/ e = k
    BY <2>3, <1>3, <1>9, <1>11, InEntries, InEntriesNext
  <2>5. k \notin Entries
    BY <1>5, <1>11, InEntries DEF des
  <2> QED BY <2>4, <2>5
<1>13. EntryAt(k)'.inum = call.inum /\ EntryAt(k)'.name = call.name /\ k[1] = d
  <2>1. EntryAt(k)' = inode'[d].dirents[Len(des) + 1]
    BY <1>11 DEF EntryAt
  <2> QED BY <2>1, <1>5, <1>10, <1>11, SMTT(60)
<1>14. \A e \in Entries : EntryAt(e)' = EntryAt(e)
  <2> SUFFICES ASSUME NEW c \in Directories, NEW i \in DOMAIN inode[c].dirents
               PROVE  EntryAt(<<c, i>>)' = EntryAt(<<c, i>>)
    BY InEntries
  <2>1. inode'[c].dirents[i] = inode[c].dirents[i]
    <3>1. c \in Inum
      BY DEF Directories
    <3> HIDE DEF new
    <3> QED BY <3>1, <1>5, <1>6, <1>10
  <2> QED BY <2>1 DEF EntryAt
<1> HIDE DEF new, des, d
<1>15. \A m : Named(m)' <=> Named(m) \/ m = call.inum
  BY <1>12, <1>13, <1>14 DEF Named
<1>16. EntriesOK'
  <2>2. \A e \in Entries' : EntryAt(e)'.inum \in Created' /\ e[1] < EntryAt(e)'.inum
    BY <1>2, <1>3, <1>9, <1>12, <1>13, <1>14 DEF EntriesOK
  <2>3. \A c, e \in Entries' : EntryAt(c)'.inum = EntryAt(e)'.inum => c = e
    BY <1>2, <1>3, <1>12, <1>13, <1>14 DEF EntriesOK, Named
  <2>4. \A c, e \in Entries' : c[1] = e[1] /\ EntryAt(c)'.name = EntryAt(e)'.name => c = e
    BY <1>2, <1>3, <1>12, <1>13, <1>14 DEF EntriesOK
  <2> QED BY <2>2, <2>3, <2>4 DEF EntriesOK
<1>17. CallOK'
  BY <1>1, <1>3, <1>8, <1>9, <1>15 DEF CallOK
<1>18. CountsOK'
  BY <1>1, <1>2, <1>3, <1>8, <1>9, <1>15 DEF CountsOK
<1>19. Reserved'
  BY <1>2, <1>8, NamesAssumption DEF Reserved, Inum, NULLINUM, ROOTINUM
<1>20. Packed'
  BY <1>8 DEF IInv, Packed
<1> QED BY <1>7, <1>17, <1>18, <1>16, <1>19, <1>20 DEF IInv

\* Steps that write nothing: a refusal, a directory that can not grow, a crash.
LEMMA QuietStep ==
  ASSUME IInv,
         (\E path \in Paths : Refuse(path)) \/ LinkFails \/ Crash \/ UNCHANGED vars
  PROVE  IInv'
<1>1. UNCHANGED inode /\ Types
  BY DEF Refuse, LinkFails, Crash, vars, IInv
<1>2. /\ Entries' = Entries /\ Created' = Created /\ Directories' = Directories
      /\ \A e : EntryAt(e)' = EntryAt(e)
      /\ \A n : Named(n)' <=> Named(n)
  BY <1>1 DEF Entries, Created, Directories, EntryAt, Named
<1>3. Reserved' /\ Packed' /\ EntriesOK'
  BY <1>1, <1>2 DEF IInv, Reserved, Packed, EntriesOK
<1>4. CASE \E path \in Paths : Refuse(path)
  <2>1. pc = "idle" /\ UNCHANGED <<pc, call, crashed>> /\ ret' = NULLINUM
    BY <1>4 DEF Refuse
  <2>2. Types'
    BY <1>1, <2>1, NamesAssumption DEF Types, NULLINUM, Inum
  <2> QED BY <1>1, <1>2, <1>3, <2>1, <2>2 DEF IInv, CallOK, CountsOK
<1>5. CASE LinkFails
  <2>1. pc = "link" /\ pc' = "undo" /\ UNCHANGED <<call, ret, crashed>>
    BY <1>5 DEF LinkFails
  <2>2. Types'
    BY <1>1, <2>1 DEF Types
  <2> QED BY <1>1, <1>2, <1>3, <2>1, <2>2 DEF IInv, CallOK, CountsOK
<1>6. CASE Crash
  <2>1. pc' = "idle" /\ call' = NoCall /\ ret' = NULLINUM /\ crashed' = TRUE
    BY <1>6 DEF Crash
  <2>2. Types'
    BY <1>1, <2>1, NamesAssumption DEF Types, NULLINUM, Inum, NoCall, Tokens
  <2> QED BY <1>1, <1>2, <1>3, <2>1, <2>2 DEF IInv, CallOK, CountsOK
<1>7. CASE UNCHANGED vars
  BY <1>1, <1>2, <1>3, <1>7 DEF vars, IInv, Types, CallOK, CountsOK
<1> QED BY <1>4, <1>5, <1>6, <1>7

\* Undo: the new inode has no entry and no entries, and becomes free.
LEMMA UndoStep == IInv /\ Undo => IInv'
<1> SUFFICES ASSUME IInv, Undo PROVE IInv'
  OBVIOUS
<1> DEFINE n   == call.inum
           new == [inode[n] EXCEPT !.type = Free]
<1>1. /\ pc = "undo" /\ pc' = "idle" /\ ret' = NULLINUM /\ call' = NoCall
      /\ UNCHANGED crashed /\ inode' = [inode EXCEPT ![n] = new]
  BY DEF Undo, Freed, TypeAfterUndo
<1>2. Types /\ EntriesOK /\ CallOK /\ CountsOK /\ Reserved
  BY DEF IInv
<1>3. /\ n \in Created /\ n \in Inum /\ ~Named(n) /\ inode[n].dirents = <<>>
      /\ n \notin {NULLINUM, ROOTINUM}
  BY <1>1, <1>2 DEF CallOK, Created
<1>4. new \in [type : {Free, T_REG, T_DIR}, linkcnt : 0 .. 1, dirents : Dirents]
  BY <1>2, <1>3 DEF Types
<1>5. new.dirents = <<>> /\ new.type = Free /\ new.linkcnt = inode[n].linkcnt
  BY <1>2, <1>3 DEF Types
<1>6. \A m \in Inum : inode'[m] = IF m = n THEN new ELSE inode[m]
  BY <1>1, <1>2 DEF Types
<1> HIDE DEF new
<1>7. Entries' = Entries /\ \A e \in Entries : EntryAt(e)' = EntryAt(e)
  BY <1>1, <1>2, <1>3, <1>5, KeepsEntries
<1>8. Created' = Created \ {n}
  BY <1>5, <1>6 DEF Created
<1>9. EntriesOK' /\ \A m : Named(m)' <=> Named(m)
  BY <1>2, <1>3, <1>7, <1>8, SameEntries
<1>10. Types'
  BY <1>1, <1>2, <1>4, NamesAssumption DEF Types, NULLINUM, Inum, NoCall, Tokens
<1>11. Reserved'
  BY <1>2, <1>3, <1>6, NamesAssumption DEF Reserved, Inum, NULLINUM, ROOTINUM
<1>12. Packed'
  <2>1. \A m \in Inum : n < m => inode[m].type = Free
    BY <1>1, <1>2 DEF CallOK
  <2> QED BY <2>1, <1>3, <1>5, <1>6, NamesAssumption DEF IInv, Packed, Inum
<1>13. CallOK'
  BY <1>1 DEF CallOK
<1>14. CountsOK'
  BY <1>1, <1>2, <1>3, <1>5, <1>6, <1>8, <1>9 DEF CountsOK
<1> QED BY <1>9, <1>10, <1>11, <1>13, <1>14, <1>12 DEF IInv

\* Count: the new inode has its one entry, and is counted.
LEMMA CountStep == IInv /\ Count => IInv'
<1> SUFFICES ASSUME IInv, Count PROVE IInv'
  OBVIOUS
<1> DEFINE n   == call.inum
           new == [inode[n] EXCEPT !.linkcnt = @ + 1]
<1>1. /\ pc = "count" /\ pc' = "idle" /\ ret' = n /\ call' = NoCall
      /\ UNCHANGED crashed /\ inode' = [inode EXCEPT ![n] = new]
  BY DEF Count, Counted
<1>2. Types /\ EntriesOK /\ CallOK /\ CountsOK /\ Reserved
  BY DEF IInv
<1>3. n \in Created /\ n \in Inum /\ Named(n) /\ inode[n].linkcnt = 0
  BY <1>1, <1>2 DEF CallOK, Created
<1>4. new \in [type : {Free, T_REG, T_DIR}, linkcnt : 0 .. 1, dirents : Dirents]
  BY <1>2, <1>3 DEF Types
<1>5. new.dirents = inode[n].dirents /\ new.type = inode[n].type /\ new.linkcnt = 1
  BY <1>2, <1>3 DEF Types
<1>6. \A m \in Inum : inode'[m] = IF m = n THEN new ELSE inode[m]
  BY <1>1, <1>2 DEF Types
<1> HIDE DEF new
<1>7. \A m \in Inum : inode'[m].type = inode[m].type /\ inode'[m].dirents = inode[m].dirents
  BY <1>5, <1>6
<1>8. Created' = Created /\ Directories' = Directories
  BY <1>7 DEF Created, Directories
<1>9. Entries' = Entries
  <2>1. \A d \in Directories : inode'[d].dirents = inode[d].dirents
    BY <1>7 DEF Directories
  <2>2. \A e : e \in Entries' <=> e \in Entries
    BY <1>8, <2>1, InEntries, InEntriesNext
  <2> QED BY <2>2
<1>10. \A e \in Entries : EntryAt(e)' = EntryAt(e)
  <2> SUFFICES ASSUME NEW c \in Directories, NEW i \in DOMAIN inode[c].dirents
               PROVE  EntryAt(<<c, i>>)' = EntryAt(<<c, i>>)
    BY InEntries
  <2>1. inode'[c].dirents[i] = inode[c].dirents[i]
    BY <1>7 DEF Directories
  <2> QED BY <2>1 DEF EntryAt
<1>11. EntriesOK' /\ \A m : Named(m)' <=> Named(m)
  BY <1>2, <1>8, <1>9, <1>10, SameEntries
<1>12. Types'
  BY <1>1, <1>2, <1>3, <1>4, NamesAssumption DEF Types, NULLINUM, Inum, NoCall, Tokens
<1>13. Reserved'
  BY <1>2, <1>7, NamesAssumption DEF Reserved, Inum, NULLINUM, ROOTINUM
<1>14. CallOK'
  BY <1>1 DEF CallOK
<1>15. CountsOK'
  BY <1>1, <1>2, <1>3, <1>5, <1>6, <1>8, <1>11 DEF CountsOK
<1>16. Packed'
  BY <1>7 DEF IInv, Packed
<1> QED BY <1>11, <1>12, <1>13, <1>14, <1>15, <1>16 DEF IInv

LEMMA Inductive == IInv /\ [Next]_vars => IInv'
<1> SUFFICES ASSUME IInv, [Next]_vars PROVE IInv'
  OBVIOUS
<1>1. CASE \E path \in Paths : Refuse(path)
  BY <1>1, QuietStep
<1>2. CASE \E path \in Paths, type \in {T_REG, T_DIR} : Begin(path, type)
  BY <1>2, BeginStep
<1>3. CASE Link
  BY <1>3, LinkStep
<1>4. CASE LinkFails
  BY <1>4, QuietStep
<1>5. CASE Undo
  BY <1>5, UndoStep
<1>6. CASE Count
  BY <1>6, CountStep
<1>7. CASE Crash
  BY <1>7, QuietStep
<1>8. CASE UNCHANGED vars
  BY <1>8, QuietStep
<1> QED BY <1>1, <1>2, <1>3, <1>4, <1>5, <1>6, <1>7, <1>8 DEF Next, fs_mknod

LEMMA Invariance == Spec => []IInv
BY InitHolds, Inductive, PTL DEF Spec

-----------------------------------------------------------------------------
(***************************************************************************)
(* What follows from the invariant.                                        *)
(***************************************************************************)

\* The inode table, the running call and the names of entries keep their
\* types, whatever paths fs_mknod() is given.
THEOREM TypeCorrect == Spec => []TypeOK
<1>1. IInv => TypeOK
  BY DEF IInv, Types, TypeOK, Tokens
<1> QED BY <1>1, Invariance, PTL

\* Whatever write a crash interrupts, an entry names an inode in use, which no
\* other entry names and which was taken after the entry's own directory.
THEOREM TreeOfNames == Spec => []NoDanglingEntry
<1>1. ASSUME IInv, NEW e \in Entries
      PROVE  /\ EntryAt(e).inum \in Created
             /\ EntriesOf(EntryAt(e).inum) = {e}
             /\ e[1] \in Directories /\ e[1] < EntryAt(e).inum
  <2>1. EntriesOf(EntryAt(e).inum) = {e}
    BY <1>1 DEF IInv, EntriesOK, EntriesOf
  <2>2. e[1] \in Directories
    BY InEntries
  <2> QED BY <1>1, <2>1, <2>2 DEF IInv, EntriesOK
<1>2. IInv => NoDanglingEntry
  BY <1>1 DEF NoDanglingEntry
<1> QED BY <1>2, Invariance, PTL

\* No directory ever holds two entries of one name.
THEOREM NamesDiffer == Spec => []NoDuplicateName
<1>1. IInv => NoDuplicateName
  BY DEF IInv, EntriesOK, NoDuplicateName
<1> QED BY <1>1, Invariance, PTL

\* A link count is the number of entries, or one less while or because the call
\* has not counted yet; and a failed fs_mknod() gives its inode back.
THEOREM CountsAreRight == Spec => []LinksCounted
<1>1. ASSUME IInv, NEW n \in Inum
      PROVE  LET lag == Cardinality(EntriesOf(n)) - inode[n].linkcnt
             IN  /\ lag \in {0, 1}
                 /\ lag = 1 => crashed \/ (pc = "count" /\ call.inum = n)
  <2>1. inode[n].linkcnt \in 0 .. 1
    BY <1>1 DEF IInv, Types
  <2>2. CASE Named(n)
    <3>1. PICK e \in Entries : EntriesOf(n) = {e}
      BY <1>1, <2>2 DEF IInv, EntriesOK, EntriesOf, Named
    <3>2. Cardinality(EntriesOf(n)) = 1
      BY <3>1, FS_Singleton
    <3>3. inode[n].linkcnt = 0 => crashed \/ (pc = "count" /\ call.inum = n)
      BY <1>1, <2>2 DEF IInv, CountsOK
    <3> QED BY <2>1, <3>2, <3>3
  <2>3. CASE ~Named(n)
    <3>1. EntriesOf(n) = {}
      BY <2>3 DEF EntriesOf, Named
    <3>2. Cardinality(EntriesOf(n)) = 0
      BY <3>1, FS_EmptySet
    <3>3. inode[n].linkcnt = 0
      BY <1>1, <2>3 DEF IInv, CountsOK
    <3> QED BY <3>2, <3>3
  <2> QED BY <2>2, <2>3
<1>2. ASSUME IInv, pc = "idle", ~crashed, NEW n \in Created
      PROVE  EntriesOf(n) # {}
  BY <1>2 DEF IInv, CountsOK, EntriesOf, Named
<1>3. IInv => LinksCounted
  BY <1>1, <1>2 DEF LinksCounted
<1> QED BY <1>3, Invariance, PTL

-----------------------------------------------------------------------------
(***************************************************************************)
(* Induction, of numbers and of sequences, in the form of sets.            *)
(***************************************************************************)

LEMMA NatSetInduction ==
  ASSUME NEW S, 0 \in S, \A n \in Nat : n \in S => n + 1 \in S
  PROVE  Nat \subseteq S
<1> DEFINE T == Nat \ S
           R == OpToRel(<, Nat)
<1>1. SUFFICES ASSUME T # {}
               PROVE  FALSE
  OBVIOUS
<1>2. IsWellFoundedOn(R, Nat)
  BY NatLessThanWellFounded
<1>3. T \subseteq Nat
  OBVIOUS
<1> HIDE DEF T, R
<1>4. PICK x \in T : \A y \in T : ~(<<y, x>> \in R)
  BY <1>1, <1>2, <1>3, WFMin
<1> USE DEF T
<1>5. x # 0 /\ x \in Nat /\ x - 1 \in Nat
  OBVIOUS
<1>6. <<x - 1, x>> \in R
  BY <1>5 DEF R, OpToRel
<1> QED
  BY <1>4, <1>5, <1>6

\* What holds of the empty sequence and of every sequence made longer by one
\* element holds of every sequence.
LEMMA SeqSetInduction ==
  ASSUME NEW X, NEW S, <<>> \in S,
         \A s \in Seq(X) : \A x \in X : s \in S => Append(s, x) \in S
  PROVE  Seq(X) \subseteq S
<1> DEFINE T == {n \in Nat : \A s \in Seq(X) : Len(s) = n => s \in S}
<1>1. 0 \in T
  BY EmptySeq
<1>2. ASSUME NEW n \in Nat, n \in T PROVE n + 1 \in T
  <2>1. SUFFICES ASSUME NEW s \in Seq(X), Len(s) = n + 1 PROVE s \in S
    OBVIOUS
  <2>2. s # <<>>
    BY <2>1
  <2>3. PICK u \in Seq(X), x \in X : s = Append(u, x)
    BY <2>2, SequenceEmptyOrAppend
  <2>4. Len(s) = Len(u) + 1 /\ Len(u) \in Nat
    BY <2>3, AppendProperties
  <2>5. Len(u) = n
    BY <2>1, <2>4
  <2>6. u \in S
    BY <1>2, <2>5
  <2> QED BY <2>3, <2>6
<1> HIDE DEF T
<1>3. Nat \subseteq T
  BY <1>1, <1>2, NatSetInduction
<1> QED BY <1>3 DEF T

-----------------------------------------------------------------------------
(***************************************************************************)
(* Lookup in a table of inodes: fs_lookup() goes on by one name at a time. *)
(***************************************************************************)

LookIn(tab, n, name) ==
  LET des == tab[n].dirents
      at  == {i \in DOMAIN des : des[i].name = name}
  IN  IF tab[n].type = T_DIR /\ at # {} THEN des[Min(at)].inum ELSE NULLINUM

GoOn(tab, n, name) == IF n = NULLINUM THEN NULLINUM ELSE LookIn(tab, n, name)

WalkStep(tab, at, s) ==
  [k \in 0 .. Len(s) |-> IF k = 0 THEN ROOTINUM ELSE GoOn(tab, at[k - 1], s[k])]

WalkIn(tab, s) == LET at == CHOOSE f : f = WalkStep(tab, f, s) IN at[Len(s)]

LEMMA WalkOf ==
  /\ \A s : Resolve(s) = WalkIn(inode, s)
  /\ \A s : Resolve(s)' = WalkIn(inode', s)
BY DEF Resolve, WalkIn, WalkStep, GoOn, LookIn, dir_lookup, Searched

LEMMA WalkRun ==
  ASSUME NEW tab, NEW s, Len(s) \in Nat
  PROVE  \E f : /\ f[0] = ROOTINUM /\ WalkIn(tab, s) = f[Len(s)]
                /\ \A k \in 1 .. Len(s) : f[k] = GoOn(tab, f[k - 1], s[k])
<1> DEFINE Run(n, f) == /\ f[0] = ROOTINUM
                        /\ \A k \in 1 .. n : f[k] = GoOn(tab, f[k - 1], s[k])
           S == {n \in Nat : \E f : f = [k \in 0 .. n |-> f[k]] /\ Run(n, f)}
<1>1. 0 \in S
  <2> DEFINE f == [k \in 0 .. 0 |-> ROOTINUM]
  <2>1. f = [k \in 0 .. 0 |-> f[k]] /\ Run(0, f)
    OBVIOUS
  <2> QED BY <2>1
<1>2. ASSUME NEW n \in Nat, n \in S PROVE n + 1 \in S
  <2>1. PICK f : f = [k \in 0 .. n |-> f[k]] /\ Run(n, f)
    BY <1>2
  <2> DEFINE last == GoOn(tab, f[n], s[n + 1])
             g == [k \in 0 .. n + 1 |-> IF k <= n THEN f[k] ELSE last]
  <2>2. g = [k \in 0 .. n + 1 |-> g[k]]
    OBVIOUS
  <2>3. g[0] = ROOTINUM
    BY <2>1
  <2>4. ASSUME NEW k \in 1 .. n + 1
        PROVE  g[k] = GoOn(tab, g[k - 1], s[k])
    <3>1. CASE k <= n
      <4>1. g[k] = f[k] /\ g[k - 1] = f[k - 1] /\ k \in 1 .. n
        BY <3>1
      <4> HIDE DEF g
      <4> QED BY <2>1, <4>1
    <3>2. CASE k = n + 1
      <4>1. g[k] = last /\ g[k - 1] = f[n]
        BY <3>2
      <4> HIDE DEF g
      <4> QED BY <3>2, <4>1
    <3> QED BY <3>1, <3>2
  <2> HIDE DEF g
  <2>5. Run(n + 1, g)
    BY <2>3, <2>4
  <2>6. \E h : h = [k \in 0 .. n + 1 |-> h[k]] /\ Run(n + 1, h)
    <3> HIDE DEF Run
    <3> QED BY <2>2, <2>5
  <2> HIDE DEF Run
  <2> QED BY <2>6
<1> HIDE DEF S
<1>3. Nat \subseteq S
  BY <1>1, <1>2, NatSetInduction
<1>4. PICK f : f = [k \in 0 .. Len(s) |-> f[k]] /\ Run(Len(s), f)
  BY <1>3 DEF S
<1>5. f = WalkStep(tab, f, s)
  BY <1>4 DEF WalkStep
<1> DEFINE g == CHOOSE h : h = WalkStep(tab, h, s)
<1>6. g = WalkStep(tab, g, s)
  BY <1>5
<1>7. WalkIn(tab, s) = g[Len(s)]
  BY DEF WalkIn
<1> HIDE DEF g
<1>8. g[0] = ROOTINUM /\ \A k \in 1 .. Len(s) : g[k] = GoOn(tab, g[k - 1], s[k])
  BY <1>6 DEF WalkStep
<1> QED BY <1>7, <1>8

LEMMA WalkEmpty ==
  ASSUME NEW tab
  PROVE  WalkIn(tab, <<>>) = ROOTINUM
<1>1. Len(<<>>) = 0
  BY EmptySeq
<1> QED BY <1>1, WalkRun

LEMMA WalkAppend ==
  ASSUME NEW tab, NEW X, NEW s \in Seq(X), NEW x \in X
  PROVE  WalkIn(tab, Append(s, x)) = GoOn(tab, WalkIn(tab, s), x)
<1> DEFINE t == Append(s, x)
<1>1. /\ Len(s) \in Nat /\ Len(t) = Len(s) + 1 /\ t[Len(s) + 1] = x
      /\ \A k \in 1 .. Len(s) : t[k] = s[k]
  BY AppendProperties
<1> HIDE DEF t
<1>2. PICK f : /\ f[0] = ROOTINUM /\ WalkIn(tab, s) = f[Len(s)]
               /\ \A k \in 1 .. Len(s) : f[k] = GoOn(tab, f[k - 1], s[k])
  BY <1>1, WalkRun
<1>3. PICK g : /\ g[0] = ROOTINUM /\ WalkIn(tab, t) = g[Len(t)]
               /\ \A k \in 1 .. Len(t) : g[k] = GoOn(tab, g[k - 1], t[k])
  BY <1>1, WalkRun
<1> DEFINE E == {n \in Nat : n <= Len(s) => g[n] = f[n]}
<1>4. Nat \subseteq E
  <2>1. 0 \in E
    BY <1>2, <1>3
  <2>2. ASSUME NEW n \in Nat, n \in E PROVE n + 1 \in E
    <3>1. SUFFICES ASSUME n + 1 <= Len(s) PROVE g[n + 1] = f[n + 1]
      OBVIOUS
    <3>2. n + 1 \in 1 .. Len(s) /\ n + 1 \in 1 .. Len(t) /\ (n + 1) - 1 = n
      BY <1>1, <3>1
    <3>3. g[n] = f[n]
      BY <1>1, <2>2, <3>1
    <3>4. g[n + 1] = GoOn(tab, g[n], t[n + 1]) /\ f[n + 1] = GoOn(tab, f[n], s[n + 1])
      BY <1>2, <1>3, <3>2
    <3>5. t[n + 1] = s[n + 1]
      BY <1>1, <3>2
    <3> QED BY <3>3, <3>4, <3>5
  <2> HIDE DEF E
  <2> QED BY <2>1, <2>2, NatSetInduction
<1>5. g[Len(s)] = f[Len(s)]
  BY <1>1, <1>4
<1>6. Len(s) + 1 \in 1 .. Len(t) /\ (Len(s) + 1) - 1 = Len(s)
  BY <1>1
<1>7. g[Len(s) + 1] = GoOn(tab, g[Len(s)], t[Len(s) + 1])
  BY <1>3, <1>6
<1>8. WalkIn(tab, t) = GoOn(tab, f[Len(s)], x)
  BY <1>1, <1>3, <1>5, <1>7
<1> QED BY <1>2, <1>8 DEF t

-----------------------------------------------------------------------------
(***************************************************************************)
(* Tables in which no entry leads to a place another entry leads to: every *)
(* inode is found by one sequence of names, which is shorter than its      *)
(* number.                                                                 *)
(***************************************************************************)

Treelike(tab) ==
  /\ \A n \in Inum : \A x : LookIn(tab, n, x) # NULLINUM =>
       x \in Tokens /\ LookIn(tab, n, x) \in Inum \ {ROOTINUM} /\ n < LookIn(tab, n, x)
  /\ \A m, n \in Inum : \A x, y :
       LookIn(tab, m, x) = LookIn(tab, n, y) /\ LookIn(tab, n, y) # NULLINUM => m = n /\ x = y

LEMMA Numbers ==
  /\ NULLINUM = 0 /\ ROOTINUM = 1 /\ NULLINUM \in Inum /\ ROOTINUM \in Inum
  /\ Inum \subseteq Nat /\ NINODES \in Nat /\ \A n \in Inum : n < NINODES
BY NamesAssumption DEF NULLINUM, ROOTINUM, Inum

LEMMA WalkType ==
  ASSUME NEW tab, Treelike(tab), NEW X, NEW s \in Seq(X), WalkIn(tab, s) # NULLINUM
  PROVE  /\ s \in Seq(Tokens) /\ WalkIn(tab, s) \in Inum /\ WalkIn(tab, s) > Len(s)
         /\ s # <<>> => WalkIn(tab, s) # ROOTINUM
<1> DEFINE Good(u) == WalkIn(tab, u) # NULLINUM =>
                        /\ u \in Seq(Tokens) /\ WalkIn(tab, u) \in Inum /\ WalkIn(tab, u) > Len(u)
                        /\ u # <<>> => WalkIn(tab, u) # ROOTINUM
           S == {u \in Seq(X) : Good(u)}
<1>1. <<>> \in S
  <2>1. Len(<<>>) = 0 /\ <<>> \in Seq(X) /\ <<>> \in Seq(Tokens)
    BY EmptySeq
  <2>2. 1 > 0
    OBVIOUS
  <2> QED BY <2>1, <2>2, WalkEmpty, Numbers
<1>2. ASSUME NEW u \in Seq(X), NEW x \in X, u \in S PROVE Append(u, x) \in S
  <2>1. Append(u, x) \in Seq(X)
    BY AppendProperties
  <2> DEFINE n == WalkIn(tab, u)
             m == WalkIn(tab, Append(u, x))
  <2>2. m = GoOn(tab, n, x)
    BY WalkAppend
  <2>3. SUFFICES ASSUME m # NULLINUM PROVE Good(Append(u, x))
    BY <2>1
  <2>4. n # NULLINUM /\ m = LookIn(tab, n, x)
    BY <2>2, <2>3 DEF GoOn
  <2>5. u \in Seq(Tokens) /\ n \in Inum /\ n > Len(u)
    BY <1>2, <2>4
  <2>6. x \in Tokens /\ m \in Inum /\ m # ROOTINUM /\ n < m
    <3> HIDE DEF n, m
    <3> QED BY <2>3, <2>4, <2>5 DEF Treelike
  <2>7. Append(u, x) \in Seq(Tokens) /\ Len(Append(u, x)) = Len(u) + 1 /\ Len(u) \in Nat
    BY <2>5, <2>6, AppendProperties
  <2>8. m > Len(Append(u, x))
    <3> HIDE DEF n, m
    <3>1. m \in Nat /\ n \in Nat
      BY <2>5, <2>6, Numbers
    <3> QED BY <2>5, <2>6, <2>7, <3>1
  <2> QED BY <2>6, <2>7, <2>8
<1> HIDE DEF S, Good
<1>3. Seq(X) \subseteq S
  BY <1>1, <1>2, SeqSetInduction
<1> QED BY <1>3 DEF S, Good

\* The root is found by no names, and nothing else is.
LEMMA WalkUnique ==
  ASSUME NEW tab, Treelike(tab), NEW X, NEW s \in Seq(X), NEW t \in Seq(X),
         WalkIn(tab, s) = WalkIn(tab, t), WalkIn(tab, s) # NULLINUM
  PROVE  s = t
<1> DEFINE Good(u) == \A v \in Seq(X) :
                        WalkIn(tab, u) = WalkIn(tab, v) /\ WalkIn(tab, u) # NULLINUM => u = v
           S == {u \in Seq(X) : Good(u)}
<1>1. <<>> \in S
  <2>1. <<>> \in Seq(X) /\ WalkIn(tab, <<>>) = ROOTINUM
    BY EmptySeq, WalkEmpty
  <2>2. \A v \in Seq(X) : v # <<>> /\ WalkIn(tab, v) # NULLINUM => WalkIn(tab, v) # ROOTINUM
    BY WalkType
  <2> QED BY <2>1, <2>2
<1>2. ASSUME NEW u \in Seq(X), NEW x \in X, u \in S PROVE Append(u, x) \in S
  <2>1. Append(u, x) \in Seq(X) /\ Append(u, x) # <<>>
    BY AppendProperties
  <2>2. SUFFICES ASSUME NEW v \in Seq(X), WalkIn(tab, Append(u, x)) = WalkIn(tab, v),
                        WalkIn(tab, v) # NULLINUM
                 PROVE  Append(u, x) = v
    BY <2>1
  <2>3. v # <<>>
    BY <2>1, <2>2, WalkEmpty, WalkType
  <2>4. PICK w \in Seq(X), y \in X : v = Append(w, y)
    BY <2>3, SequenceEmptyOrAppend
  <2> DEFINE m == WalkIn(tab, u)
             n == WalkIn(tab, w)
  <2>5. GoOn(tab, m, x) = GoOn(tab, n, y) /\ GoOn(tab, n, y) # NULLINUM
    BY <2>2, <2>4, WalkAppend
  <2>6. /\ m # NULLINUM /\ n # NULLINUM
        /\ LookIn(tab, m, x) = LookIn(tab, n, y) /\ LookIn(tab, n, y) # NULLINUM
    BY <2>5 DEF GoOn
  <2>7. m \in Inum /\ n \in Inum
    BY <2>6, WalkType
  <2>8. m = n /\ x = y
    <3> HIDE DEF m, n
    <3> QED BY <2>6, <2>7 DEF Treelike
  <2>9. u = w
    BY <1>2, <2>6, <2>8
  <2> QED BY <2>4, <2>8, <2>9
<1> HIDE DEF S, Good
<1>3. Seq(X) \subseteq S
  BY <1>1, <1>2, SeqSetInduction
<1> QED BY <1>3 DEF S, Good

\* Tables in which the same entries are found have the same names.
LEMMA WalkSame ==
  ASSUME NEW tab, Treelike(tab), NEW tab2,
         \A n \in Inum : \A x : LookIn(tab2, n, x) = LookIn(tab, n, x),
         NEW X, NEW s \in Seq(X)
  PROVE  WalkIn(tab2, s) = WalkIn(tab, s)
<1> DEFINE S == {u \in Seq(X) : WalkIn(tab2, u) = WalkIn(tab, u)}
<1>1. <<>> \in S
  BY EmptySeq, WalkEmpty
<1>2. ASSUME NEW u \in Seq(X), NEW x \in X, u \in S PROVE Append(u, x) \in S
  <2> DEFINE n == WalkIn(tab, u)
  <2>1. /\ Append(u, x) \in Seq(X)
        /\ WalkIn(tab2, Append(u, x)) = GoOn(tab2, n, x)
        /\ WalkIn(tab, Append(u, x)) = GoOn(tab, n, x)
    BY <1>2, WalkAppend, AppendProperties
  <2>2. n # NULLINUM => n \in Inum
    BY WalkType
  <2> HIDE DEF n
  <2> QED BY <2>1, <2>2 DEF GoOn
<1> HIDE DEF S
<1>3. Seq(X) \subseteq S
  BY <1>1, <1>2, SeqSetInduction
<1> QED BY <1>3 DEF S

\* One more entry, which leads to a place with no entries, is one more name.
Linked(tab, tab2, X, r, name, new) ==
  LET dir == WalkIn(tab, r)
  IN  /\ Treelike(tab) /\ r \in Seq(X) /\ name \in X
      /\ dir # NULLINUM /\ new \in Inum \ {dir, NULLINUM}
      /\ LookIn(tab, dir, name) = NULLINUM /\ \A x : LookIn(tab, new, x) = NULLINUM
      /\ \A n \in Inum : \A x :
           LookIn(tab2, n, x) = IF n = dir /\ x = name THEN new ELSE LookIn(tab, n, x)

LEMMA WalkLink ==
  ASSUME NEW tab, NEW tab2, NEW X, NEW r, NEW name, NEW new,
         Linked(tab, tab2, X, r, name, new), NEW s \in Seq(X)
  PROVE  /\ WalkIn(tab, Append(r, name)) = NULLINUM
         /\ WalkIn(tab2, s) = IF s = Append(r, name) THEN new ELSE WalkIn(tab, s)
<1> USE DEF Linked
<1> DEFINE dir == WalkIn(tab, r)
<1> DEFINE Good(u) == WalkIn(tab2, u) = IF u = Append(r, name) THEN new ELSE WalkIn(tab, u)
           S == {u \in Seq(X) : Good(u)}
<1>1. <<>> \in S
  <2>1. <<>> \in Seq(X) /\ <<>> # Append(r, name)
    BY EmptySeq, AppendProperties
  <2> QED BY <2>1, WalkEmpty
<1>2. WalkIn(tab, Append(r, name)) = NULLINUM
  BY WalkAppend DEF GoOn
<1>3. ASSUME NEW u \in Seq(X), NEW x \in X, u \in S PROVE Append(u, x) \in S
  <2>1. /\ Append(u, x) \in Seq(X)
        /\ WalkIn(tab2, Append(u, x)) = GoOn(tab2, WalkIn(tab2, u), x)
        /\ WalkIn(tab, Append(u, x)) = GoOn(tab, WalkIn(tab, u), x)
    BY WalkAppend, AppendProperties
  <2>2. Append(u, x) = Append(r, name) <=> u = r /\ x = name
    BY AppendInjective
  <2>3. SUFFICES Good(Append(u, x))
    BY <2>1
  <2>4. Good(u)
    BY <1>3
  <2>5. CASE u = Append(r, name)
    <3>1. u # r
      <4>1. Len(Append(r, name)) = Len(r) + 1 /\ Len(r) \in Nat
        BY AppendProperties
      <4>2. Len(Append(r, name)) # Len(r)
        BY <4>1
      <4> QED BY <2>5, <4>2
    <3>2. WalkIn(tab2, u) = new /\ WalkIn(tab, u) = NULLINUM
      BY <1>2, <2>4, <2>5
    <3>3. GoOn(tab, NULLINUM, x) = NULLINUM /\ GoOn(tab2, new, x) = NULLINUM
      BY DEF GoOn
    <3> QED BY <2>1, <2>2, <3>1, <3>2, <3>3
  <2>6. CASE u # Append(r, name)
    <3> DEFINE n == WalkIn(tab, u)
    <3>1. WalkIn(tab2, u) = n /\ (n # NULLINUM => n \in Inum)
      BY <2>4, <2>6, WalkType
    <3>2. n # NULLINUM /\ n = dir => u = r
      BY WalkUnique
    <3>3. u = r => n = dir
      OBVIOUS
    <3>4. GoOn(tab2, n, x) = IF u = r /\ x = name THEN new ELSE GoOn(tab, n, x)
      <4> HIDE DEF n
      <4> QED BY <3>1, <3>2, <3>3 DEF GoOn
    <3> QED BY <2>1, <2>2, <3>1, <3>4
  <2> QED BY <2>5, <2>6
<1> HIDE DEF S, Good
<1>4. Seq(X) \subseteq S
  BY <1>1, <1>3, SeqSetInduction
<1> QED BY <1>2, <1>4 DEF S, Good

-----------------------------------------------------------------------------
(***************************************************************************)
(* What is found in a directory.                                           *)
(***************************************************************************)

LEMMA LookFinds ==
  ASSUME NEW tab, NEW n, NEW x, NEW E, tab[n].dirents \in Seq(E),
         LookIn(tab, n, x) # NULLINUM
  PROVE  /\ tab[n].type = T_DIR
         /\ \E i \in DOMAIN tab[n].dirents : /\ tab[n].dirents[i].name = x
                                             /\ tab[n].dirents[i].inum = LookIn(tab, n, x)
<1> DEFINE des == tab[n].dirents
           at  == {i \in DOMAIN des : des[i].name = x}
<1>1. LookIn(tab, n, x) = IF tab[n].type = T_DIR /\ at # {} THEN des[Min(at)].inum ELSE NULLINUM
  BY DEF LookIn
<1>2. at \subseteq 1 .. Len(des) /\ 1 \in Int /\ Len(des) \in Int
  OBVIOUS
<1>3. at # {} => Min(at) \in at
  <2> HIDE DEF at
  <2> QED BY <1>2, MinIn
<1>4. tab[n].type = T_DIR /\ at # {} /\ des[Min(at)].inum = LookIn(tab, n, x)
  <2> HIDE DEF at, des
  <2> QED BY <1>1
<1> DEFINE i == Min(at)
<1>5. i \in at /\ des[i].inum = LookIn(tab, n, x)
  <2> HIDE DEF at, des
  <2> QED BY <1>3, <1>4
<1> HIDE DEF i
<1> QED BY <1>4, <1>5

LEMMA LookNone ==
  ASSUME NEW tab, NEW n, NEW x,
         tab[n].type # T_DIR \/ \A i \in DOMAIN tab[n].dirents : tab[n].dirents[i].name # x
  PROVE  LookIn(tab, n, x) = NULLINUM
BY DEF LookIn

\* The only entry of a name is found.
LEMMA LookOnly ==
  ASSUME NEW tab, NEW n, NEW x, NEW des, tab[n].dirents = des, tab[n].type = T_DIR,
         NEW i \in Nat, i \in DOMAIN des, des[i].name = x,
         \A j \in DOMAIN des : des[j].name = x => j = i
  PROVE  LookIn(tab, n, x) = des[i].inum
<1> DEFINE at == {j \in DOMAIN des : des[j].name = x}
<1>1. at = {i}
  OBVIOUS
<1>2. i \in Int /\ {i} \subseteq i .. i /\ {i} # {}
  OBVIOUS
<1>3. Min({i}) \in {i}
  BY <1>2, MinIn
<1>4. LookIn(tab, n, x) = IF tab[n].type = T_DIR /\ at # {} THEN des[Min(at)].inum ELSE NULLINUM
  BY DEF LookIn
<1> HIDE DEF at
<1> QED BY <1>1, <1>3, <1>4

\* A directory and a name under which something is found are the place and the
\* name of an entry.
LEMMA LookIsEntry ==
  ASSUME IInv, NEW n \in Inum, NEW x, LookIn(inode, n, x) # NULLINUM
  PROVE  \E e \in Entries : /\ e[1] = n /\ EntryAt(e).name = x
                            /\ EntryAt(e).inum = LookIn(inode, n, x)
<1> DEFINE E == [name : Tokens, inum : Inum]
<1>1. inode[n].dirents \in Seq(E)
  BY DEF IInv, Types, Dirents, Tokens
<1> HIDE DEF E
<1>2. /\ inode[n].type = T_DIR
      /\ \E i \in DOMAIN inode[n].dirents : /\ inode[n].dirents[i].name = x
                                            /\ inode[n].dirents[i].inum = LookIn(inode, n, x)
  BY <1>1, LookFinds
<1>3. PICK i \in DOMAIN inode[n].dirents :
        /\ inode[n].dirents[i].name = x
        /\ inode[n].dirents[i].inum = LookIn(inode, n, x)
  BY <1>2
<1>4. <<n, i>> \in Entries
  BY <1>2, InEntries DEF Directories
<1> DEFINE e == <<n, i>>
<1>5. e \in Entries /\ e[1] = n /\ EntryAt(e) = inode[n].dirents[i]
  BY <1>4 DEF EntryAt
<1> HIDE DEF e
<1> QED BY <1>3, <1>5

LEMMA EntryName ==
  ASSUME IInv, NEW e \in Entries
  PROVE  EntryAt(e).name \in Tokens /\ EntryAt(e).inum \in Inum
<1>1. PICK d \in Directories : \E i \in DOMAIN inode[d].dirents : e = <<d, i>>
  BY InEntries
<1>2. PICK i \in DOMAIN inode[d].dirents : e = <<d, i>>
  BY <1>1
<1> DEFINE des == inode[d].dirents
<1>3. des \in Seq([name : Tokens, inum : Inum])
  BY DEF IInv, Types, Dirents, Tokens, Directories
<1>4. des[i] \in [name : Tokens, inum : Inum]
  <2> DEFINE E == [name : Tokens, inum : Inum]
  <2>1. i \in DOMAIN des /\ des \in Seq(E)
    BY <1>2, <1>3
  <2> HIDE DEF des, E
  <2>2. i \in 1 .. Len(des)
    BY <2>1
  <2>3. des[i] \in E
    BY <2>1, <2>2, ElementOfSeq
  <2> QED BY <2>3 DEF E
<1> QED BY <1>2, <1>4 DEF EntryAt

LEMMA TreeNow == IInv => Treelike(inode)
<1> SUFFICES ASSUME IInv PROVE Treelike(inode)
  OBVIOUS
<1>1. ASSUME NEW n \in Inum, NEW x, LookIn(inode, n, x) # NULLINUM
      PROVE  x \in Tokens /\ LookIn(inode, n, x) \in Inum \ {ROOTINUM} /\ n < LookIn(inode, n, x)
  <2>1. PICK e \in Entries : /\ e[1] = n /\ EntryAt(e).name = x
                             /\ EntryAt(e).inum = LookIn(inode, n, x)
    BY <1>1, LookIsEntry
  <2>2. EntryAt(e).inum \in Created /\ e[1] < EntryAt(e).inum
    BY DEF IInv, EntriesOK
  <2> QED BY <2>1, <2>2, EntryName DEF Created
<1>2. ASSUME NEW m \in Inum, NEW n \in Inum, NEW x, NEW y,
             LookIn(inode, m, x) = LookIn(inode, n, y), LookIn(inode, n, y) # NULLINUM
      PROVE  m = n /\ x = y
  <2>1. PICK d \in Entries : /\ d[1] = m /\ EntryAt(d).name = x
                             /\ EntryAt(d).inum = LookIn(inode, m, x)
    BY <1>2, LookIsEntry
  <2>2. PICK e \in Entries : /\ e[1] = n /\ EntryAt(e).name = y
                             /\ EntryAt(e).inum = LookIn(inode, n, y)
    BY <1>2, LookIsEntry
  <2>3. d = e
    BY <1>2, <2>1, <2>2 DEF IInv, EntriesOK
  <2> QED BY <2>1, <2>2, <2>3
<1> QED BY <1>1, <1>2 DEF Treelike

\* What has a name is the root or what an entry names.
LEMMA FoundIsNamed ==
  ASSUME IInv, NEW X, NEW s \in Seq(X), Resolve(s) # NULLINUM
  PROVE  /\ Resolve(s) = ROOTINUM \/ Named(Resolve(s))
         /\ Resolve(s) \in Inum /\ inode[Resolve(s)].type # Free
<1>1. Resolve(s) = WalkIn(inode, s) /\ Treelike(inode)
  BY WalkOf, TreeNow
<1>2. Resolve(s) = ROOTINUM \/ Named(Resolve(s))
  <2>1. CASE s = <<>>
    BY <1>1, <2>1, WalkEmpty
  <2>2. CASE s # <<>>
    <3>1. PICK u \in Seq(X), x \in X : s = Append(u, x)
      BY <2>2, SequenceEmptyOrAppend
    <3> DEFINE n == WalkIn(inode, u)
    <3>2. WalkIn(inode, s) = GoOn(inode, n, x)
      BY <3>1, WalkAppend
    <3>3. n # NULLINUM /\ WalkIn(inode, s) = LookIn(inode, n, x)
      BY <1>1, <3>2 DEF GoOn
    <3>4. n \in Inum
      BY <1>1, <3>3, WalkType
    <3>5. PICK e \in Entries : EntryAt(e).inum = LookIn(inode, n, x)
      <4> HIDE DEF n
      <4> QED BY <1>1, <3>3, <3>4, LookIsEntry
    <3> QED BY <1>1, <3>3, <3>5 DEF Named
  <2> QED BY <2>1, <2>2
<1>3. Resolve(s) \in Inum
  BY <1>1, WalkType
<1>4. Named(Resolve(s)) => inode[Resolve(s)].type # Free
  BY DEF Named, IInv, EntriesOK, Created
<1> QED BY <1>2, <1>3, <1>4 DEF IInv, Reserved

-----------------------------------------------------------------------------
(***************************************************************************)
(* What a step does to what is found.                                      *)
(***************************************************************************)

SameLooks == \A n \in Inum : \A x : LookIn(inode', n, x) = LookIn(inode, n, x)

LEMMA BeginLooks ==
  ASSUME IInv, NEW path \in Paths, NEW type \in {T_REG, T_DIR}, Begin(path, type)
  PROVE  SameLooks
<1>1. PICK n \in Inum :
        /\ inode[n].type = Free
        /\ inode' = [inode EXCEPT ![n] = [type |-> type, linkcnt |-> 0, dirents |-> <<>>]]
  BY DEF Begin, alloc_inode, Unused
<1>2. inode'[n].dirents = <<>> /\ \A m \in Inum : m # n => inode'[m] = inode[m]
  BY <1>1 DEF IInv, Types
<1>3. ASSUME NEW x PROVE LookIn(inode', n, x) = LookIn(inode, n, x)
  <2>1. inode[n].type # T_DIR
    BY <1>1 DEF Free, T_DIR
  <2>2. DOMAIN inode'[n].dirents = {}
    BY <1>2
  <2> QED BY <2>1, <2>2, LookNone
<1>4. ASSUME NEW m \in Inum, m # n, NEW x PROVE LookIn(inode', m, x) = LookIn(inode, m, x)
  BY <1>2, <1>4 DEF LookIn
<1> QED BY <1>3, <1>4 DEF SameLooks

LEMMA UndoLooks == IInv /\ Undo => SameLooks
<1> SUFFICES ASSUME IInv, Undo PROVE SameLooks
  OBVIOUS
<1> DEFINE n == call.inum
<1>1. n \in Inum /\ inode[n].dirents = <<>> /\ inode' = [inode EXCEPT ![n].type = Free]
  BY DEF IInv, Types, CallOK, Undo, Freed, TypeAfterUndo
<1>2. inode'[n].dirents = <<>> /\ \A m \in Inum : m # n => inode'[m] = inode[m]
  BY <1>1 DEF IInv, Types
<1>3. ASSUME NEW x PROVE LookIn(inode', n, x) = LookIn(inode, n, x)
  <2>1. DOMAIN inode'[n].dirents = {} /\ DOMAIN inode[n].dirents = {}
    BY <1>1, <1>2
  <2> QED BY <2>1, LookNone
<1>4. ASSUME NEW m \in Inum, m # n, NEW x PROVE LookIn(inode', m, x) = LookIn(inode, m, x)
  BY <1>2, <1>4 DEF LookIn
<1> QED BY <1>3, <1>4 DEF SameLooks

LEMMA CountLooks == IInv /\ Count => SameLooks
<1> SUFFICES ASSUME IInv, Count PROVE SameLooks
  OBVIOUS
<1>1. inode' = [inode EXCEPT ![call.inum].linkcnt = inode[call.inum].linkcnt + 1]
  BY DEF Count, Counted
<1>2. \A m \in Inum : inode'[m].dirents = inode[m].dirents /\ inode'[m].type = inode[m].type
  BY <1>1 DEF IInv, Types
<1> QED BY <1>2 DEF SameLooks, LookIn

\* The new entry is found under its name, and nothing else changes.
LEMMA LinkLooks ==
  ASSUME IInv, Link
  PROVE  /\ \A n \in Inum : \A x : LookIn(inode', n, x) =
              IF n = call.dir /\ x = call.name THEN call.inum ELSE LookIn(inode, n, x)
         /\ LookIn(inode, call.dir, call.name) = NULLINUM
         /\ \A x : LookIn(inode, call.inum, x) = NULLINUM
<1> DEFINE d   == call.dir
           des == inode[d].dirents
           new == [name |-> call.name, inum |-> call.inum]
           E   == [name : Tokens, inum : Inum]
<1>1. pc = "link" /\ inode' = [inode EXCEPT ![d].dirents = Append(des, new)]
  BY DEF Link
<1>2. Types /\ CallOK
  BY DEF IInv
<1>3. /\ d \in Directories /\ d \in Inum /\ inode[d].type = T_DIR
      /\ \A e \in Entries : e[1] = d => EntryAt(e).name # call.name
      /\ inode[call.inum].dirents = <<>> /\ call.inum \in Inum
  BY <1>1, <1>2 DEF CallOK, Directories, Created
<1>4. des \in Seq(E) /\ new \in E
  BY <1>2, <1>3 DEF Types, Dirents, Tokens
<1>5. /\ Append(des, new) \in Seq(E)
      /\ DOMAIN Append(des, new) = DOMAIN des \cup {Len(des) + 1}
      /\ \A i \in DOMAIN des : Append(des, new)[i] = des[i]
      /\ Append(des, new)[Len(des) + 1] = new
  <2> HIDE DEF des, new, E
  <2> QED BY <1>4, Appended
<1>6. /\ inode'[d].dirents = Append(des, new) /\ inode'[d].type = T_DIR
      /\ \A m \in Inum : m # d => inode'[m] = inode[m]
  BY <1>1, <1>2, <1>3 DEF Types
<1>7. \A i \in DOMAIN des : des[i].name # call.name
  <2>1. ASSUME NEW i \in DOMAIN des PROVE des[i].name # call.name
    <3> DEFINE e == <<d, i>>
    <3>1. e \in Entries /\ e[1] = d /\ EntryAt(e) = des[i]
      BY <1>3, InEntries DEF EntryAt
    <3> HIDE DEF e
    <3> QED BY <1>3, <3>1
  <2> QED BY <2>1
<1>8. LookIn(inode, d, call.name) = NULLINUM
  BY <1>7, LookNone
<1>9. LookIn(inode', d, call.name) = call.inum
  <2> DEFINE i == Len(des) + 1
  <2>1. /\ i \in DOMAIN Append(des, new) /\ Append(des, new)[i].name = call.name
        /\ Append(des, new)[i].inum = call.inum
    BY <1>5
  <2>2. ASSUME NEW j \in DOMAIN Append(des, new), Append(des, new)[j].name = call.name PROVE j = i
    <3> HIDE DEF des, new
    <3> QED BY <1>5, <1>7, <2>2
  <2> DEFINE all == Append(des, new)
  <2>3. /\ inode'[d].dirents = all /\ all \in Seq(E) /\ inode'[d].type = T_DIR
        /\ i \in DOMAIN all /\ all[i].name = call.name
        /\ \A j \in DOMAIN all : all[j].name = call.name => j = i
    BY <1>5, <1>6, <2>1, <2>2
  <2> HIDE DEF all, i, des, new, E, d
  <2>4. i \in Nat
    BY <1>4 DEF i
  <2>5. LookIn(inode', d, call.name) = all[i].inum
    BY <2>3, <2>4, LookOnly
  <2> QED BY <2>1, <2>5 DEF all
<1>10. ASSUME NEW x, x # call.name PROVE LookIn(inode', d, x) = LookIn(inode, d, x)
  <2> DEFINE all == Append(des, new)
             bt == {i \in DOMAIN all : all[i].name = x}
             at == {i \in DOMAIN des : des[i].name = x}
  <2>1. new.name = call.name
    OBVIOUS
  <2>2. bt = at
    <3> HIDE DEF des, new, all
    <3> QED BY <1>5, <1>10, <2>1 DEF all
  <2>3. /\ LookIn(inode', d, x) = IF bt # {} THEN all[Min(bt)].inum ELSE NULLINUM
        /\ LookIn(inode, d, x) = IF at # {} THEN des[Min(at)].inum ELSE NULLINUM
    <3> HIDE DEF new
    <3> QED BY <1>3, <1>6 DEF LookIn
  <2>4. at # {} => Min(at) \in DOMAIN des
    <3>1. at \subseteq 1 .. Len(des) /\ 1 \in Int /\ Len(des) \in Int /\ at \subseteq DOMAIN des
      BY <1>4
    <3> HIDE DEF at, des
    <3> QED BY <3>1, MinIn
  <2>5. at # {} => all[Min(at)] = des[Min(at)]
    <3> HIDE DEF at, des, new
    <3> QED BY <1>5, <2>4
  <2> HIDE DEF at, bt, all, des
  <2> QED BY <2>2, <2>3, <2>5
<1>11. ASSUME NEW n \in Inum, n # d, NEW x PROVE LookIn(inode', n, x) = LookIn(inode, n, x)
  BY <1>6, <1>11 DEF LookIn
<1>12. ASSUME NEW x PROVE LookIn(inode, call.inum, x) = NULLINUM
  <2>1. DOMAIN inode[call.inum].dirents = {}
    BY <1>3
  <2> QED BY <2>1, LookNone
<1> HIDE DEF d
<1>13. ASSUME NEW n \in Inum, NEW x
       PROVE  LookIn(inode', n, x) =
                IF n = d /\ x = call.name THEN call.inum ELSE LookIn(inode, n, x)
  BY <1>9, <1>10, <1>11
<1> QED BY <1>8, <1>12, <1>13 DEF d

-----------------------------------------------------------------------------
(***************************************************************************)
(* The names of a path, token by token.                                    *)
(***************************************************************************)

NextNames(u, x) == IF x = Slash THEN u ELSE Append(u, x)

NamesStep(f, s) ==
  [k \in 0 .. Len(s) |->
     IF k = 0 THEN <<>> ELSE NextNames(f[k - 1], s[k])]

LEMMA NamesRun ==
  ASSUME NEW s, Len(s) \in Nat
  PROVE  \E f : /\ f[0] = <<>> /\ NamesIn(s) = f[Len(s)]
                /\ \A k \in 1 .. Len(s) : f[k] = NextNames(f[k - 1], s[k])
<1> DEFINE Run(n, f) == /\ f[0] = <<>>
                        /\ \A k \in 1 .. n : f[k] = NextNames(f[k - 1], s[k])
           S == {n \in Nat : \E f : f = [k \in 0 .. n |-> f[k]] /\ Run(n, f)}
<1>1. 0 \in S
  <2> DEFINE f == [k \in 0 .. 0 |-> <<>>]
  <2>1. f = [k \in 0 .. 0 |-> f[k]] /\ Run(0, f)
    OBVIOUS
  <2> QED BY <2>1
<1>2. ASSUME NEW n \in Nat, n \in S PROVE n + 1 \in S
  <2>1. PICK f : f = [k \in 0 .. n |-> f[k]] /\ Run(n, f)
    BY <1>2
  <2> DEFINE last == NextNames(f[n], s[n + 1])
             g == [k \in 0 .. n + 1 |-> IF k <= n THEN f[k] ELSE last]
  <2>2. g = [k \in 0 .. n + 1 |-> g[k]]
    OBVIOUS
  <2>3. g[0] = <<>>
    BY <2>1
  <2>4. ASSUME NEW k \in 1 .. n + 1
        PROVE  g[k] = NextNames(g[k - 1], s[k])
    <3>1. CASE k <= n
      <4>1. g[k] = f[k] /\ g[k - 1] = f[k - 1] /\ k \in 1 .. n
        BY <3>1
      <4> HIDE DEF g
      <4> QED BY <2>1, <4>1
    <3>2. CASE k = n + 1
      <4>1. g[k] = last /\ g[k - 1] = f[n]
        BY <3>2
      <4> HIDE DEF g
      <4> QED BY <3>2, <4>1
    <3> QED BY <3>1, <3>2
  <2> HIDE DEF g
  <2>5. Run(n + 1, g)
    BY <2>3, <2>4
  <2>6. \E h : h = [k \in 0 .. n + 1 |-> h[k]] /\ Run(n + 1, h)
    <3> HIDE DEF Run
    <3> QED BY <2>2, <2>5
  <2> HIDE DEF Run
  <2> QED BY <2>6
<1> HIDE DEF S
<1>3. Nat \subseteq S
  BY <1>1, <1>2, NatSetInduction
<1>4. PICK f : f = [k \in 0 .. Len(s) |-> f[k]] /\ Run(Len(s), f)
  BY <1>3 DEF S
<1>5. f = NamesStep(f, s)
  <2>1. \A k \in 0 .. Len(s) : k # 0 => k \in 1 .. Len(s)
    OBVIOUS
  <2>2. \A k \in 0 .. Len(s) : f[k] = IF k = 0 THEN <<>> ELSE NextNames(f[k - 1], s[k])
    BY <1>4, <2>1
  <2> QED BY <1>4, <2>2 DEF NamesStep
<1> DEFINE g == CHOOSE h : h = NamesStep(h, s)
<1>6. g = NamesStep(g, s)
  BY <1>5
<1>7. NamesIn(s) = g[Len(s)]
  BY DEF NamesIn, NamesStep, NextNames
<1> HIDE DEF g
<1>8. g[0] = <<>> /\ \A k \in 1 .. Len(s) : g[k] = NextNames(g[k - 1], s[k])
  BY <1>6 DEF NamesStep
<1> QED BY <1>7, <1>8

LEMMA NamesEmpty == NamesIn(<<>>) = <<>>
<1>1. Len(<<>>) = 0
  BY EmptySeq
<1> QED BY <1>1, NamesRun

LEMMA NamesAppend ==
  ASSUME NEW X, NEW s \in Seq(X), NEW x \in X
  PROVE  NamesIn(Append(s, x)) = NextNames(NamesIn(s), x)
<1> DEFINE t == Append(s, x)
<1>1. /\ Len(s) \in Nat /\ Len(t) = Len(s) + 1 /\ t[Len(s) + 1] = x
      /\ \A k \in 1 .. Len(s) : t[k] = s[k]
  BY AppendProperties
<1> HIDE DEF t
<1>2. PICK f : /\ f[0] = <<>> /\ NamesIn(s) = f[Len(s)]
               /\ \A k \in 1 .. Len(s) : f[k] = NextNames(f[k - 1], s[k])
  BY <1>1, NamesRun
<1>3. PICK g : /\ g[0] = <<>> /\ NamesIn(t) = g[Len(t)]
               /\ \A k \in 1 .. Len(t) : g[k] = NextNames(g[k - 1], t[k])
  BY <1>1, NamesRun
<1> DEFINE E == {n \in Nat : n <= Len(s) => g[n] = f[n]}
<1>4. Nat \subseteq E
  <2>1. 0 \in E
    BY <1>2, <1>3
  <2>2. ASSUME NEW n \in Nat, n \in E PROVE n + 1 \in E
    <3>1. SUFFICES ASSUME n + 1 <= Len(s) PROVE g[n + 1] = f[n + 1]
      OBVIOUS
    <3>2. n + 1 \in 1 .. Len(s) /\ n + 1 \in 1 .. Len(t) /\ (n + 1) - 1 = n
      BY <1>1, <3>1
    <3>3. g[n] = f[n]
      BY <1>1, <2>2, <3>1
    <3>4. g[n + 1] = NextNames(g[n], t[n + 1]) /\ f[n + 1] = NextNames(f[n], s[n + 1])
      BY <1>2, <1>3, <3>2
    <3>5. t[n + 1] = s[n + 1]
      BY <1>1, <3>2
    <3> QED BY <3>3, <3>4, <3>5
  <2> HIDE DEF E
  <2> QED BY <2>1, <2>2, NatSetInduction
<1>5. g[Len(s)] = f[Len(s)]
  BY <1>1, <1>4
<1>6. Len(s) + 1 \in 1 .. Len(t) /\ (Len(s) + 1) - 1 = Len(s)
  BY <1>1
<1>7. g[Len(s) + 1] = NextNames(g[Len(s)], t[Len(s) + 1])
  BY <1>3, <1>6
<1>8. NamesIn(t) = NextNames(f[Len(s)], x)
  BY <1>1, <1>3, <1>5, <1>7
<1> QED BY <1>2, <1>8 DEF t

LEMMA NamesType ==
  ASSUME NEW X, NEW s \in Seq(X)
  PROVE  NamesIn(s) \in Seq(X)
<1> DEFINE S == {u \in Seq(X) : NamesIn(u) \in Seq(X)}
<1>1. <<>> \in S
  BY EmptySeq, NamesEmpty
<1>2. ASSUME NEW u \in Seq(X), NEW x \in X, u \in S PROVE Append(u, x) \in S
  <2>1. Append(u, x) \in Seq(X) /\ NamesIn(u) \in Seq(X)
    BY <1>2, AppendProperties
  <2>2. Append(NamesIn(u), x) \in Seq(X)
    BY <2>1, AppendProperties
  <2> QED BY <2>1, <2>2, NamesAppend DEF NextNames
<1> HIDE DEF S
<1>3. Seq(X) \subseteq S
  BY <1>1, <1>2, SeqSetInduction
<1> QED BY <1>3 DEF S

-----------------------------------------------------------------------------
Texts == {Slash} \cup Names \cup LongNames \cup {Empty}

LEMMA MaxAbove ==
  ASSUME NEW b \in Nat, NEW S, S \subseteq 1 .. b, S # {}
  PROVE  \A x \in S : Max(S) >= x
BY Greatest DEF Max

LEMMA TokenSets == Tokens \subseteq Texts /\ Paths \subseteq Seq(Texts)
<1>1. {Slash} \cup Names \cup LongNames \subseteq Texts
  BY DEF Texts
<1>2. Seq({Slash} \cup Names \cup LongNames) \subseteq Seq(Texts)
  BY <1>1, SeqMonotonic
<1> QED BY <1>2, NamesAssumption DEF Tokens, Texts

\* The last name of a path, and what is before and after it.
LEMMA PathParts ==
  ASSUME NEW path \in Paths, HasName(path)
  PROVE  /\ path \in Seq(Texts) /\ path # <<>> /\ NameAt(path) \in 1 .. Len(path)
         /\ \A i \in 1 .. Len(path) : NameAt(path) < i => path[i] = Slash
         /\ path # <<Slash>> =>
              /\ path[NameAt(path)] # Slash /\ NameOf(path) = path[NameAt(path)]
              /\ ParentOf(path) = SubSeq(path, 1, NameAt(path) - 1)
<1> DEFINE last == {1} \cup {i \in DOMAIN path : path[i] # Slash}
<1>1. path \in Seq(Texts) /\ path # <<>>
  BY TokenSets DEF HasName
<1>2. Len(path) \in Nat /\ DOMAIN path = 1 .. Len(path) /\ 1 \in DOMAIN path
  BY <1>1
<1>3. last \subseteq 1 .. Len(path) /\ last # {}
  BY <1>2
<1>4. NameAt(path) \in last /\ \A i \in last : NameAt(path) >= i
  <2>1. NameAt(path) = Max(last)
    BY DEF NameAt
  <2> HIDE DEF last
  <2> QED BY <1>2, <1>3, <2>1, MaxIn, MaxAbove
<1>5. NameAt(path) \in 1 .. Len(path)
  BY <1>3, <1>4
<1>6. ASSUME NEW i \in 1 .. Len(path), NameAt(path) < i PROVE path[i] = Slash
  <2> SUFFICES ASSUME path[i] # Slash PROVE FALSE
    OBVIOUS
  <2>1. i \in last
    BY <1>2
  <2>2. NameAt(path) >= i /\ NameAt(path) \in Int /\ i \in Int
    BY <1>4, <1>5, <2>1
  <2> QED BY <1>6, <2>2
<1>7. ASSUME path # <<Slash>>
      PROVE  /\ path[NameAt(path)] # Slash /\ NameOf(path) = path[NameAt(path)]
             /\ ParentOf(path) = SubSeq(path, 1, NameAt(path) - 1)
  BY <1>7 DEF HasName, NameOf, ParentOf
<1> QED BY <1>1, <1>5, <1>6, <1>7

LEMMA ComponentsType ==
  ASSUME NEW p \in Seq(Texts)
  PROVE  Components(p) \in Seq(Texts)
<1>1. NamesIn(p) \in Seq(Texts)
  BY NamesType
<1>2. <<Empty>> \in Seq(Texts)
  BY DEF Texts
<1>3. <<Empty>> \o NamesIn(p) \in Seq(Texts)
  BY <1>1, <1>2, ConcatProperties
<1> QED BY <1>1, <1>3 DEF Components

LEMMA WayType ==
  ASSUME NEW path \in Paths, HasName(path)
  PROVE  ParentOf(path) \in Seq(Texts) /\ Components(ParentOf(path)) \in Seq(Texts)
<1>1. /\ path \in Seq(Texts) /\ NameAt(path) \in 1 .. Len(path)
      /\ path # <<Slash>> => ParentOf(path) = SubSeq(path, 1, NameAt(path) - 1)
  BY PathParts
<1>2. ParentOf(path) \in Seq(Texts)
  <2>1. CASE path = <<Slash>>
    BY <1>1, <2>1 DEF ParentOf
  <2>2. CASE path # <<Slash>>
    <3>1. \A i \in 1 .. NameAt(path) - 1 : path[i] \in Texts
      BY <1>1
    <3>2. 1 \in Int /\ NameAt(path) - 1 \in Int
      BY <1>1
    <3> QED BY <1>1, <2>2, <3>1, <3>2, SubSeqProperties
  <2> QED BY <2>1, <2>2
<1> QED BY <1>2, ComponentsType

\* The names of a path are those of its parent and its own.
LEMMA NamesOfPath ==
  ASSUME NEW path \in Paths, HasName(path), path # <<Slash>>
  PROVE  NamesIn(path) = Append(NamesIn(ParentOf(path)), NameOf(path))
<1> DEFINE k    == NameAt(path)
           u(i) == SubSeq(path, 1, i)
           Good(i) == NamesIn(u(i)) = Append(NamesIn(u(k - 1)), path[k])
           S == {n \in Nat : k <= n /\ n <= Len(path) => Good(n)}
<1>1. /\ path \in Seq(Texts) /\ k \in 1 .. Len(path) /\ path[k] # Slash
      /\ \A i \in 1 .. Len(path) : k < i => path[i] = Slash
      /\ NameOf(path) = path[k] /\ ParentOf(path) = u(k - 1)
  BY PathParts
<1>2. Len(path) \in Nat /\ k \in Nat /\ k >= 1
  BY <1>1
<1>3. ASSUME NEW i \in 1 .. Len(path)
      PROVE  u(i - 1) \in Seq(Texts) /\ path[i] \in Texts /\ u(i) = Append(u(i - 1), path[i])
  <2>1. path[i] \in Texts /\ \A j \in 1 .. i - 1 : path[j] \in Texts
    BY <1>1
  <2>2. i - 1 \in Int /\ 1 \in Int
    OBVIOUS
  <2>3. u(i - 1) \in Seq(Texts)
    BY <2>1, <2>2, SubSeqProperties
  <2>4. 1 \in 1 .. Len(path) /\ i \in 1 .. Len(path)
    BY <1>2
  <2>5. u(i) = u(i - 1) \o <<path[i]>>
    BY <1>1, <2>4, SubSeqRecursiveSecond
  <2>6. Append(u(i - 1), path[i]) = u(i - 1) \o <<path[i]>>
    BY <2>1, <2>3, AppendIsConcat
  <2> QED BY <2>1, <2>3, <2>5, <2>6
<1> HIDE DEF k, u
<1>4. 0 \in S
  BY <1>2
<1>5. ASSUME NEW n \in Nat, n \in S PROVE n + 1 \in S
  <2>1. SUFFICES ASSUME k <= n + 1, n + 1 <= Len(path) PROVE Good(n + 1)
    OBVIOUS
  <2> DEFINE i == n + 1
  <2>2. i \in 1 .. Len(path) /\ i - 1 = n
    BY <1>2, <2>1
  <2>3. NamesIn(u(i)) = NextNames(NamesIn(u(i - 1)), path[i])
    <3> HIDE DEF i
    <3> QED BY <1>3, <2>2, NamesAppend
  <2>4. CASE i = k
    <3>1. SUFFICES Good(i)
      OBVIOUS
    <3> HIDE DEF i
    <3> QED BY <1>1, <2>3, <2>4 DEF NextNames
  <2>5. CASE i # k
    <3>1. k < i /\ Good(n)
      BY <1>2, <1>5, <2>1, <2>5
    <3>2. path[i] = Slash
      <4> HIDE DEF i
      <4> QED BY <1>1, <2>2, <3>1
    <3> HIDE DEF i
    <3> QED BY <2>2, <2>3, <3>1, <3>2 DEF NextNames, i
  <2> QED BY <2>4, <2>5
<1> HIDE DEF S
<1>6. Nat \subseteq S
  BY <1>4, <1>5, NatSetInduction
<1>7. Good(Len(path))
  BY <1>1, <1>2, <1>6 DEF S
<1>8. u(Len(path)) = path
  BY <1>1, SubSeqFull DEF u
<1> QED BY <1>1, <1>7, <1>8

LEMMA PathIsRoute ==
  ASSUME NEW path \in Paths, HasName(path), path # <<Slash>>,
         ParentOf(path) # <<>>, ParentOf(path)[1] = Slash
  PROVE  /\ path # <<>> /\ path[1] = Slash
         /\ Components(path) = Append(Components(ParentOf(path)), NameOf(path))
<1> DEFINE k == NameAt(path)
           p == ParentOf(path)
           way == NamesIn(p)
           name == NameOf(path)
<1>1. /\ path \in Seq(Texts) /\ path # <<>> /\ k \in 1 .. Len(path) /\ path[k] # Slash
      /\ name = path[k] /\ p = SubSeq(path, 1, k - 1)
  BY PathParts
<1>2. Len(path) \in Nat /\ k \in Nat /\ k >= 1 /\ k <= Len(path)
  BY <1>1
<1>3. p \in Seq(Texts) /\ Len(p) = k - 1 /\ \A i \in 1 .. k - 1 : p[i] = path[i]
  <2>1. \A i \in 1 .. k - 1 : path[i] \in Texts
    BY <1>1
  <2>2. 1 \in Int /\ k - 1 \in Int
    BY <1>2
  <2> HIDE DEF k, p
  <2>3. /\ p \in Seq(Texts) /\ Len(p) = IF 1 <= k - 1 THEN (k - 1) - 1 + 1 ELSE 0
        /\ \A i \in 1 .. (k - 1) - 1 + 1 : p[i] = path[1 + i - 1]
    BY <1>1, <2>1, <2>2, SubSeqProperties
  <2>4. (k - 1) - 1 + 1 = k - 1 /\ \A i \in 1 .. k - 1 : 1 + i - 1 = i
    BY <1>2
  <2>5. Len(p) = k - 1
    BY <1>2, <2>3
  <2>6. ASSUME NEW i \in 1 .. k - 1 PROVE p[i] = path[i]
    BY <2>3, <2>4
  <2> QED BY <2>3, <2>5, <2>6
<1>4. k >= 2
  <2>1. Len(p) # 0
    <3>1. p # <<>>
      OBVIOUS
    <3> HIDE DEF p
    <3> QED BY <1>3, <3>1, EmptySeq
  <2> HIDE DEF k, p
  <2> QED BY <1>2, <1>3, <2>1
<1>5. path[1] = Slash
  <2>1. 1 \in 1 .. k - 1
    BY <1>2, <1>4
  <2> HIDE DEF k
  <2> QED BY <1>3, <2>1
<1>6. Len(path) > 1 /\ path[2] = Slash <=> Len(p) > 1 /\ p[2] = Slash
  <2>1. CASE k = 2
    <3>1. path[2] # Slash /\ ~(Len(p) > 1)
      <4> HIDE DEF k, p
      <4> QED BY <1>1, <1>3, <2>1
    <3> QED BY <3>1
  <2>2. CASE k # 2
    <3>1. 2 \in 1 .. k - 1 /\ k - 1 > 1 /\ Len(path) > 1
      BY <1>2, <1>4, <2>2
    <3> HIDE DEF k, p
    <3>2. p[2] = path[2] /\ Len(p) > 1
      BY <1>3, <3>1
    <3> QED BY <3>1, <3>2
  <2> QED BY <2>1, <2>2
<1>7. NamesIn(path) = Append(way, name)
  BY NamesOfPath
<1>8. way \in Seq(Texts) /\ name \in Texts /\ <<Empty>> \in Seq(Texts) /\ <<name>> \in Seq(Texts)
  <2>1. name \in Texts /\ <<Empty>> \in Seq(Texts)
    BY <1>1 DEF Texts
  <2>2. <<name>> \in Seq(Texts)
    <3> HIDE DEF name
    <3> QED BY <2>1
  <2> QED BY <1>3, <2>1, <2>2, NamesType
<1>9. <<Empty>> \o Append(way, name) = Append(<<Empty>> \o way, name)
  <2> HIDE DEF way, name
  <2>1. Append(way, name) = way \o <<name>>
    BY <1>8, AppendIsConcat
  <2>2. <<Empty>> \o way \in Seq(Texts)
    BY <1>8, ConcatProperties
  <2>3. Append(<<Empty>> \o way, name) = (<<Empty>> \o way) \o <<name>>
    BY <1>8, <2>2, AppendIsConcat
  <2>4. (<<Empty>> \o way) \o <<name>> = <<Empty>> \o (way \o <<name>>)
    BY <1>8, ConcatAssociative
  <2> QED BY <2>1, <2>3, <2>4
<1>10. Components(path) = Append(Components(p), name)
  <2>1. Components(path) = IF Len(path) > 1 /\ path[2] = Slash
                           THEN <<Empty>> \o NamesIn(path) ELSE NamesIn(path)
    BY DEF Components
  <2>2. Components(p) = IF Len(p) > 1 /\ p[2] = Slash THEN <<Empty>> \o way ELSE way
    BY DEF Components
  <2> HIDE DEF p, way, name
  <2> QED BY <1>6, <1>7, <1>9, <2>1, <2>2
<1> QED BY <1>1, <1>5, <1>10

Way == Components(ParentOf(call.path))

\* The running call is for a name below its directory, which the path leads to;
\* once the entry is written, the name leads to the new inode.
Routed ==
  pc \in {"link", "count"} =>
    /\ call.path \in Paths /\ HasName(call.path) /\ call.name = NameOf(call.path)
    /\ ParentOf(call.path) # <<>> /\ ParentOf(call.path)[1] = Slash
    /\ Resolve(Way) = call.dir /\ call.dir # NULLINUM
    /\ call.type \in {T_REG, T_DIR} /\ inode[call.inum].type = call.type
    /\ pc = "count" => Resolve(Append(Way, call.name)) = call.inum

\* What no step but Link changes.
LEMMA SameNames ==
  ASSUME IInv, SameLooks, NEW s \in Seq(Texts)
  PROVE  WalkIn(inode', s) = WalkIn(inode, s)
BY TreeNow, WalkSame DEF SameLooks

LEMMA WayIsSeq ==
  ASSUME IInv, Routed, pc \in {"link", "count"}
  PROVE  Way \in Seq(Texts) /\ call.name \in Texts /\ Append(Way, call.name) \in Seq(Texts)
<1>1. Way \in Seq(Texts)
  BY WayType DEF Way, Routed
<1>2. call.name \in Texts
  BY TokenSets DEF IInv, Types
<1> QED BY <1>1, <1>2, AppendProperties

\* Link adds the one name of the call.
LEMMA NewName ==
  ASSUME IInv, Routed, Link, NEW s \in Seq(Texts)
  PROVE  /\ WalkIn(inode, Append(Way, call.name)) = NULLINUM
         /\ WalkIn(inode', s) =
              IF s = Append(Way, call.name) THEN call.inum ELSE WalkIn(inode, s)
<1>1. pc = "link" /\ Resolve(Way) = call.dir /\ call.dir # NULLINUM
  BY DEF Link, Routed
<1>2. Way \in Seq(Texts) /\ call.name \in Texts
  BY <1>1, WayIsSeq
<1>3. call.inum \in Inum \ {call.dir, NULLINUM}
  <2> DEFINE d == call.dir
             n == call.inum
  <2>1. n \in Created /\ d < n /\ d \in Inum /\ n \in Inum
    BY <1>1 DEF IInv, Types, CallOK
  <2> HIDE DEF d, n
  <2>2. n # d
    BY <2>1, Numbers
  <2> QED BY <2>1, <2>2 DEF Created, d, n
<1>4. call.dir = WalkIn(inode, Way) /\ Treelike(inode)
  BY <1>1, TreeNow, WalkOf
<1>5. Linked(inode, inode', Texts, Way, call.name, call.inum)
  BY <1>1, <1>2, <1>3, <1>4, LinkLooks DEF Linked
<1> QED BY <1>5, WalkLink

LEMMA RoutedStep == IInv /\ Routed /\ [Next]_vars => Routed'
<1> SUFFICES ASSUME IInv, Routed, [Next]_vars PROVE Routed'
  OBVIOUS
<1>1. ASSUME NEW path \in Paths, NEW type \in {T_REG, T_DIR}, Begin(path, type)
      PROVE  Routed'
  <2>1. PICK n \in Inum :
          /\ inode' = [inode EXCEPT ![n] = [type |-> type, linkcnt |-> 0, dirents |-> <<>>]]
          /\ call' = [path |-> path, type |-> type, dir |-> fs_lookup(ParentOf(path)),
                      name |-> NameOf(path), inum |-> n]
          /\ pc' = "link"
    BY <1>1 DEF Begin, alloc_inode, Unused
  <2> DEFINE p == ParentOf(path)
  <2>2. HasName(path) /\ fs_lookup(p) # NULLINUM
    BY <1>1 DEF Begin, Acceptable
  <2>3. p # <<>> /\ p[1] = Slash /\ fs_lookup(p) = Resolve(Components(p))
    BY <2>2 DEF fs_lookup
  <2>4. Components(p) \in Seq(Texts)
    BY <2>2, WayType
  <2>5. Resolve(Components(p))' = Resolve(Components(p))
    <3>1. SameLooks
      BY <1>1, BeginLooks
    <3>2. WalkIn(inode', Components(p)) = WalkIn(inode, Components(p))
      BY <2>4, <3>1, SameNames
    <3> QED BY <3>2, WalkOf
  <2>6. call'.path = path /\ Way' = Components(p)
    BY <2>1 DEF Way
  <2>7. inode'[n].type = type
    BY <2>1 DEF IInv, Types
  <2>8. Resolve(Way)' = Resolve(Components(p))'
    BY <2>6, WalkOf
  <2>9. /\ call'.name = NameOf(path) /\ call'.dir = fs_lookup(p) /\ call'.type = type
        /\ call'.inum = n
    BY <2>1
  <2> QED BY <2>1, <2>2, <2>3, <2>5, <2>6, <2>7, <2>8, <2>9 DEF Routed
<1>2. ASSUME Link PROVE Routed'
  <2>1. /\ pc = "link" /\ pc' = "count" /\ call' = call
        /\ inode' = [inode EXCEPT ![call.dir].dirents =
                       Append(inode[call.dir].dirents, [name |-> call.name, inum |-> call.inum])]
    BY <1>2 DEF Link
  <2>2. /\ call.path \in Paths /\ HasName(call.path) /\ call.name = NameOf(call.path)
        /\ ParentOf(call.path) # <<>> /\ ParentOf(call.path)[1] = Slash
        /\ Resolve(Way) = call.dir /\ call.dir # NULLINUM
        /\ call.type \in {T_REG, T_DIR} /\ inode[call.inum].type = call.type
    BY <2>1 DEF Routed
  <2>3. Way' = Way
    BY <2>1 DEF Way
  <2> DEFINE all == Append(Way, call.name)
  <2>4. Way \in Seq(Texts) /\ call.name \in Texts /\ all \in Seq(Texts) /\ all # Way
    <3>1. Way \in Seq(Texts) /\ call.name \in Texts /\ all \in Seq(Texts)
      BY <2>1, WayIsSeq
    <3>2. Len(all) = Len(Way) + 1 /\ Len(Way) \in Nat
      BY <3>1, AppendProperties
    <3>3. Len(all) # Len(Way)
      BY <3>2
    <3> QED BY <3>1, <3>3
  <2>5. WalkIn(inode', Way) = WalkIn(inode, Way) /\ WalkIn(inode', all) = call.inum
    BY <1>2, <2>4, NewName
  <2>6. Resolve(Way)' = Resolve(Way) /\ Resolve(Append(Way, call.name))' = call.inum
    BY <2>1, <2>3, <2>5, WalkOf
  <2>7. inode'[call.inum].type = inode[call.inum].type
    BY <2>1 DEF IInv, Types
  <2> QED BY <2>1, <2>2, <2>3, <2>6, <2>7 DEF Routed
<1>3. CASE pc' \in {"idle", "undo"}
  BY <1>3 DEF Routed
<1>4. CASE UNCHANGED <<inode, pc, call>>
  BY <1>4, WalkOf DEF Routed, Way
<1>5. CASE Undo \/ Count \/ LinkFails \/ Crash
  BY <1>3, <1>5 DEF Undo, Count, LinkFails, Crash
<1>6. CASE \E path \in Paths : Refuse(path)
  BY <1>4, <1>6 DEF Refuse
<1>7. CASE UNCHANGED vars
  BY <1>4, <1>7 DEF vars
<1> QED BY <1>1, <1>2, <1>5, <1>6, <1>7 DEF Next, fs_mknod

LEMMA RoutedAlways == Spec => [](IInv /\ Routed)
<1>1. Init => Routed
  BY DEF Init, Routed
<1>2. (IInv /\ Routed) /\ [Next]_vars => (IInv /\ Routed)'
  BY Inductive, RoutedStep
<1> QED BY <1>1, <1>2, InitHolds, PTL DEF Spec

\* When fs_mknod() returns an inode for a path with a name in it, fs_lookup() of
\* that path, with whatever slashes, finds this inode.
THEOREM CreatedAreFound == Spec => CreatedIsFound
<1>1. ASSUME IInv, Routed, Next, NEW path \in Paths \ {<<Slash>>}, Returns(path)
      PROVE  Found(path)
  <2>1. pc = "count" /\ call.path = path /\ ret' # NULLINUM
    BY <1>1 DEF Returns
  <2>2. Count
    <3>1. ~Crash
      BY <2>1 DEF Crash
    <3> QED BY <1>1, <2>1, <3>1 DEF Next, fs_mknod, Refuse, Begin, Link, LinkFails, Undo
  <2>3. /\ HasName(path) /\ call.name = NameOf(path)
        /\ ParentOf(path) # <<>> /\ ParentOf(path)[1] = Slash
        /\ Way = Components(ParentOf(path)) /\ Resolve(Append(Way, call.name)) = call.inum
        /\ inode[call.inum].type = call.type
    <3>1. /\ HasName(call.path) /\ call.name = NameOf(call.path)
          /\ ParentOf(call.path) # <<>> /\ ParentOf(call.path)[1] = Slash
          /\ Resolve(Append(Way, call.name)) = call.inum
          /\ inode[call.inum].type = call.type
      BY <1>1, <2>1 DEF Routed
    <3>2. Way = Components(ParentOf(call.path))
      BY DEF Way
    <3> QED BY <2>1, <3>1, <3>2
  <2>4. /\ path # <<>> /\ path[1] = Slash
        /\ Components(path) = Append(Way, call.name)
    BY <2>3, PathIsRoute
  <2>5. fs_lookup(path)' = Resolve(Components(path))'
    BY <2>4 DEF fs_lookup
  <2>6. WalkIn(inode', Components(path)) = WalkIn(inode, Components(path))
    <3>1. Components(path) \in Seq(Texts)
      BY <2>3, <2>4, PathParts, ComponentsType
    <3>2. SameLooks
      BY <1>1, <2>2, CountLooks
    <3> QED BY <1>1, <3>1, <3>2, SameNames
  <2>7. fs_lookup(path)' = call.inum
    BY <2>3, <2>4, <2>5, <2>6, WalkOf
  <2>8. ret' = call.inum /\ inode'[call.inum].type = inode[call.inum].type
    BY <1>1, <2>2 DEF Count, Counted, IInv, Types
  <2> QED BY <2>3, <2>7, <2>8 DEF Found
<1>2. IInv /\ Routed /\ [Next]_vars
        => [\A path \in Paths \ {<<Slash>>} : Returns(path) => Found(path)]_vars
  BY <1>1
<1> QED BY <1>2, RoutedAlways, PTL DEF CreatedIsFound, Spec

-----------------------------------------------------------------------------
(***************************************************************************)
(* The tree of NameSpec.                                                   *)
(***************************************************************************)

NodesIn(tab) ==
  [r \in {s \in Routes : WalkIn(tab, s) # NULLINUM} |->
     [inum |-> WalkIn(tab, r), type |-> tab[WalkIn(tab, r)].type]]

Nodes ==
  [r \in {s \in Routes : Resolve(s) # NULLINUM} |->
     [inum |-> Resolve(r), type |-> inode[Resolve(r)].type]]

Pending ==
  IF pc \in {"idle", "undo"} THEN {}
  ELSE {[route |-> Append(Components(ParentOf(call.path)), call.name),
         type |-> call.type, inum |-> call.inum]}

LEMMA NodesOf == Nodes = NodesIn(inode) /\ Nodes' = NodesIn(inode')
BY DEF Nodes, NodesIn, Resolve, WalkIn, WalkStep, GoOn, LookIn, dir_lookup, Searched

LEMMA RouteIsSeq ==
  /\ \A r \in Routes : r \in Seq(Tokens) /\ r \in Seq(Texts) /\ Len(r) <= NINODES - 2
  /\ \A r \in Seq(Tokens) : Len(r) <= NINODES - 2 => r \in Routes
<1>1. Routes = UNION {[1 .. k -> Tokens] : k \in 0 .. NINODES - 2}
  BY DEF Routes, Tokens
<1>2. ASSUME NEW r \in Routes
      PROVE  r \in Seq(Tokens) /\ r \in Seq(Texts) /\ Len(r) <= NINODES - 2
  <2>1. PICK k \in 0 .. NINODES - 2 : r \in [1 .. k -> Tokens]
    BY <1>1
  <2>2. k \in Nat /\ k <= NINODES - 2
    BY NamesAssumption
  <2>3. r \in Seq(Tokens) /\ Len(r) = k
    BY <2>1, <2>2
  <2> QED BY <2>2, <2>3, TokenSets, SeqMonotonic
<1>3. ASSUME NEW r \in Seq(Tokens), Len(r) <= NINODES - 2 PROVE r \in Routes
  <2>1. Len(r) \in 0 .. NINODES - 2
    BY <1>3, NamesAssumption
  <2>2. r \in [1 .. Len(r) -> Tokens]
    BY LenProperties
  <2> QED BY <1>1, <2>1, <2>2
<1> QED BY <1>2, <1>3

\* A step that changes no name and no type of what has a name.
LEMMA SameNodes ==
  ASSUME IInv, SameLooks,
         \A n \in Inum : n = ROOTINUM \/ Named(n) => inode'[n].type = inode[n].type
  PROVE  Nodes' = Nodes
<1>1. ASSUME NEW s \in Routes PROVE WalkIn(inode', s) = WalkIn(inode, s)
  BY RouteIsSeq, SameNames
<1>2. ASSUME NEW s \in Routes, WalkIn(inode, s) # NULLINUM
      PROVE  inode'[WalkIn(inode, s)].type = inode[WalkIn(inode, s)].type
  <2>1. Resolve(s) = WalkIn(inode, s)
    BY WalkOf
  <2>2. s \in Seq(Texts)
    BY RouteIsSeq
  <2> QED BY <1>2, <2>1, <2>2, FoundIsNamed
<1>3. NodesIn(inode') = NodesIn(inode)
  BY <1>1, <1>2 DEF NodesIn
<1> QED BY <1>3, NodesOf

\* A name below a directory that is found is no longer than the tree has inodes.
LEMMA RouteFits ==
  ASSUME IInv, NEW s \in Seq(Texts), WalkIn(inode, s) # NULLINUM,
         NEW n \in Inum, WalkIn(inode, s) < n, NEW name \in Tokens
  PROVE  s \in Routes /\ Append(s, name) \in Routes \ {<<>>}
<1> DEFINE d == WalkIn(inode, s)
           t == Append(s, name)
<1>1. s \in Seq(Tokens) /\ d \in Inum /\ d > Len(s)
  BY TreeNow, WalkType
<1>2. t \in Seq(Tokens) /\ Len(t) = Len(s) + 1 /\ t # <<>> /\ Len(s) \in Nat
  BY <1>1, AppendProperties
<1>3. Len(s) <= NINODES - 2 /\ Len(t) <= NINODES - 2
  <2>1. d \in Nat /\ n \in Nat /\ n < NINODES /\ NINODES \in Nat /\ d < n
    BY <1>1, Numbers
  <2> HIDE DEF d, t
  <2> QED BY <1>1, <1>2, <2>1
<1> HIDE DEF t
<1> QED BY <1>1, <1>2, <1>3, RouteIsSeq DEF t

LEMMA FrontOfAppend ==
  ASSUME NEW X, NEW s \in Seq(X), NEW x \in X
  PROVE  NameTree!Front(Append(s, x)) = s
<1> DEFINE t == Append(s, x)
<1>1. t = s \o <<x>> /\ t \in Seq(X) /\ Len(t) = Len(s) + 1 /\ Len(s) \in Nat
  BY AppendIsConcat, AppendProperties
<1>2. NameTree!Front(t) = SubSeq(t, 1, Len(s))
  <2>1. Len(t) - 1 = Len(s)
    BY <1>1
  <2> QED BY <2>1 DEF NameTree!Front
<1>3. SubSeq(t, 1, Len(s)) = s
  <2>1. CASE s = <<>>
    <3>1. Len(s) = 0
      BY <2>1, EmptySeq
    <3> QED BY <2>1, <3>1, SubSeqEmpty
  <2>2. CASE s # <<>>
    <3>1. 1 \in 1 .. Len(s) /\ Len(s) \in 1 .. Len(s)
      BY <2>2, <1>1, EmptySeq
    <3>2. <<x>> \in Seq(X)
      OBVIOUS
    <3>3. SubSeq(s \o <<x>>, 1, Len(s)) = SubSeq(s, 1, Len(s))
      BY <3>1, <3>2, SubSeqOfConcat1
    <3> QED BY <1>1, <3>3, SubSeqFull
  <2> QED BY <2>1, <2>2
<1> QED BY <1>2, <1>3

-----------------------------------------------------------------------------
(***************************************************************************)
(* Every step is a step of NameSpec, or changes no name.                   *)
(***************************************************************************)

LEMMA TreeInit == Init => NameTree!Init
<1> SUFFICES ASSUME Init PROVE NameTree!Init
  OBVIOUS
<1>1. IInv /\ Treelike(inode)
  BY InitHolds, TreeNow
<1>2. \A n \in Inum : \A x : LookIn(inode, n, x) = NULLINUM
  <2>1. \A n \in Inum : DOMAIN inode[n].dirents = {}
    BY DEF Init
  <2> QED BY <2>1, LookNone
<1>3. \A s \in Routes : WalkIn(inode, s) # NULLINUM <=> s = <<>>
  <2>1. ASSUME NEW s \in Routes, s # <<>> PROVE WalkIn(inode, s) = NULLINUM
    <3>1. PICK u \in Seq(Texts), x \in Texts : s = Append(u, x)
      BY <2>1, RouteIsSeq, SequenceEmptyOrAppend
    <3> DEFINE n == WalkIn(inode, u)
    <3>2. WalkIn(inode, s) = GoOn(inode, n, x)
      BY <3>1, WalkAppend
    <3>3. n # NULLINUM => n \in Inum
      BY <1>1, WalkType
    <3> HIDE DEF n
    <3> QED BY <1>2, <3>2, <3>3 DEF GoOn
  <2> QED BY <2>1, WalkEmpty, Numbers
<1>4. <<>> \in Routes
  <2>1. <<>> \in Seq(Tokens) /\ Len(<<>>) = 0
    BY EmptySeq
  <2>2. 0 <= NINODES - 2
    BY NamesAssumption
  <2>3. Len(<<>>) <= NINODES - 2
    BY <2>1, <2>2
  <2> QED BY <2>1, <2>3, RouteIsSeq
<1>5. {s \in Routes : WalkIn(inode, s) # NULLINUM} = {<<>>}
  BY <1>3, <1>4
<1>6. inode[ROOTINUM].type = T_DIR /\ WalkIn(inode, <<>>) = ROOTINUM
  BY Numbers, WalkEmpty DEF Init
<1>7. Nodes = [r \in {<<>>} |-> [inum |-> ROOTINUM, type |-> T_DIR]]
  BY <1>5, <1>6, NodesOf DEF NodesIn
<1>8. Pending = {}
  BY DEF Pending, Init
<1> QED BY <1>7, <1>8 DEF NameTree!Init, Nodes, Pending

\* A step that starts, changes and ends nothing.
LEMMA TreeStutters ==
  ASSUME Nodes' = Nodes, Pending' = Pending
  PROVE  UNCHANGED NameTree!vars
BY DEF NameTree!vars, Nodes, Pending

LEMMA TreeEnd ==
  ASSUME Nodes' = Nodes, Pending # {}, Pending' = {}
  PROVE  NameTree!Next
<1>1. NameTree!End
  BY DEF NameTree!End, Nodes, Pending
<1> QED BY <1>1 DEF NameTree!Next

LEMMA TreeBegin ==
  ASSUME IInv, Routed, NEW path \in Paths, NEW type \in {T_REG, T_DIR}, Begin(path, type)
  PROVE  NameTree!Next
<1>1. PICK n \in Inum :
        /\ inode[n].type = Free /\ \A m \in Inum : inode[m].type = Free => n <= m
        /\ inode' = [inode EXCEPT ![n] = [type |-> type, linkcnt |-> 0, dirents |-> <<>>]]
        /\ call' = [path |-> path, type |-> type, dir |-> fs_lookup(ParentOf(path)),
                    name |-> NameOf(path), inum |-> n]
        /\ pc = "idle" /\ pc' = "link"
  BY DEF Begin, alloc_inode, Unused
<1> DEFINE p == ParentOf(path)
           way == Components(p)
           name == NameOf(path)
           d == fs_lookup(p)
           c == [route |-> Append(way, name), type |-> type, inum |-> n]
<1>2. /\ HasName(path) /\ d \in Directories /\ d # NULLINUM
      /\ dir_lookup(d, name) = NULLINUM
  BY DEF Begin, Acceptable, Duplicate
<1>3. d = Resolve(way)
  BY <1>2 DEF fs_lookup
<1>4. way \in Seq(Texts) /\ name \in Tokens /\ name \in Texts
  BY <1>2, WayType, NameType, TokenSets
<1>5. d = WalkIn(inode, way) /\ LookIn(inode, d, name) = NULLINUM
  <2>1. dir_lookup(d, name) = LookIn(inode, d, name)
    BY DEF dir_lookup, LookIn, Searched
  <2> QED BY <1>2, <1>3, <2>1, WalkOf
<1> HIDE DEF p, way, name, d
<1>6. d \in Inum /\ inode[d].type = T_DIR /\ d < n
  <2>1. d \in Inum /\ inode[d].type = T_DIR
    BY <1>2 DEF Directories
  <2>2. inode[d].type # Free /\ d # n
    BY <1>1, <2>1 DEF Free, T_DIR
  <2>3. ~(n < d)
    BY <1>1, <2>1, <2>2 DEF IInv, Packed
  <2> QED BY <2>1, <2>2, <2>3, Numbers
<1>7. way \in Routes /\ Append(way, name) \in Routes \ {<<>>}
  BY <1>2, <1>4, <1>5, <1>6, RouteFits
<1>8. WalkIn(inode, Append(way, name)) = NULLINUM
  BY <1>4, <1>5, WalkAppend DEF GoOn
<1>9. Nodes' = Nodes
  <2>1. SameLooks
    BY BeginLooks
  <2>2. \A m \in Inum : m = ROOTINUM \/ Named(m) => m # n
    BY <1>1 DEF Named, IInv, EntriesOK, Created, Reserved
  <2>3. \A m \in Inum : m # n => inode'[m] = inode[m]
    BY <1>1 DEF IInv, Types
  <2> QED BY <2>1, <2>2, <2>3, SameNodes
<1>10. ASSUME NEW s \in Routes, WalkIn(inode, s) # NULLINUM PROVE WalkIn(inode, s) # n
  <2>1. s \in Seq(Texts) /\ Resolve(s) = WalkIn(inode, s)
    BY RouteIsSeq, WalkOf
  <2>2. inode[Resolve(s)].type # Free
    BY <1>10, <2>1, FoundIsNamed
  <2> QED BY <1>1, <2>1, <2>2
<1>11. Pending = {} /\ Pending' = {c}
  BY <1>1 DEF Pending, p, way, name
<1>12. c \in NameTree!Calls
  BY <1>7 DEF NameTree!Calls
<1>13. /\ c.route \notin DOMAIN Nodes /\ NameTree!Front(c.route) = way
       /\ way \in DOMAIN Nodes /\ Nodes[way].type = T_DIR
       /\ \A s \in DOMAIN Nodes : Nodes[s].inum # c.inum
  <2>1. NameTree!Front(c.route) = way
    BY <1>4, FrontOfAppend
  <2> HIDE DEF c
  <2>2. DOMAIN NodesIn(inode) = {s \in Routes : WalkIn(inode, s) # NULLINUM}
    BY DEF NodesIn
  <2>3. \A s \in DOMAIN NodesIn(inode) :
           NodesIn(inode)[s] = [inum |-> WalkIn(inode, s), type |-> inode[WalkIn(inode, s)].type]
    BY DEF NodesIn
  <2>4. Nodes = NodesIn(inode)
    BY NodesOf
  <2>5. c.route = Append(way, name) /\ c.inum = n
    BY DEF c
  <2>6. way \in DOMAIN Nodes /\ c.route \notin DOMAIN Nodes
    BY <1>2, <1>5, <1>7, <1>8, <2>2, <2>4, <2>5
  <2>7. Nodes[way].type = T_DIR
    BY <1>5, <1>6, <2>3, <2>4, <2>6
  <2>8. \A s \in DOMAIN Nodes : Nodes[s].inum # c.inum
    BY <1>10, <2>2, <2>3, <2>4, <2>5
  <2> QED BY <2>1, <2>6, <2>7, <2>8
<1> HIDE DEF c
<1>14. NameTree!Begin
  BY <1>9, <1>11, <1>12, <1>13 DEF NameTree!Begin, Nodes, Pending
<1> QED BY <1>14 DEF NameTree!Next

LEMMA TreeLink ==
  ASSUME IInv, Routed, Link
  PROVE  NameTree!Next
<1> DEFINE way == Way
           t   == Append(way, call.name)
           c   == [route |-> t, type |-> call.type, inum |-> call.inum]
<1>1. /\ pc = "link" /\ pc' = "count" /\ call' = call
      /\ inode' = [inode EXCEPT ![call.dir].dirents =
                     Append(inode[call.dir].dirents, [name |-> call.name, inum |-> call.inum])]
  BY DEF Link
<1>2. /\ way \in Seq(Texts) /\ call.name \in Texts /\ t \in Seq(Texts) /\ call.name \in Tokens
      /\ call.dir = WalkIn(inode, way) /\ call.dir # NULLINUM
      /\ call.dir < call.inum /\ call.inum \in Inum /\ call.dir \in Inum
      /\ inode[call.inum].type = call.type
  BY <1>1, WayIsSeq, WalkOf DEF Routed, IInv, Types, CallOK
<1>3. t \in Routes
  BY <1>2, RouteFits
<1>4. \A n \in Inum : inode'[n].type = inode[n].type
  BY <1>1 DEF IInv, Types
<1>5. /\ WalkIn(inode, t) = NULLINUM
      /\ \A s \in Routes : WalkIn(inode', s) = IF s = t THEN call.inum ELSE WalkIn(inode, s)
  <2>1. \A s \in Seq(Texts) : /\ WalkIn(inode, t) = NULLINUM
                              /\ WalkIn(inode', s) = IF s = t THEN call.inum ELSE WalkIn(inode, s)
    BY NewName
  <2>2. \A s \in Routes : s \in Seq(Texts)
    BY RouteIsSeq
  <2> HIDE DEF t
  <2> QED BY <1>2, <2>1, <2>2
<1>6. \A s \in Routes : WalkIn(inode, s) # NULLINUM => WalkIn(inode, s) \in Inum
  BY RouteIsSeq, TreeNow, WalkType
<1>7. call.inum # NULLINUM
  BY <1>1 DEF IInv, CallOK, Created
<1>8. Pending = {c} /\ Pending' = {c}
  BY <1>1 DEF Pending, Way
<1> HIDE DEF way, t
<1> DEFINE D == {s \in Routes : WalkIn(inode, s) # NULLINUM}
<1>9. {s \in Routes : WalkIn(inode', s) # NULLINUM} = D \cup {t}
  BY <1>3, <1>5, <1>7
<1>10. NodesIn(inode') = [s \in D \cup {t} |-> IF s = t THEN [inum |-> call.inum, type |-> call.type]
                                              ELSE NodesIn(inode)[s]]
  <2>1. ASSUME NEW s \in D \cup {t}
        PROVE  [inum |-> WalkIn(inode', s), type |-> inode'[WalkIn(inode', s)].type]
                 = IF s = t THEN [inum |-> call.inum, type |-> call.type] ELSE NodesIn(inode)[s]
    <3>1. CASE s = t
      BY <1>2, <1>3, <1>4, <1>5, <3>1
    <3>2. CASE s # t
      <4>1. s \in D /\ s \in Routes /\ WalkIn(inode', s) = WalkIn(inode, s)
        BY <1>5, <3>2
      <4>2. inode'[WalkIn(inode, s)].type = inode[WalkIn(inode, s)].type
        BY <1>4, <1>6, <4>1
      <4>3. NodesIn(inode)[s] = [inum |-> WalkIn(inode, s), type |-> inode[WalkIn(inode, s)].type]
        BY <4>1 DEF NodesIn
      <4> QED BY <3>2, <4>1, <4>2, <4>3
    <3> QED BY <3>1, <3>2
  <2>2. NodesIn(inode') = [s \in D \cup {t} |-> [inum |-> WalkIn(inode', s), type |-> inode'[WalkIn(inode', s)].type]]
    BY <1>9 DEF NodesIn
  <2> QED BY <2>1, <2>2
<1>11. DOMAIN Nodes = D
  BY NodesOf DEF NodesIn
<1>12. t \notin D
  BY <1>5
<1>13. Nodes' = [s \in DOMAIN Nodes \cup {c.route} |->
                   IF s = c.route THEN [inum |-> c.inum, type |-> c.type] ELSE Nodes[s]]
  BY <1>10, <1>11, NodesOf
<1>14. c \in Pending /\ c.route \notin DOMAIN Nodes /\ Pending' = Pending
  BY <1>8, <1>11, <1>12
<1> HIDE DEF c
<1>15. NameTree!Appear(c) /\ c \in Pending
  BY <1>13, <1>14 DEF NameTree!Appear, Nodes, Pending
<1> QED BY <1>15 DEF NameTree!Next, Pending

LEMMA TreeStep == IInv /\ Routed /\ [Next]_vars => [NameTree!Next]_NameTree!vars
<1> SUFFICES ASSUME IInv, Routed, [Next]_vars PROVE [NameTree!Next]_NameTree!vars
  OBVIOUS
<1>1. inode' = inode => Nodes' = Nodes
  BY NodesOf
<1>2. ASSUME NEW path \in Paths, Refuse(path) PROVE [NameTree!Next]_NameTree!vars
  BY <1>1, <1>2, TreeStutters DEF Refuse, Pending
<1>3. ASSUME NEW path \in Paths, NEW type \in {T_REG, T_DIR}, Begin(path, type)
      PROVE  [NameTree!Next]_NameTree!vars
  BY <1>3, TreeBegin
<1>4. CASE Link
  BY <1>4, TreeLink
<1>5. CASE LinkFails
  <2>1. Pending # {} /\ Pending' = {} /\ inode' = inode
    BY <1>5 DEF LinkFails, Pending
  <2> QED BY <1>1, <2>1, TreeEnd
<1>6. CASE Undo
  <2>1. Pending' = {} /\ Pending = {}
    BY <1>6 DEF Undo, Pending
  <2>2. SameLooks
    BY <1>6, UndoLooks
  <2>3. \A n \in Inum : n = ROOTINUM \/ Named(n) => n # call.inum
    BY <1>6 DEF Undo, IInv, CallOK, Created
  <2>4. \A n \in Inum : n # call.inum => inode'[n] = inode[n]
    BY <1>6 DEF Undo, Freed, IInv, Types
  <2>5. Nodes' = Nodes
    BY <2>2, <2>3, <2>4, SameNodes
  <2> QED BY <2>1, <2>5, TreeStutters
<1>7. CASE Count
  <2>1. Pending' = {} /\ Pending # {}
    BY <1>7 DEF Count, Pending
  <2>2. SameLooks /\ \A n \in Inum : inode'[n].type = inode[n].type
    BY <1>7, CountLooks DEF Count, Counted, IInv, Types
  <2>3. Nodes' = Nodes
    BY <2>2, SameNodes
  <2> QED BY <2>1, <2>3, TreeEnd
<1>8. CASE Crash
  <2>1. Pending' = {} /\ inode' = inode
    BY <1>8 DEF Crash, Pending
  <2>2. CASE Pending = {}
    BY <1>1, <2>1, <2>2, TreeStutters
  <2>3. CASE Pending # {}
    BY <1>1, <2>1, <2>3, TreeEnd
  <2> QED BY <2>2, <2>3
<1>9. CASE UNCHANGED vars
  BY <1>1, <1>9, TreeStutters DEF vars, Pending
<1> QED BY <1>2, <1>3, <1>4, <1>5, <1>6, <1>7, <1>8, <1>9 DEF Next, fs_mknod

\* Seen through fs_lookup(), fs_mknod() adds the one name it was asked for, in one
\* step and below a directory, or does nothing, whatever write a crash interrupts;
\* no other name appears, changes or goes.
THEOREM NamesKept == Spec => NamesAreSafe
BY TreeInit, TreeStep, RoutedAlways, PTL DEF Spec, NamesAreSafe, NameTree!Spec
=============================================================================
