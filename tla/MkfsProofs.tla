------------------------------ MODULE MkfsProofs ------------------------------
(***************************************************************************)
(* Proofs about sessions with mkfs, for every number of names, files of    *)
(* the host, sizes and commands: the directory and the inode table agree,  *)
(* files are copied right, and no file is lost, however often mkfs is      *)
(* stopped.  The superblock found on the partition is blank or one that    *)
(* fs_format() wrote there, as in FsFormatProofs.                          *)
(***************************************************************************)
EXTENDS Mkfs, FsFormatProofs, FiniteSetTheorems, SequenceTheorems, WellFoundedInduction

LEMMA NatSetInduction ==
  ASSUME NEW S, 0 \in S, \A n \in Nat : n \in S => n + 1 \in S
  PROVE  Nat \subseteq S
<1> DEFINE T == Nat \ S
           R == OpToRel(<, Nat)
<1>1. SUFFICES ASSUME T # {}
               PROVE  FALSE
  OBVIOUS
<1>2. IsWellFoundedOn(R, Nat)
  BY NatLessThanWellFounded
<1>3. T \subseteq Nat
  OBVIOUS
<1> HIDE DEF T, R
<1>4. PICK x \in T : \A y \in T : ~(<<y, x>> \in R)
  BY <1>1, <1>2, <1>3, WFMin
<1> USE DEF T
<1>5. x # 0 /\ x \in Nat /\ x - 1 \in Nat
  OBVIOUS
<1>6. <<x - 1, x>> \in R
  BY <1>5 DEF R, OpToRel
<1> QED
  BY <1>4, <1>5, <1>6

-----------------------------------------------------------------------------
(***************************************************************************)
(* The sum of the weights.  It is a fold that takes elements in an order   *)
(* of its own; the order does not matter.                                  *)
(***************************************************************************)
Pick(s) == CHOOSE x \in s : TRUE

Rest(w, h, s) == IF s = {} THEN 0 ELSE w[Pick(s)] + h[s \ {Pick(s)}]

Sums(w, g) == \A s \in SUBSET DOMAIN w : g[s] = Rest(w, g, s)

LEMMA Picked ==
  ASSUME NEW s, IsFiniteSet(s), s # {}
  PROVE  /\ Pick(s) \in s /\ IsFiniteSet(s \ {Pick(s)})
         /\ Cardinality(s \ {Pick(s)}) = Cardinality(s) - 1
<1>1. Pick(s) \in s
  BY DEF Pick
<1> QED BY <1>1, FS_RemoveElement

LEMMA TotalRun ==
  ASSUME NEW w, IsFiniteSet(DOMAIN w)
  PROVE  \E g : Total(w) = g[DOMAIN w] /\ Sums(w, g)
<1> DEFINE D == DOMAIN w
           Small(n) == {s \in SUBSET D : Cardinality(s) <= n}
           Run(n, f) == \A s \in Small(n) : f[s] = Rest(w, f, s)
           S == {n \in Nat : \E f : f = [s \in Small(n) |-> f[s]] /\ Run(n, f)}
<1>1. \A s \in SUBSET D : IsFiniteSet(s) /\ Cardinality(s) \in Nat
  BY FS_Subset, FS_CardinalityType
<1> HIDE DEF D
<1>2. \A s \in SUBSET D : s # {} => s \ {Pick(s)} \in SUBSET D /\ Cardinality(s \ {Pick(s)}) = Cardinality(s) - 1
  BY <1>1, Picked
<1>3. 0 \in S
  <2> DEFINE f == [s \in Small(0) |-> 0]
  <2>1. \A s \in Small(0) : s = {}
    BY <1>1, FS_EmptySet
  <2>2. Run(0, f)
    BY <2>1 DEF Rest
  <2>3. f = [s \in Small(0) |-> f[s]]
    OBVIOUS
  <2> QED BY <2>2, <2>3
<1>4. ASSUME NEW n \in Nat, n \in S PROVE n + 1 \in S
  <2>1. PICK f : f = [s \in Small(n) |-> f[s]] /\ Run(n, f)
    BY <1>4
  <2> DEFINE g == [s \in Small(n + 1) |-> IF s \in Small(n) THEN f[s] ELSE Rest(w, f, s)]
  <2>2. g = [s \in Small(n + 1) |-> g[s]]
    OBVIOUS
  <2>3. ASSUME NEW s \in Small(n + 1) PROVE g[s] = Rest(w, g, s)
    <3>1. g[s] = Rest(w, f, s)
      BY <2>1
    <3>2. CASE s = {}
      <4>1. g[s] = 0 /\ Rest(w, g, s) = 0
        BY <3>1, <3>2 DEF Rest
      <4> QED BY <4>1
    <3>3. CASE s # {}
      <4> DEFINE r == s \ {Pick(s)}
      <4>1. r \in Small(n) /\ r \in Small(n + 1)
        <5>1. s \in SUBSET D /\ Cardinality(s) <= n + 1 /\ Cardinality(s) \in Nat
          BY <1>1
        <5>2. r \in SUBSET D /\ Cardinality(r) = Cardinality(s) - 1
          BY <1>2, <3>3, <5>1
        <5> HIDE DEF r
        <5> QED BY <5>1, <5>2
      <4>2. g[r] = f[r]
        BY <4>1
      <4> HIDE DEF g
      <4> QED BY <3>1, <3>3, <4>2 DEF Rest
    <3> QED BY <3>2, <3>3
  <2> HIDE DEF g
  <2>4. Run(n + 1, g)
    BY <2>3
  <2> HIDE DEF Run, Small
  <2>5. \E h : h = [s \in Small(n + 1) |-> h[s]] /\ Run(n + 1, h)
    BY <2>2, <2>4
  <2> QED BY <2>5
<1> HIDE DEF S
<1>5. Nat \subseteq S
  BY <1>3, <1>4, NatSetInduction
<1>6. D \in SUBSET D /\ Cardinality(D) \in Nat
  BY <1>1
<1>7. Small(Cardinality(D)) = SUBSET D
  BY <1>1, FS_Subset DEF D
<1>8. PICK f : f = [s \in Small(Cardinality(D)) |-> f[s]] /\ Run(Cardinality(D), f)
  BY <1>5, <1>6 DEF S
<1> DEFINE Again(h) == [s \in SUBSET D |-> Rest(w, h, s)]
           g == CHOOSE h : h = Again(h)
<1>9. f = Again(f)
  <2>1. \A s \in SUBSET D : f[s] = Rest(w, f, s)
    BY <1>7, <1>8
  <2>2. f = [s \in SUBSET D |-> f[s]]
    BY <1>7, <1>8
  <2> QED BY <2>1, <2>2
<1>10. g = Again(g)
  <2> HIDE DEF Again
  <2> QED BY <1>9
<1>11. Total(w) = g[D]
  BY DEF Total, MapThenSumSet, MapThenFoldSet, Rest, Pick, D
<1> HIDE DEF g
<1>12. \A s \in SUBSET D : g[s] = Rest(w, g, s)
  BY <1>10
<1> QED BY <1>11, <1>12 DEF D, Sums

LEMMA AnyOrder ==
  ASSUME NEW w, IsFiniteSet(DOMAIN w), \A x \in DOMAIN w : w[x] \in Nat,
         NEW g, Sums(w, g)
  PROVE  \A s \in SUBSET DOMAIN w :
           g[s] \in Nat /\ \A x \in s : g[s] = w[x] + g[s \ {x}]
<1> DEFINE D == DOMAIN w
           Good(s) == g[s] \in Nat /\ \A x \in s : g[s] = w[x] + g[s \ {x}]
           S == {n \in Nat : \A s \in SUBSET D : Cardinality(s) <= n => Good(s)}
<1>1. \A s \in SUBSET D : IsFiniteSet(s) /\ Cardinality(s) \in Nat
  BY FS_Subset, FS_CardinalityType
<1>2. /\ \A x \in D : w[x] \in Nat
      /\ \A s \in SUBSET D : g[s] = Rest(w, g, s)
  BY DEF Sums
<1> HIDE DEF D
<1>3. \A s \in SUBSET D : \A x \in s : s \ {x} \in SUBSET D /\ Cardinality(s \ {x}) = Cardinality(s) - 1
  BY <1>1, FS_RemoveElement
<1>4. ASSUME NEW s \in SUBSET D, s # {}
      PROVE  Pick(s) \in s /\ g[s] = w[Pick(s)] + g[s \ {Pick(s)}]
  BY <1>2, <1>4 DEF Pick, Rest
<1>5. g[{}] = 0
  <2>1. {} \in SUBSET D
    OBVIOUS
  <2> QED BY <1>2, <2>1 DEF Rest
<1>6. Good({})
  BY <1>5
<1>7. 0 \in S
  <2>1. \A s \in SUBSET D : Cardinality(s) <= 0 => s = {}
    BY <1>1, FS_EmptySet
  <2> HIDE DEF Good
  <2> QED BY <1>6, <2>1
<1>8. ASSUME NEW n \in Nat, n \in S PROVE n + 1 \in S
  <2> SUFFICES ASSUME NEW s \in SUBSET D, Cardinality(s) <= n + 1, s # {} PROVE Good(s)
    BY <1>6
  <2>1. \A r \in SUBSET D : Cardinality(r) <= n => Good(r)
    BY <1>8
  <2> HIDE DEF S
  <2> DEFINE y == Pick(s)
  <2>3. y \in s /\ g[s] = w[y] + g[s \ {y}]
    BY <1>4
  <2> HIDE DEF y
  <2>4. \A x \in s : s \ {x} \in SUBSET D /\ Good(s \ {x}) /\ w[x] \in Nat
    <3>1. \A x \in s : s \ {x} \in SUBSET D /\ Cardinality(s \ {x}) <= n
      BY <1>1, <1>3
    <3> HIDE DEF Good
    <3> QED BY <1>2, <2>1, <3>1
  <2>5. g[s] \in Nat
    <3>1. g[s \ {y}] \in Nat /\ w[y] \in Nat
      BY <2>3, <2>4
    <3> QED BY <2>3, <3>1
  <2>6. ASSUME NEW x \in s, x # y PROVE g[s] = w[x] + g[s \ {x}]
    <3> DEFINE r == (s \ {x}) \ {y}
    <3>1. x \in s \ {y} /\ y \in s \ {x} /\ (s \ {y}) \ {x} = r
      BY <2>3, <2>6
    <3> HIDE DEF r
    <3>2. g[s \ {y}] = w[x] + g[r] /\ g[s \ {x}] = w[y] + g[r]
      <4>1. g[s \ {y}] = w[x] + g[(s \ {y}) \ {x}]
        BY <2>3, <2>4, <3>1
      <4>2. g[s \ {x}] = w[y] + g[(s \ {x}) \ {y}]
        BY <2>4, <3>1
      <4> QED BY <3>1, <4>1, <4>2 DEF r
    <3>3. g[r] \in Nat
      <4>1. /\ s \ {y} \in SUBSET D /\ x \in s \ {y} /\ r = (s \ {y}) \ {x}
            /\ Cardinality(s \ {y}) <= n
        BY <1>1, <1>3, <2>3, <2>4, <3>1
      <4>2. r \in SUBSET D /\ Cardinality(r) <= n
        BY <1>1, <1>3, <4>1
      <4> QED BY <2>1, <4>2
    <3>4. w[x] \in Nat /\ w[y] \in Nat
      BY <2>3, <2>4
    <3> QED BY <2>3, <3>2, <3>3, <3>4
  <2> QED BY <2>3, <2>5, <2>6
<1> HIDE DEF S
<1>9. Nat \subseteq S
  BY <1>7, <1>8, NatSetInduction
<1>10. ASSUME NEW s \in SUBSET D PROVE Good(s)
  <2>1. Cardinality(s) \in S /\ Cardinality(s) <= Cardinality(s)
    BY <1>1, <1>9
  <2> HIDE DEF Good
  <2> QED BY <2>1 DEF S
<1> QED BY <1>10 DEF D

LEMMA TotalType ==
  ASSUME NEW w, IsFiniteSet(DOMAIN w), \A x \in DOMAIN w : w[x] \in Nat
  PROVE  Total(w) \in Nat
<1>1. PICK g : Total(w) = g[DOMAIN w] /\ Sums(w, g)
  BY TotalRun
<1>2. DOMAIN w \in SUBSET DOMAIN w
  OBVIOUS
<1> QED BY <1>1, <1>2, AnyOrder

LEMMA TotalAdd ==
  ASSUME NEW w, IsFiniteSet(DOMAIN w), \A x \in DOMAIN w : w[x] \in Nat,
         NEW n, n \notin DOMAIN w,
         NEW v, DOMAIN v = DOMAIN w \cup {n}, v[n] \in Nat, \A x \in DOMAIN w : v[x] = w[x]
  PROVE  Total(v) = v[n] + Total(w)
<1> DEFINE D == DOMAIN w
           E == DOMAIN v
<1>1. IsFiniteSet(E) /\ (\A x \in E : v[x] \in Nat) /\ D \in SUBSET D /\ D \in SUBSET E /\ E \in SUBSET E
  BY FS_AddElement
<1>2. PICK g : Total(w) = g[D] /\ Sums(w, g)
  BY TotalRun
<1>3. PICK h : Total(v) = h[E] /\ Sums(v, h)
  BY <1>1, TotalRun
<1>4. h[E] = v[n] + h[E \ {n}]
  <2>1. \A s \in SUBSET E : h[s] \in Nat /\ \A x \in s : h[s] = v[x] + h[s \ {x}]
    BY <1>1, <1>3, AnyOrder
  <2>2. n \in E
    OBVIOUS
  <2> QED BY <1>1, <2>1, <2>2
<1>5. E \ {n} = D
  OBVIOUS
<1> DEFINE S == {k \in Nat : \A s \in SUBSET D : Cardinality(s) <= k => h[s] = g[s]}
<1>6. \A s \in SUBSET D : IsFiniteSet(s) /\ Cardinality(s) \in Nat /\ s \in SUBSET E
  BY <1>1, FS_Subset, FS_CardinalityType
<1>7. /\ \A x \in D : v[x] = w[x]
      /\ \A s \in SUBSET D : g[s] = Rest(w, g, s)
      /\ \A s \in SUBSET E : h[s] = Rest(v, h, s)
  BY <1>2, <1>3 DEF Sums
<1> HIDE DEF D, E
<1>8. g[{}] = 0 /\ h[{}] = 0
  <2>1. {} \in SUBSET D
    OBVIOUS
  <2> QED BY <1>6, <1>7, <2>1 DEF Rest
<1>9. 0 \in S
  <2>1. \A s \in SUBSET D : Cardinality(s) <= 0 => s = {}
    BY <1>6, FS_EmptySet
  <2> QED BY <1>8, <2>1
<1>10. ASSUME NEW k \in Nat, k \in S PROVE k + 1 \in S
  <2> SUFFICES ASSUME NEW s \in SUBSET D, Cardinality(s) <= k + 1 PROVE h[s] = g[s]
    OBVIOUS
  <2>4. CASE s = {}
    BY <1>8, <2>4
  <2> SUFFICES ASSUME s # {} PROVE h[s] = g[s]
    BY <2>4
  <2> DEFINE r == s \ {Pick(s)}
  <2>1. Pick(s) \in s /\ r \in SUBSET D /\ Cardinality(r) = Cardinality(s) - 1
    BY <1>6, Picked
  <2> HIDE DEF r
  <2>2. h[r] = g[r]
    BY <1>6, <1>10, <2>1
  <2>3. g[s] = w[Pick(s)] + g[r] /\ h[s] = v[Pick(s)] + h[r]
    BY <1>6, <1>7 DEF Rest, r
  <2> QED BY <1>7, <2>1, <2>2, <2>3
<1> HIDE DEF S
<1>11. Nat \subseteq S
  BY <1>9, <1>10, NatSetInduction
<1>12. h[D] = g[D]
  BY <1>1, <1>6, <1>11 DEF S
<1> QED BY <1>2, <1>3, <1>4, <1>5, <1>12

-----------------------------------------------------------------------------
(***************************************************************************)
(* The largest of numbers, and the bytes of a file.                        *)
(***************************************************************************)
LEMMA MaxOf ==
  ASSUME NEW T, T \subseteq Int, IsFiniteSet(T), T # {}
  PROVE  Max(T) \in T /\ \A x \in T : Max(T) >= x
<1> DEFINE Top(U) == \E x \in U : \A y \in U : x >= y
           S == {n \in Nat : \A U \in SUBSET Int : IsFiniteSet(U) /\ Cardinality(U) = n + 1 => Top(U)}
<1>1. \A U \in SUBSET Int : IsFiniteSet(U) => Cardinality(U) \in Nat
  BY FS_CardinalityType
<1>2. ASSUME NEW U \in SUBSET Int, IsFiniteSet(U), NEW x \in U,
             Top(U \ {x}) \/ U \ {x} = {}
      PROVE  Top(U)
  <2>1. CASE U \ {x} = {}
    <3>1. \A y \in U : x >= y
      BY <2>1
    <3> QED BY <3>1
  <2>2. CASE Top(U \ {x})
    <3>1. PICK z \in U \ {x} : \A y \in U \ {x} : z >= y
      BY <2>2
    <3>2. CASE z >= x
      BY <3>1, <3>2
    <3>3. CASE x >= z
      <4>1. \A y \in U : x >= y
        BY <3>1, <3>3
      <4> QED BY <4>1
    <3> QED BY <3>1, <3>2, <3>3
  <2> QED BY <1>2, <2>1, <2>2
<1> HIDE DEF Top
<1>3. 0 \in S
  <2> SUFFICES ASSUME NEW U \in SUBSET Int, IsFiniteSet(U), Cardinality(U) = 0 + 1 PROVE Top(U)
    OBVIOUS
  <2>1. PICK x : U = {x}
    BY FS_Singleton
  <2> QED BY <1>2, <2>1
<1>4. ASSUME NEW n \in Nat, n \in S PROVE n + 1 \in S
  <2> SUFFICES ASSUME NEW U \in SUBSET Int, IsFiniteSet(U), Cardinality(U) = (n + 1) + 1 PROVE Top(U)
    OBVIOUS
  <2>1. U # {}
    BY FS_EmptySet
  <2>2. PICK x \in U : TRUE
    BY <2>1
  <2>3. U \ {x} \in SUBSET Int /\ IsFiniteSet(U \ {x}) /\ Cardinality(U \ {x}) = n + 1
    BY FS_RemoveElement
  <2>4. Top(U \ {x})
    BY <1>4, <2>3
  <2> QED BY <1>2, <2>4
<1> HIDE DEF S
<1>5. Nat \subseteq S
  BY <1>3, <1>4, NatSetInduction
<1>6. Cardinality(T) \in Nat /\ Cardinality(T) # 0
  BY <1>1, FS_EmptySet
<1>7. Cardinality(T) - 1 \in S
  BY <1>5, <1>6
<1>8. (Cardinality(T) - 1) + 1 = Cardinality(T)
  BY <1>6
<1>9. Top(T)
  BY <1>7, <1>8 DEF S
<1> QED BY <1>9 DEF Top, Max

LEMMA Max2 == ASSUME NEW a \in Nat, NEW b \in Nat PROVE Max({a, b}) = IF a >= b THEN a ELSE b
<1>1. {a, b} \subseteq Int /\ IsFiniteSet({a, b}) /\ {a, b} # {}
  <2>1. {a, b} = {a} \cup {b}
    OBVIOUS
  <2>2. IsFiniteSet({a} \cup {b})
    BY FS_Singleton, FS_AddElement
  <2> QED BY <2>1, <2>2
<1> DEFINE m == Max({a, b})
<1>2. m \in {a, b} /\ m >= a /\ m >= b
  BY <1>1, MaxOf
<1> HIDE DEF m
<1>3. m = IF a >= b THEN a ELSE b
  BY <1>2
<1> QED BY <1>3 DEF m

LEMMA FcnIsSeq ==
  ASSUME NEW X, NEW n \in Nat, NEW f \in [1 .. n -> X]
  PROVE  f \in Seq(X) /\ Len(f) = n
<1>1. f \in Seq(X)
  BY SeqDef
<1>2. Len(f) \in Nat /\ 1 .. Len(f) = 1 .. n
  BY <1>1, LenProperties
<1> DEFINE k == Len(f)
<1>3. k = n
  <2> HIDE DEF k
  <2>0. k \in Nat /\ 1 .. k = 1 .. n
    BY <1>2 DEF k
  <2>1. CASE k > n
    <3>1. k \in 1 .. k /\ k \notin 1 .. n
      BY <2>0, <2>1
    <3> QED BY <2>0, <3>1
  <2>2. CASE k < n
    <3>1. n \in 1 .. n /\ n \notin 1 .. k
      BY <2>0, <2>2
    <3> QED BY <2>0, <3>1
  <2> QED BY <2>0, <2>1, <2>2
<1> QED BY <1>1, <1>3

\* The bytes of a file: they are numbers.
Bytes == Seq(Int)

\* c is b with m bytes of buf written over it.
IsOver(c, b, buf, m, off) ==
  /\ c \in Bytes /\ Len(c) = IF Len(b) >= off + m THEN Len(b) ELSE off + m
  /\ \A k \in 1 .. Len(c) :
       c[k] = IF k > off /\ k <= off + m THEN buf[k - off] ELSE IF k <= Len(b) THEN b[k] ELSE 0

LEMMA Overwriting ==
  ASSUME NEW b \in Bytes, NEW buf \in Bytes, NEW m \in 0 .. Len(buf), NEW off \in Nat
  PROVE  /\ IsOver(Overwritten(b, buf, m, off), b, buf, m, off)
         /\ m = 0 => Weight(Overwritten(b, buf, m, off)) = Weight(b)
<1> DEFINE n == IF Len(b) >= off + m THEN Len(b) ELSE off + m
           At(k) == IF k > off /\ k <= off + m THEN buf[k - off] ELSE IF k <= Len(b) THEN b[k] ELSE 0
           c == [k \in 1 .. n |-> At(k)]
<1>1. Len(b) \in Nat /\ Len(buf) \in Nat /\ off + m \in Nat /\ m \in Nat
  BY LenProperties DEF Bytes
<1>2. n \in Nat /\ Max({Len(b), off + m}) = n
  BY <1>1, Max2
<1>3. Overwritten(b, buf, m, off) = c
  BY <1>2 DEF Overwritten
<1>4. \A k \in 1 .. Len(b) : b[k] \in Int
  BY ElementOfSeq DEF Bytes
<1>5. \A k \in 1 .. Len(buf) : buf[k] \in Int
  BY ElementOfSeq DEF Bytes
<1>6. \A k \in 1 .. n : At(k) \in Int
  BY <1>1, <1>2, <1>4, <1>5
<1> HIDE DEF At
<1>7. c \in [1 .. n -> Int]
  BY <1>6
<1>8. c \in Bytes /\ Len(c) = n /\ \A k \in 1 .. n : c[k] = At(k)
  BY <1>2, <1>7, FcnIsSeq DEF Bytes
<1>9. ASSUME m = 0 PROVE Weight(c) = Weight(b)
  <2>1. DOMAIN b = 1 .. Len(b) /\ DOMAIN c = 1 .. n
    BY LenProperties DEF Bytes
  <2>2. n >= Len(b) /\ \A k \in 1 .. n : At(k) = IF k <= Len(b) THEN b[k] ELSE 0
    BY <1>1, <1>2, <1>9 DEF At
  <2> HIDE DEF n
  <2>3. {k \in DOMAIN c : c[k] # 0} = {k \in DOMAIN b : b[k] # 0}
    BY <1>1, <1>2, <1>8, <2>1, <2>2
  <2> HIDE DEF c
  <2> QED BY <2>3 DEF Weight
<1> QED BY <1>3, <1>8, <1>9 DEF At, IsOver

-----------------------------------------------------------------------------
(***************************************************************************)
(* The invariant.                                                          *)
(***************************************************************************)
FileSet == [inode : (Table \ Reserved) \cup {Outside}, type : {T_REG, T_DIR}, bytes : Bytes]
CopySet == [of : Bytes, done : BOOLEAN]
OpSet   == Ops \cup {"none", "open", "copy", "fetch", "panic"}
CmdSet  == [op : OpSet, name : Names \cup {Root} \cup {""}, host : Hosts \cup {""}, off : Nat, sz : Int, pos : Nat]

\* A directory of files.
Tree(t) == DOMAIN t \subseteq Names /\ t \in [DOMAIN t -> FileSet]

\* What the disk is known to hold in each phase: a file system is used only
\* after a format that was never cut short, so the reserved inodes are taken.
Phases ==
  /\ pc \in {"off", "zero", "alloc0", "alloc1", "init", "mounted"}
  /\ formatted \in BOOLEAN /\ crashed \in BOOLEAN
  /\ pc = "mounted" => disk[startlba].su.magic
  /\ ~crashed =>
       /\ pc = "alloc1" => <<sinode, 0>> \notin FreeInodes
       /\ pc \in {"init", "mounted"} \/ (pc = "off" /\ disk[startlba].su.magic) => Reserved \cap FreeInodes = {}
  /\ DOMAIN tree # {} => ~crashed /\ pc \in {"off", "mounted"} /\ disk[startlba].su.magic
  /\ cmd.op # "none" => pc = "mounted" /\ ~crashed /\ last.op = "none"

Shape ==
  /\ Tree(tree)
  /\ source \in [DOMAIN tree -> CopySet] /\ host \in [Hosts -> Bytes]

Sizes ==
  /\ \A n \in DOMAIN tree : Len(tree[n].bytes) <= Longest
  /\ \A h \in Hosts : Len(host[h]) <= Longest
  /\ Used(tree) <= Room

\* b is the start of c; b is what is left of a copy of c.of.
Starts(b, c) == Len(b) <= Len(c) /\ \A k \in 1 .. Len(b) : b[k] = c[k]
CopyOf(b, c) == c.of # Absent => Starts(b, c.of) /\ (c.done => Len(b) = Len(c.of))

Copies == \A n \in DOMAIN tree : CopyOf(tree[n].bytes, source[n])

\* The words a command was given, as long as it is in progress.
Words ==
  /\ cmd \in CmdSet /\ ncmds \in 0 .. MaxCmds
  /\ cmd.op \in {"migrate", "retrieve", "write"} => cmd.name \in Names \cup {Root}
  /\ cmd.op \in {"mkdir", "touch"} => cmd.name \in Names
  /\ cmd.op \in {"migrate", "open", "copy", "retrieve", "fetch"} => cmd.host \in Hosts
  /\ cmd.op \in {"open", "copy"} => cmd.name \in DOMAIN tree
  /\ cmd.op = "fetch" => Found(cmd.name)
  /\ cmd.op = "write" => \E a \in WriteArgs : cmd.off = a.off /\ cmd.sz = a.sz
  /\ cmd.op \in {"migrate", "retrieve"} => cmd.off = 0 /\ cmd.pos = 0

\* While migrate copies, the file is as long as the offset it has come to.
Copying ==
  /\ cmd.op \in {"open", "copy"} =>
       /\ source[cmd.name] = [of |-> host[cmd.host], done |-> FALSE]
       /\ Len(tree[cmd.name].bytes) = cmd.off
  /\ cmd.op = "copy" => host[cmd.host] # Absent

\* While retrieve copies, the file of the host is the start of the file as
\* long as the host has taken every byte.
Fetching ==
  cmd.op = "fetch" =>
    /\ cmd.pos <= cmd.off /\ cmd.off <= Len(Text(cmd.name)) /\ Len(host[cmd.host]) = cmd.pos
    /\ cmd.pos = cmd.off => Starts(host[cmd.host], Text(cmd.name))

Fetched ==
  last.op = "fetch" => last.host \in Hosts /\ Found(last.name) /\ host[last.host] = Text(last.name)

\* What is on the disk and on the host; what the command in progress knows.
Files   == Shape /\ InodesMatch /\ Sizes /\ Copies
Session == Words /\ Copying /\ Fetching /\ Fetched

Inv == IInv /\ Phases /\ Files /\ Session

-----------------------------------------------------------------------------
(***************************************************************************)
(* The length no file outgrows, and the room that files take.              *)
(***************************************************************************)
LEMMA Lengths == Longest \in Nat /\ Cardinality(Names) \in Nat /\ Cardinality(Names) <= Longest
                 /\ (\A a \in WriteArgs : a.off + BUFSZ <= Longest)
                 /\ \A h \in HostFiles, g \in Hosts : Len(h[g]) <= Longest
<1> DEFINE A == {a.off + BUFSZ : a \in WriteArgs}
           B == {Len(h[g]) : h \in HostFiles, g \in Hosts}
           C == {Cardinality(Names)}
           T == C \cup A \cup B
<1> USE SessionAssumption
<1>1. A \subseteq Int
  OBVIOUS
<1>2. B \subseteq Int
  <2>1. \A h \in HostFiles, g \in Hosts : h[g] \in Seq(Int)
    OBVIOUS
  <2>2. \A h \in HostFiles, g \in Hosts : Len(h[g]) \in Int
    BY <2>1, LenProperties
  <2> QED BY <2>2
<1>3. IsFiniteSet(A)
  <2> DEFINE f(a) == a.off + BUFSZ
             F == [a \in WriteArgs |-> f(a)]
  <2>1. F \in Surjection(WriteArgs, A)
    BY DEF Surjection
  <2> HIDE DEF A
  <2> QED BY <2>1, FS_Surjection
<1>4. IsFiniteSet(B)
  <2> DEFINE P == HostFiles \X Hosts
             F == [p \in P |-> Len(p[1][p[2]])]
  <2>1. IsFiniteSet(P)
    BY FS_Product
  <2>2. F \in Surjection(P, B)
    <3>1. \A p \in P : F[p] \in B
      <4> SUFFICES ASSUME NEW p \in P PROVE F[p] \in B
        OBVIOUS
      <4>1. F[p] = Len(p[1][p[2]]) /\ p[1] \in HostFiles /\ p[2] \in Hosts
        OBVIOUS
      <4> QED BY <4>1
    <3>2. F \in [P -> B]
      <4> HIDE DEF P, B
      <4> QED BY <3>1
    <3>3. \A b \in B : \E p \in P : F[p] = b
      <4> SUFFICES ASSUME NEW b \in B PROVE \E p \in P : F[p] = b
        OBVIOUS
      <4>1. PICK h \in HostFiles, g \in Hosts : b = Len(h[g])
        OBVIOUS
      <4>2. <<h, g>> \in P
        OBVIOUS
      <4>3. F[<<h, g>>] = b
        BY <4>1, <4>2
      <4> QED BY <4>2, <4>3
    <3> HIDE DEF F, P, B
    <3> QED BY <3>2, <3>3 DEF Surjection
  <2> HIDE DEF B, F, P
  <2> QED BY <2>1, <2>2, FS_Surjection
<1>0. Cardinality(Names) \in Nat
  BY FS_CardinalityType
<1>5. T \subseteq Int /\ T # {}
  BY <1>0, <1>1, <1>2
<1>6. IsFiniteSet(T)
  <2> HIDE DEF A, B
  <2>1. IsFiniteSet(C \cup A)
    BY <1>3, FS_Singleton, FS_Union
  <2> QED BY <1>4, <2>1, FS_Union
<1>7. Longest = Max(T)
  BY DEF Longest
<1>8. Longest \in T /\ \A x \in T : Longest >= x
  <2> HIDE DEF T
  <2> QED BY <1>5, <1>6, <1>7, MaxOf
<1>9. Longest \in Int
  BY <1>5, <1>8
<1>10. \A a \in WriteArgs : a.off + BUFSZ \in T
  OBVIOUS
<1>11. \A h \in HostFiles, g \in Hosts : Len(h[g]) \in T
  OBVIOUS
<1>12. Cardinality(Names) \in T
  OBVIOUS
<1> HIDE DEF T
<1> QED BY <1>0, <1>5, <1>8, <1>9, <1>10, <1>11, <1>12

LEMMA Weights == \A b \in Bytes : Weight(b) \in Nat
<1> SUFFICES ASSUME NEW b \in Bytes PROVE Weight(b) \in Nat
  OBVIOUS
<1>1. IsFiniteSet(1 .. Len(b)) /\ DOMAIN b = 1 .. Len(b)
  BY LenProperties, FS_Interval DEF Bytes
<1>2. {k \in DOMAIN b : b[k] # 0} \subseteq 1 .. Len(b)
  BY <1>1
<1>3. Cardinality({k \in DOMAIN b : b[k] # 0}) \in Nat
  BY <1>1, <1>2, FS_Subset, FS_CardinalityType
<1> QED BY <1>3 DEF Weight

LEMMA WeightOfEmpty == <<>> \in Bytes /\ Len(<<>>) = 0 /\ Weight(<<>>) = 1
<1>1. {k \in DOMAIN <<>> : <<>>[k] # 0} = {}
  OBVIOUS
<1>2. Cardinality({k \in DOMAIN <<>> : <<>>[k] # 0}) = 0
  BY <1>1, FS_EmptySet
<1> QED BY <1>2 DEF Weight, Bytes

\* What the files of t weigh, each by itself.
W(t) == [n \in DOMAIN t |-> Weight(t[n].bytes)]

LEMMA UsedType ==
  ASSUME NEW t, Tree(t)
  PROVE  /\ Used(t) \in Nat /\ Used(t) = Total(W(t)) /\ DOMAIN W(t) = DOMAIN t
         /\ IsFiniteSet(DOMAIN t) /\ \A n \in DOMAIN t : W(t)[n] = Weight(t[n].bytes) /\ W(t)[n] \in Nat
<1>1. IsFiniteSet(DOMAIN t)
  BY SessionAssumption, FS_Subset DEF Tree
<1>2. DOMAIN W(t) = DOMAIN t /\ Used(t) = Total(W(t))
  BY DEF Used, W
<1>3. \A n \in DOMAIN t : W(t)[n] = Weight(t[n].bytes) /\ W(t)[n] \in Nat
  BY Weights DEF W, FileSet, Tree
<1> QED BY <1>1, <1>2, <1>3, TotalType

LEMMA UsedWith ==
  ASSUME NEW t, Tree(t),
         NEW n \in Names \ DOMAIN t, NEW f \in FileSet, f.bytes = <<>>,
         NEW u, u = With(t, n, f)
  PROVE  DOMAIN u = DOMAIN t \cup {n} /\ u[n] = f /\ Tree(u) /\ Used(u) = Used(t) + 1
<1>1. DOMAIN u = DOMAIN t \cup {n} /\ u[n] = f /\ (\A m \in DOMAIN t : u[m] = t[m])
  BY DEF With
<1>2. Tree(u)
  <2>1. \A m \in DOMAIN u : u[m] \in FileSet
    BY <1>1 DEF Tree
  <2>2. u = [m \in DOMAIN u |-> u[m]]
    BY DEF With
  <2> QED BY <1>1, <2>1, <2>2 DEF Tree
<1>3. W(u)[n] = 1
  BY <1>1, <1>2, UsedType, WeightOfEmpty
<1>4. \A m \in DOMAIN t : W(u)[m] = W(t)[m]
  BY <1>1, <1>2, UsedType
<1>5. Total(W(u)) = W(u)[n] + Total(W(t))
  <2>1. /\ IsFiniteSet(DOMAIN W(t)) /\ \A m \in DOMAIN W(t) : W(t)[m] \in Nat
        /\ n \notin DOMAIN W(t)
    BY UsedType
  <2>2. DOMAIN W(u) = DOMAIN W(t) \cup {n} /\ W(u)[n] \in Nat /\ \A m \in DOMAIN W(t) : W(u)[m] = W(t)[m]
    BY <1>1, <1>2, <1>3, <1>4, UsedType
  <2> QED BY <2>1, <2>2, TotalAdd
<1>6. Used(u) = Used(t) + 1
  BY <1>2, <1>3, <1>5, UsedType
<1> QED BY <1>1, <1>2, <1>6

\* Some of the numbers make no larger sum than all of them.
LEMMA TotalPart ==
  ASSUME NEW w, IsFiniteSet(DOMAIN w), \A x \in DOMAIN w : w[x] \in Nat, w = [x \in DOMAIN w |-> w[x]],
         NEW s \in SUBSET DOMAIN w
  PROVE  Total([x \in s |-> w[x]]) <= Total(w)
<1> DEFINE D == DOMAIN w
           Part(r) == [x \in r |-> w[x]]
           S == {k \in Nat : \A r \in SUBSET D : Cardinality(D \ r) = k => Total(Part(r)) <= Total(w)}
<1>0. IsFiniteSet(D) /\ (\A x \in D : w[x] \in Nat) /\ w = Part(D)
  OBVIOUS
<1> HIDE DEF D
<1>1. \A r \in SUBSET D : IsFiniteSet(r) /\ IsFiniteSet(D \ r) /\ Cardinality(D \ r) \in Nat
  <2>1. \A r \in SUBSET D : IsFiniteSet(r) /\ IsFiniteSet(D \ r)
    BY <1>0, FS_Subset
  <2> QED BY <2>1, FS_CardinalityType
<1>2. \A r \in SUBSET D : DOMAIN Part(r) = r /\ \A x \in r : Part(r)[x] = w[x]
  OBVIOUS
<1>3. \A r \in SUBSET D : Total(Part(r)) \in Nat
  <2> SUFFICES ASSUME NEW r \in SUBSET D PROVE Total(Part(r)) \in Nat
    OBVIOUS
  <2> DEFINE v == Part(r)
  <2>1. IsFiniteSet(DOMAIN v) /\ \A x \in DOMAIN v : v[x] \in Nat
    BY <1>0, <1>1, <1>2
  <2> HIDE DEF v
  <2>2. Total(v) \in Nat
    BY <2>1, TotalType
  <2> QED BY <2>2 DEF v
<1>4. 0 \in S
  <2> SUFFICES ASSUME NEW r \in SUBSET D, Cardinality(D \ r) = 0 PROVE Total(Part(r)) <= Total(w)
    OBVIOUS
  <2>1. D \ r = {}
    BY <1>1, FS_EmptySet
  <2>2. r = D
    BY <2>1
  <2>3. Part(r) = w
    BY <1>0, <2>2
  <2>4. Total(Part(r)) = Total(w)
    BY <2>3
  <2>5. Total(Part(r)) \in Nat
    BY <1>3
  <2> HIDE DEF Part
  <2> QED BY <2>4, <2>5
<1>5. ASSUME NEW k \in Nat, k \in S PROVE k + 1 \in S
  <2> SUFFICES ASSUME NEW r \in SUBSET D, Cardinality(D \ r) = k + 1 PROVE Total(Part(r)) <= Total(w)
    OBVIOUS
  <2>1. D \ r # {}
    BY FS_EmptySet
  <2>2. PICK x \in D \ r : TRUE
    BY <2>1
  <2> DEFINE q == r \cup {x}
             u == Part(r)
             v == Part(q)
  <2>3. q \in SUBSET D /\ D \ q = (D \ r) \ {x}
    OBVIOUS
  <2>4. Cardinality(D \ q) = k
    <3> DEFINE E == D \ r
    <3>1. IsFiniteSet(E) /\ x \in E /\ Cardinality(E) = k + 1
      BY <1>1, <2>1
    <3> HIDE DEF E
    <3>2. Cardinality(E \ {x}) = Cardinality(E) - 1
      BY <3>1, FS_RemoveElement
    <3> QED BY <2>3, <3>1, <3>2 DEF E
  <2>5. Total(v) <= Total(w)
    BY <1>5, <2>3, <2>4
  <2>6. /\ IsFiniteSet(DOMAIN u) /\ (\A y \in DOMAIN u : u[y] \in Nat /\ v[y] = u[y])
        /\ x \notin DOMAIN u /\ DOMAIN v = DOMAIN u \cup {x} /\ v[x] \in Nat
    BY <1>0, <1>1, <1>2, <2>3
  <2>7. Total(u) \in Nat /\ Total(v) \in Nat
    BY <1>3, <2>3
  <2>8. Total(w) \in Nat
    BY <1>0, <1>3
  <2> HIDE DEF u, v
  <2>9. Total(v) = v[x] + Total(u)
    BY <2>6, TotalAdd
  <2>10. Total(u) <= Total(w)
    BY <2>5, <2>6, <2>7, <2>8, <2>9
  <2> QED BY <2>10 DEF u
<1> HIDE DEF S
<1>6. Nat \subseteq S
  BY <1>4, <1>5, NatSetInduction
<1>7. s \in SUBSET D
  BY DEF D
<1>8. Cardinality(D \ s) \in S
  BY <1>1, <1>6, <1>7
<1> QED BY <1>7, <1>8 DEF S

\* A part of the files takes no more room.
LEMMA UsedPart ==
  ASSUME NEW t, Tree(t), NEW u, Tree(u), DOMAIN u \subseteq DOMAIN t,
         \A n \in DOMAIN u : u[n].bytes = t[n].bytes
  PROVE  Used(u) <= Used(t)
<1> DEFINE w == W(t)
<1>1. /\ Used(t) = Total(w) /\ DOMAIN w = DOMAIN t /\ IsFiniteSet(DOMAIN w)
      /\ \A n \in DOMAIN w : w[n] = Weight(t[n].bytes) /\ w[n] \in Nat
  BY UsedType
<1>2. w = [n \in DOMAIN w |-> w[n]]
  BY DEF W
<1>3. W(u) = [n \in DOMAIN u |-> w[n]]
  BY <1>1 DEF W
<1>4. Used(u) = Total([n \in DOMAIN u |-> w[n]])
  BY <1>3, UsedType
<1> HIDE DEF w
<1>5. DOMAIN u \in SUBSET DOMAIN w
  BY <1>1
<1>6. Total([n \in DOMAIN u |-> w[n]]) <= Total(w)
  BY <1>1, <1>2, <1>5, TotalPart
<1> QED BY <1>1, <1>4, <1>6

-----------------------------------------------------------------------------
(***************************************************************************)
(* What the calls of fs.c do: an inode is taken, bytes are stored or read. *)
(***************************************************************************)
LEMMA Taken ==
  ASSUME disk \in [Disk -> Sector], NEW s \in Table, NEW type \in 0 .. 3,
         disk' = [disk EXCEPT ![s[1]].types[s[2]] = type]
  PROVE  /\ disk' \in [Disk -> Sector] /\ disk'[startlba] = disk[startlba]
         /\ \A b \in Disk \ Partition : disk'[b] = disk[b]
         /\ \A t \in Table : disk'[t[1]].types[t[2]] = IF t = s THEN type ELSE disk[t[1]].types[t[2]]
<1>1. s[1] \in Partition /\ s[1] # startlba /\ s[2] \in Slots /\ s = <<s[1], s[2]>>
  BY Layout DEF Table
<1>2. s[1] \in Disk
  BY <1>1, Layout
<1>3. \A b \in Disk : b # s[1] => disk'[b] = disk[b]
  OBVIOUS
<1> DEFINE new == [disk[s[1]] EXCEPT !.types[s[2]] = type]
<1>4. disk[s[1]] \in Sector
  BY <1>2
<1>5. new.types = [disk[s[1]].types EXCEPT ![s[2]] = type] /\ new.su = disk[s[1]].su /\ new \in Sector
  <2>1. disk[s[1]].types \in [Slots -> 0 .. 3]
    BY <1>4 DEF Sector
  <2>2. new.types \in [Slots -> 0 .. 3] /\ new.su = disk[s[1]].su
    BY <1>1, <1>4, <2>1 DEF Sector
  <2>3. new.types = [disk[s[1]].types EXCEPT ![s[2]] = type]
    BY <1>4 DEF Sector
  <2>4. new \in Sector
    BY <1>4, <2>2 DEF Sector
  <2> QED BY <2>2, <2>3, <2>4
<1>6. disk' = [disk EXCEPT ![s[1]] = new]
  OBVIOUS
<1> HIDE DEF new
<1>7. disk' \in [Disk -> Sector] /\ disk'[s[1]] = new
  BY <1>2, <1>5, <1>6
<1>8. disk'[startlba] = disk[startlba] /\ \A b \in Disk \ Partition : disk'[b] = disk[b]
  BY <1>1, <1>3, Layout
<1>9. ASSUME NEW t \in Table
      PROVE  disk'[t[1]].types[t[2]] = IF t = s THEN type ELSE disk[t[1]].types[t[2]]
  <2>1. t[1] \in Disk /\ t[2] \in Slots /\ t = <<t[1], t[2]>>
    BY Layout DEF Table
  <2>2. CASE t[1] # s[1]
    BY <1>3, <2>1, <2>2
  <2>3. CASE t[1] = s[1]
    <3>1. disk[s[1]].types \in [Slots -> 0 .. 3]
      BY <1>4 DEF Sector
    <3>2. disk'[t[1]].types = [disk[s[1]].types EXCEPT ![s[2]] = type]
      BY <1>5, <1>7, <2>3
    <3>3. t = s <=> t[2] = s[2]
      BY <1>1, <2>1, <2>3
    <3>4. disk'[t[1]].types[t[2]] = IF t[2] = s[2] THEN type ELSE disk[t[1]].types[t[2]]
      BY <1>1, <2>1, <2>3, <3>1, <3>2
    <3> QED BY <3>3, <3>4
  <2> QED BY <2>2, <2>3
<1> QED BY <1>7, <1>8, <1>9

LEMMA Cutting == \A sz \in Int : Cut(sz) = IF BUFSZ <= sz THEN BUFSZ ELSE sz
<1> SUFFICES ASSUME NEW sz \in Int PROVE Cut(sz) = IF BUFSZ <= sz THEN BUFSZ ELSE sz
  OBVIOUS
<1> DEFINE T == {BUFSZ, sz}
           Least(x) == x \in T /\ \A y \in T : x <= y
<1>1. BUFSZ \in Nat
  BY SessionAssumption
<1>2. \E x : Least(x)
  <2>1. CASE BUFSZ <= sz
    BY <1>1, <2>1
  <2>2. CASE sz <= BUFSZ
    BY <1>1, <2>2
  <2> QED BY <1>1, <2>1, <2>2
<1>3. Min(T) = CHOOSE x \in T : \A y \in T : x <= y
  BY DEF Min
<1>4. Least(Min(T))
  <2> HIDE DEF T
  <2> QED BY <1>2, <1>3
<1> DEFINE m == Min(T)
<1>5. (m = BUFSZ \/ m = sz) /\ m <= BUFSZ /\ m <= sz
  BY <1>4
<1> HIDE DEF m
<1>6. m = IF BUFSZ <= sz THEN BUFSZ ELSE sz
  BY <1>1, <1>5
<1> QED BY <1>6 DEF Cut, m

\* The bytes of a file are replaced.
LEMMA Changed ==
  ASSUME Tree(tree),
         NEW n \in DOMAIN tree, NEW c \in Bytes
  PROVE  LET u == WithBytes(n, c)
         IN  /\ DOMAIN u = DOMAIN tree /\ Tree(u) /\ u[n].bytes = c
             /\ \A m \in DOMAIN tree : /\ u[m].inode = tree[m].inode /\ u[m].type = tree[m].type
                                       /\ m # n => u[m] = tree[m]
<1> DEFINE u == WithBytes(n, c)
           new == [tree[n] EXCEPT !.bytes = c]
<1>1. u = [tree EXCEPT ![n] = new]
  BY DEF WithBytes
<1>2. tree[n] \in FileSet
  BY DEF Tree
<1>3. new \in FileSet /\ new.bytes = c /\ new.inode = tree[n].inode /\ new.type = tree[n].type
  BY <1>2 DEF FileSet
<1> HIDE DEF u, new
<1>4. DOMAIN u = DOMAIN tree /\ u \in [DOMAIN u -> FileSet] /\ u[n] = new /\ \A m \in DOMAIN tree : m # n => u[m] = tree[m]
  BY <1>1, <1>3 DEF Tree
<1> QED BY <1>3, <1>4 DEF u, Tree

\* fs_write() always ends: at worst it stores nothing.
LEMMA Storing ==
  ASSUME Shape, Used(tree) <= Room, NEW n \in DOMAIN tree, NEW buf \in Bytes, NEW off \in Nat
  PROVE  LET m == Stored(n, buf, off)
         IN  /\ m \in 0 .. Len(buf) /\ Fits(n, buf, m, off)
             /\ Used(WithBytes(n, Overwritten(tree[n].bytes, buf, m, off))) <= Room
<1> DEFINE b == tree[n].bytes
           u == WithBytes(n, Overwritten(b, buf, 0, off))
           T == {k \in 0 .. Len(buf) : Fits(n, buf, k, off)}
<1>1. Len(buf) \in Nat /\ b \in Bytes
  BY LenProperties DEF Bytes, Shape, Tree, FileSet
<1>2. 0 \in 0 .. Len(buf)
  BY <1>1
<1>3. Overwritten(b, buf, 0, off) \in Bytes /\ Weight(Overwritten(b, buf, 0, off)) = Weight(b)
  BY <1>1, <1>2, Overwriting DEF IsOver
<1>4. /\ DOMAIN u = DOMAIN tree /\ u[n].bytes = Overwritten(b, buf, 0, off)
      /\ \A m \in DOMAIN tree : m # n => u[m] = tree[m]
  BY <1>3, Changed DEF Shape
<1>5. Used(u) = Used(tree)
  <2>1. \A m \in DOMAIN tree : Weight(u[m].bytes) = Weight(tree[m].bytes)
    BY <1>3, <1>4
  <2> HIDE DEF u
  <2>2. [m \in DOMAIN u |-> Weight(u[m].bytes)] = [m \in DOMAIN tree |-> Weight(tree[m].bytes)]
    BY <1>4, <2>1
  <2> QED BY <2>2 DEF Used
<1>6. 0 \in T
  BY <1>2, <1>5 DEF Fits
<1>7. T \subseteq Int /\ IsFiniteSet(T)
  <2>1. T \subseteq 0 .. Len(buf) /\ IsFiniteSet(0 .. Len(buf)) /\ 0 .. Len(buf) \subseteq Int
    BY <1>1, FS_Interval
  <2> QED BY <2>1, FS_Subset
<1>8. Stored(n, buf, off) = Max(T)
  BY DEF Stored
<1>9. Stored(n, buf, off) \in T
  <2> HIDE DEF T
  <2> QED BY <1>6, <1>7, <1>8, MaxOf
<1> QED BY <1>9 DEF Fits

-----------------------------------------------------------------------------
(***************************************************************************)
(* One lemma for each kind of step, then one for each command.             *)
(***************************************************************************)
LEMMA SameFiles == Files /\ UNCHANGED <<disk, tree, source, host, scribbled>> => Files'
BY DEF Files, Shape, InodesMatch, Sizes, Copies

LEMMA NewFile ==
  ASSUME Tree(tree), NEW n \in Names \ DOMAIN tree, NEW f \in FileSet, f.bytes = <<>>,
         tree' = With(tree, n, f)
  PROVE  DOMAIN tree' = DOMAIN tree \cup {n} /\ tree'[n] = f /\ Tree(tree') /\ Used(tree') = Used(tree) + 1
<1>1. DOMAIN tree' = DOMAIN tree \cup {n} /\ tree'[n] = f
  BY DEF With
<1>2. Tree(tree')
  BY UsedWith
<1>3. Used(tree') = Used(tree) + 1
  BY UsedWith
<1> QED BY <1>1, <1>2, <1>3

\* A command made a file.
LEMMA Created ==
  ASSUME IInv, Phases, Files, pc = "mounted", ~crashed,
         NEW n \in Names \ DOMAIN tree, NEW type \in {T_REG, T_DIR}, NEW c \in CopySet, ~c.done,
         Creatable(n), Create(n, type), source' = With(source, n, c), UNCHANGED <<host, scribbled>>
  PROVE  /\ Files' /\ DOMAIN tree' = DOMAIN tree \cup {n} /\ (\A m \in DOMAIN tree : tree'[m] = tree[m])
         /\ tree'[n].bytes = <<>> /\ source'[n] = c
<1>1. PICK s \in FreeInodes :
        /\ Take(s, type)
        /\ tree' = With(tree, n, [inode |-> s, type |-> type, bytes |-> <<>>])
  BY DEF Create, Typed
<1>2. s \in Table \ Reserved /\ disk[s[1]].types[s[2]] = 0
  BY <1>1 DEF Phases, FreeInodes
<1>3. PICK f \in FileSet : /\ f.bytes = <<>> /\ f.inode = s /\ f.type = type
                          /\ f = [inode |-> s, type |-> type, bytes |-> <<>>]
  BY <1>2, WeightOfEmpty DEF FileSet
<1>4. tree' = With(tree, n, f)
  BY <1>1, <1>3
<1>5. /\ DOMAIN tree' = DOMAIN tree \cup {n} /\ tree'[n] = f /\ (\A m \in DOMAIN tree : tree'[m] = tree[m])
      /\ Tree(tree') /\ Used(tree') = Used(tree) + 1
  <2>1. Tree(tree)
    BY DEF Files, Shape
  <2>2. \A m \in DOMAIN tree : tree'[m] = tree[m]
    BY <1>4 DEF With
  <2>3. DOMAIN tree' = DOMAIN tree \cup {n} /\ tree'[n] = f /\ Tree(tree') /\ Used(tree') = Used(tree) + 1
    <3>1. f.bytes = <<>> /\ n \in Names \ DOMAIN tree
      BY <1>3
    <3> QED BY <1>4, <2>1, <3>1, NewFile
  <2> QED BY <2>2, <2>3
<1>6. /\ DOMAIN source' = DOMAIN tree' /\ source'[n] = c /\ (\A m \in DOMAIN tree : source'[m] = source[m])
      /\ source' \in [DOMAIN tree' -> CopySet]
  <2>0. DOMAIN source = DOMAIN tree /\ \A m \in DOMAIN tree : source[m] \in CopySet
    BY DEF Files, Shape
  <2>1. DOMAIN source' = DOMAIN tree' /\ source'[n] = c /\ (\A m \in DOMAIN tree : source'[m] = source[m])
    BY <1>5, <2>0 DEF With
  <2>2. \A m \in DOMAIN tree' : source'[m] \in CopySet
    BY <1>5, <2>0, <2>1
  <2>3. source' = [m \in DOMAIN tree' |-> source'[m]]
    BY <1>5, <2>0 DEF With
  <2> QED BY <2>1, <2>2, <2>3
<1>7. Shape'
  BY <1>5, <1>6 DEF Files, Shape
<1>8. \A t \in Table : disk'[t[1]].types[t[2]] = IF t = s THEN type ELSE disk[t[1]].types[t[2]]
  <2>1. disk' = [disk EXCEPT ![s[1]].types[s[2]] = type]
    BY <1>1 DEF Take
  <2>2. disk \in [Disk -> Sector] /\ type \in 0 .. 3 /\ s \in Table
    BY <1>2 DEF IInv, T_REG, T_DIR
  <2> QED BY <2>1, <2>2, Taken
<1>9. InodesMatch'
  <2> SUFFICES ASSUME ~scribbled PROVE InodesMatch'
    BY DEF InodesMatch
  <2>1. \A m \in DOMAIN tree : /\ tree[m].inode \in Table /\ tree[m].inode # s
                               /\ disk[tree[m].inode[1]].types[tree[m].inode[2]] = tree[m].type
    <3>1. \A m \in DOMAIN tree : tree[m] \in FileSet
      BY DEF Files, Shape, Tree
    <3>2. \A m \in DOMAIN tree : tree[m].type # 0
      BY <3>1 DEF FileSet, T_REG, T_DIR
    <3>3. \A m \in DOMAIN tree : /\ tree[m].inode \in Table
                                 /\ disk[tree[m].inode[1]].types[tree[m].inode[2]] = tree[m].type
      BY DEF Files, InodesMatch
    <3> QED BY <1>2, <3>2, <3>3
  <2>2. \A m \in DOMAIN tree : disk'[tree[m].inode[1]].types[tree[m].inode[2]] = tree[m].type
    BY <1>8, <2>1
  <2>3. disk'[s[1]].types[s[2]] = type
    BY <1>2, <1>8
  <2>4. \A m \in DOMAIN tree' : /\ tree'[m].inode \in Table
                                /\ disk'[tree'[m].inode[1]].types[tree'[m].inode[2]] = tree'[m].type
    <3> SUFFICES ASSUME NEW m \in DOMAIN tree'
                 PROVE  /\ tree'[m].inode \in Table
                        /\ disk'[tree'[m].inode[1]].types[tree'[m].inode[2]] = tree'[m].type
      OBVIOUS
    <3>1. CASE m = n
      BY <1>2, <1>3, <1>5, <2>3, <3>1
    <3>2. CASE m \in DOMAIN tree
      BY <1>5, <2>1, <2>2, <3>2
    <3> QED BY <1>5, <3>1, <3>2
  <2>5. ASSUME NEW k \in DOMAIN tree', NEW m \in DOMAIN tree', m # k PROVE tree'[m].inode # tree'[k].inode
    <3>1. \A x, y \in DOMAIN tree : x # y => tree[x].inode # tree[y].inode
      BY DEF Files, InodesMatch
    <3> QED BY <1>3, <1>5, <2>1, <2>5, <3>1
  <2>6. Table' = Table
    BY DEF Table, sinode, slog, sbitmap, Slots
  <2> QED BY <2>4, <2>5, <2>6 DEF InodesMatch
<1>10. Sizes'
  <2>1. Used(tree) \in Nat
    BY UsedType DEF Files, Shape
  <2>2. Used(tree') <= Room
    BY <1>5, <2>1, SessionAssumption DEF Creatable
  <2>3. \A m \in DOMAIN tree' : Len(tree'[m].bytes) <= Longest
    <3>1. Len(tree'[n].bytes) = 0
      BY <1>3, <1>5, WeightOfEmpty
    <3>2. \A m \in DOMAIN tree : Len(tree'[m].bytes) <= Longest
      BY <1>5 DEF Files, Sizes
    <3> QED BY <1>5, <3>1, <3>2, Lengths
  <2> QED BY <2>2, <2>3 DEF Files, Sizes
<1>11. Copies'
  <2>1. \A m \in DOMAIN tree : CopyOf(tree'[m].bytes, source'[m])
    BY <1>5, <1>6 DEF Files, Copies
  <2>2. CopyOf(tree'[n].bytes, source'[n])
    <3>1. tree'[n].bytes = <<>> /\ source'[n] = c
      BY <1>3, <1>5, <1>6
    <3>2. c.of \in Seq(Int)
      BY DEF CopySet, Bytes
    <3>3. Len(c.of) \in Nat /\ Len(<<>>) = 0
      BY <3>2, LenProperties, WeightOfEmpty
    <3>4. Starts(<<>>, c.of)
      BY <3>3 DEF Starts
    <3> QED BY <3>1, <3>4 DEF CopyOf
  <2> QED BY <1>5, <2>1, <2>2 DEF Copies
<1> QED BY <1>3, <1>5, <1>6, <1>7, <1>9, <1>10, <1>11 DEF Files

\* The bytes of a file were replaced.
LEMMA Replaced ==
  ASSUME Files, NEW n \in DOMAIN tree, NEW c \in Bytes, tree' = WithBytes(n, c),
         Len(c) <= Longest, Used(tree') <= Room, UNCHANGED <<disk, host, scribbled>>,
         source' \in [DOMAIN tree -> CopySet], CopyOf(c, source'[n]),
         \A m \in DOMAIN tree \ {n} : source'[m] = source[m]
  PROVE  Files' /\ DOMAIN tree' = DOMAIN tree /\ tree'[n].bytes = c
<1>1. Tree(tree)
  BY DEF Files, Shape
<1>2. /\ DOMAIN tree' = DOMAIN tree /\ Tree(tree') /\ tree'[n].bytes = c
      /\ \A m \in DOMAIN tree : /\ tree'[m].inode = tree[m].inode /\ tree'[m].type = tree[m].type
                                /\ m # n => tree'[m] = tree[m]
  BY <1>1, Changed
<1>3. Shape'
  BY <1>2 DEF Files, Shape
<1>4. InodesMatch'
  <2> SUFFICES ASSUME ~scribbled PROVE InodesMatch'
    BY DEF InodesMatch
  <2>1. \A m \in DOMAIN tree' : /\ tree'[m].inode \in Table
                                /\ disk'[tree'[m].inode[1]].types[tree'[m].inode[2]] = tree'[m].type
    BY <1>2 DEF Files, InodesMatch
  <2>2. \A k, m \in DOMAIN tree' : k # m => tree'[k].inode # tree'[m].inode
    BY <1>2 DEF Files, InodesMatch
  <2> QED BY <2>1, <2>2 DEF InodesMatch
<1>5. Sizes'
  BY <1>2 DEF Files, Sizes
<1>6. Copies'
  BY <1>2 DEF Files, Copies
<1> QED BY <1>2, <1>3, <1>4, <1>5, <1>6 DEF Files

\* A file of the host was replaced.
LEMMA HostReplaced ==
  ASSUME Files, NEW h \in Hosts, NEW c \in Bytes, Len(c) <= Longest, host' = [host EXCEPT ![h] = c],
         UNCHANGED <<disk, tree, source, scribbled>>
  PROVE  Files' /\ host'[h] = c
<1>1. host \in [Hosts -> Bytes]
  BY DEF Files, Shape
<1>2. host' \in [Hosts -> Bytes] /\ host'[h] = c /\ \A g \in Hosts : g # h => host'[g] = host[g]
  BY <1>1
<1> QED BY <1>2 DEF Files, Shape, InodesMatch, Sizes, Copies

\* What is read of a name: it has a length that no file outgrows.
LEMMA Reading ==
  ASSUME Shape, Sizes, NEW n, Found(n)
  PROVE  Text(n) \in Bytes /\ Len(Text(n)) = Shown(n) /\ Shown(n) \in Nat /\ Shown(n) <= Longest
<1>1. CASE Directory(n)
  <2>1. Children(n) \subseteq Names /\ IsFiniteSet(Names)
    BY SessionAssumption DEF Children, Shape, Tree
  <2>2. IsFiniteSet(Children(n)) /\ Cardinality(Children(n)) <= Cardinality(Names)
    BY <2>1, FS_Subset
  <2>3. Cardinality(Children(n)) \in Nat
    BY <2>2, FS_CardinalityType
  <2>4. Shown(n) = Cardinality(Children(n))
    BY <1>1 DEF Shown
  <2>5. Shown(n) \in Nat /\ Shown(n) <= Longest
    BY <2>2, <2>3, <2>4, Lengths
  <2>6. Text(n) \in [1 .. Shown(n) -> Int]
    BY <1>1 DEF Text, Entry
  <2> QED BY <2>5, <2>6, FcnIsSeq DEF Bytes
<1>2. CASE ~Directory(n)
  <2> DEFINE b == tree[n].bytes
  <2>1. n \in DOMAIN tree
    BY <1>2 DEF Found, Directory
  <2>2. b \in Bytes /\ Len(b) \in Nat /\ Len(b) <= Longest /\ MaxFile \in Nat
    BY <2>1, LenProperties, SessionAssumption DEF Shape, Sizes, Tree, FileSet, Bytes
  <2>3. Shown(n) = IF Len(b) <= MaxFile THEN Len(b) ELSE MaxFile
    BY <1>2 DEF Shown
  <2>4. Text(n) = [k \in 1 .. Shown(n) |-> b[k]]
    BY <1>2 DEF Text
  <2> HIDE DEF b
  <2>5. Shown(n) \in Nat /\ Shown(n) <= Longest /\ Shown(n) <= Len(b)
    BY <2>2, <2>3, Lengths
  <2>6. \A k \in 1 .. Shown(n) : b[k] \in Int
    <3> SUFFICES ASSUME NEW k \in 1 .. Shown(n) PROVE b[k] \in Int
      OBVIOUS
    <3>1. k \in 1 .. Len(b)
      BY <2>2, <2>5
    <3> QED BY <2>2, <3>1, ElementOfSeq DEF Bytes
  <2>7. Text(n) \in [1 .. Shown(n) -> Int]
    BY <2>4, <2>6
  <2> QED BY <2>5, <2>7, FcnIsSeq DEF Bytes
<1> QED BY <1>1, <1>2

\* It is the same as long as the files are.
LEMMA SameText ==
  ASSUME UNCHANGED tree
  PROVE  \A n : (Found(n)' <=> Found(n)) /\ Text(n)' = Text(n)
<1>1. \A n : (Found(n)' <=> Found(n)) /\ (Directory(n)' <=> Directory(n)) /\ Children(n)' = Children(n)
  BY DEF Found, Directory, Children
<1>2. \A n : Shown(n)' = Shown(n)
  BY <1>1 DEF Shown
<1> QED BY <1>1, <1>2 DEF Text

\* An entry leads to another inode.
LEMMA Redirected ==
  \A f \in FileSet, s \in (Table \ Reserved) \cup {Outside} :
    LET g == [f EXCEPT !.inode = s] IN g \in FileSet /\ g.type = f.type /\ g.bytes = f.bytes
BY DEF FileSet

\* A directory was written to: what is left of the files.
LEMMA Scribbled ==
  ASSUME Files, NEW d, Scribble(d), UNCHANGED host
  PROVE  Files'
<1>1. PICK hit \in SUBSET Children(d) : \E gone \in SUBSET hit : \E s \in (Table \ Reserved) \cup {Outside} :
        LET left == DOMAIN tree \ (gone \cup UNION {Under(n) : n \in hit}) IN
        /\ tree' = [n \in left |-> IF n \in hit THEN [tree[n] EXCEPT !.inode = s] ELSE tree[n]]
        /\ source' = [n \in left |-> source[n]]
  BY DEF Scribble
<1>2. PICK gone \in SUBSET hit, s \in (Table \ Reserved) \cup {Outside} :
        LET left == DOMAIN tree \ (gone \cup UNION {Under(n) : n \in hit}) IN
        /\ tree' = [n \in left |-> IF n \in hit THEN [tree[n] EXCEPT !.inode = s] ELSE tree[n]]
        /\ source' = [n \in left |-> source[n]]
  BY <1>1
<1> DEFINE left == DOMAIN tree \ (gone \cup UNION {Under(n) : n \in hit})
<1>3. /\ tree' = [n \in left |-> IF n \in hit THEN [tree[n] EXCEPT !.inode = s] ELSE tree[n]]
      /\ source' = [n \in left |-> source[n]] /\ left \subseteq DOMAIN tree
  BY <1>2
<1> HIDE DEF left
<1>4. \A n \in DOMAIN tree : n \in Names /\ tree[n] \in FileSet /\ source[n] \in CopySet
  BY DEF Files, Shape, Tree
<1>5. DOMAIN tree' = left /\ \A n \in left : tree'[n] \in FileSet /\ tree'[n].bytes = tree[n].bytes
  <2>1. DOMAIN tree' = left
    BY <1>3
  <2>2. ASSUME NEW n \in left PROVE tree'[n] \in FileSet /\ tree'[n].bytes = tree[n].bytes
    <3>1. CASE n \in hit
      <4>1. tree'[n] = [tree[n] EXCEPT !.inode = s]
        BY <1>3, <3>1
      <4> QED BY <1>3, <1>4, <4>1, Redirected
    <3>2. CASE n \notin hit
      BY <1>3, <1>4, <3>2
    <3> QED BY <3>1, <3>2
  <2> QED BY <2>1, <2>2
<1>6. Tree(tree')
  <2>1. tree' = [n \in DOMAIN tree' |-> tree'[n]]
    BY <1>3
  <2> QED BY <1>3, <1>4, <1>5, <2>1 DEF Tree
<1>7. source' \in [DOMAIN tree' -> CopySet] /\ \A n \in left : source'[n] = source[n]
  BY <1>3, <1>4, <1>5
<1>8. Shape'
  BY <1>6, <1>7 DEF Files, Shape
<1>9. InodesMatch'
  BY DEF Scribble, InodesMatch
<1>10. Sizes'
  <2>1. Used(tree') <= Used(tree) /\ Used(tree) \in Nat /\ Used(tree') \in Nat
    BY <1>3, <1>5, <1>6, UsedPart, UsedType DEF Files, Shape
  <2>2. Used(tree') <= Room
    BY <2>1, SessionAssumption DEF Files, Sizes
  <2>3. \A n \in DOMAIN tree' : Len(tree'[n].bytes) <= Longest
    BY <1>3, <1>5 DEF Files, Sizes
  <2>4. \A h \in Hosts : Len(host'[h]) <= Longest
    BY DEF Files, Sizes
  <2> QED BY <2>2, <2>3, <2>4 DEF Sizes
<1>11. Copies'
  BY <1>3, <1>5, <1>7 DEF Files, Copies
<1> QED BY <1>8, <1>9, <1>10, <1>11 DEF Files

\* A command that is done, one that goes on, and what they know.
\* No command.
LEMMA Nothing == NoCmd \in CmdSet /\ NoCmd.op = "none" /\ NoCmd.name = ""
<1> DEFINE N == Names \cup {Root} \cup {""}
           H == Hosts \cup {""}
<1>1. "none" \in OpSet /\ "" \in N /\ "" \in H /\ 0 \in Nat /\ 0 \in Int
  BY DEF OpSet
<1>2. NoCmd.op = "none" /\ NoCmd.name = ""
  BY DEF NoCmd
<1> HIDE DEF N, H
<1>3. NoCmd \in [op : OpSet, name : N, host : H, off : Nat, sz : Int, pos : Nat]
  BY <1>1 DEF NoCmd
<1>4. CmdSet = [op : OpSet, name : N, host : H, off : Nat, sz : Int, pos : Nat]
  BY DEF CmdSet, N, H
<1> QED BY <1>2, <1>3, <1>4

LEMMA Returned == \A ok \in BOOLEAN : Words /\ cmd.op # "none" /\ ncmds' = ncmds /\ Return(ok) =>
                    Words' /\ cmd'.op = "none" /\ (ok => last' = cmd) /\ (~ok => last'.op = "failed")
<1> SUFFICES ASSUME NEW ok \in BOOLEAN, Words, cmd.op # "none", ncmds' = ncmds, Return(ok)
             PROVE  Words' /\ cmd'.op = "none" /\ (ok => last' = cmd) /\ (~ok => last'.op = "failed")
  OBVIOUS
<1>1. cmd' = NoCmd /\ last' = [cmd EXCEPT !.op = IF ok THEN @ ELSE "failed"] /\ cmd \in CmdSet
  BY DEF Return, Words
<1>2. Words'
  <2>1. NoCmd \in CmdSet /\ NoCmd.op = "none" /\ NoCmd.name = ""
    BY Nothing
  <2>3. cmd' \in CmdSet /\ cmd'.op = "none" /\ cmd'.name = ""
    BY <1>1, <2>1
  <2>2. ncmds' \in 0 .. MaxCmds
    BY DEF Words
  <2> QED BY <2>2, <2>3 DEF Words
<1> QED BY <1>1, <1>2 DEF NoCmd, CmdSet

\* A name of "Names" for the commands that are given one.
LEMMA Went == \A op \in OpSet : cmd \in CmdSet /\ Go(op) =>
                /\ cmd' \in CmdSet /\ cmd'.op = op /\ cmd'.name = cmd.name /\ cmd'.host = cmd.host
                /\ cmd'.off = cmd.off /\ cmd'.sz = cmd.sz /\ cmd'.pos = cmd.pos /\ last' = last
BY DEF Go, CmdSet

LEMMA Marked == \A d \in CopySet : LET e == [d EXCEPT !.done = TRUE] IN e \in CopySet /\ e.of = d.of /\ e.done
BY DEF CopySet

LEMMA Successor == \A x \in Nat : x + 1 \in Nat
OBVIOUS

LEMMA Advanced == cmd \in CmdSet /\ cmd' = [cmd EXCEPT !.off = @ + 1] =>
                    /\ cmd' \in CmdSet /\ cmd'.op = cmd.op /\ cmd'.name = cmd.name /\ cmd'.host = cmd.host
                    /\ cmd'.off = cmd.off + 1 /\ cmd'.sz = cmd.sz /\ cmd'.pos = cmd.pos
<1> SUFFICES ASSUME cmd \in CmdSet, NEW k \in Nat, cmd' = [cmd EXCEPT !.off = k]
             PROVE  /\ cmd' \in CmdSet /\ cmd'.op = cmd.op /\ cmd'.name = cmd.name /\ cmd'.host = cmd.host
                    /\ cmd'.off = k /\ cmd'.sz = cmd.sz /\ cmd'.pos = cmd.pos
  <2>1. cmd \in CmdSet => cmd.off \in Nat
    BY DEF CmdSet
  <2> QED BY <2>1, Successor
<1> QED BY DEF CmdSet

LEMMA AdvancedBoth == cmd \in CmdSet /\ cmd' = [cmd EXCEPT !.off = @ + 1, !.pos = @ + 1] =>
                        /\ cmd' \in CmdSet /\ cmd'.op = cmd.op /\ cmd'.name = cmd.name /\ cmd'.host = cmd.host
                        /\ cmd'.off = cmd.off + 1 /\ cmd'.sz = cmd.sz /\ cmd'.pos = cmd.pos + 1
<1> SUFFICES ASSUME cmd \in CmdSet, NEW k \in Nat, NEW p \in Nat, cmd' = [cmd EXCEPT !.off = k, !.pos = p]
             PROVE  /\ cmd' \in CmdSet /\ cmd'.op = cmd.op /\ cmd'.name = cmd.name /\ cmd'.host = cmd.host
                    /\ cmd'.off = k /\ cmd'.sz = cmd.sz /\ cmd'.pos = p
  <2>1. cmd \in CmdSet => cmd.off \in Nat /\ cmd.pos \in Nat
    BY DEF CmdSet
  <2> QED BY <2>1, Successor
<1> QED BY DEF CmdSet

LEMMA Ends ==
  ASSUME Words, cmd.op # "none", ncmds' = ncmds,
         NEW ok \in BOOLEAN, Return(ok), ok => cmd.op # "fetch"
  PROVE  Session'
<1>1. Words' /\ cmd'.op = "none" /\ (ok => last' = cmd) /\ (~ok => last'.op = "failed")
  BY Returned
<1>2. last'.op # "fetch"
  BY <1>1
<1> QED BY <1>1, <1>2 DEF Session, Copying, Fetching, Fetched

LEMMA PanicWords == cmd \in CmdSet /\ cmd' = [cmd EXCEPT !.op = "panic"] =>
                      cmd'.op = "panic" /\ cmd'.off = cmd.off /\ cmd'.sz = cmd.sz /\ cmd'.name = cmd.name
BY DEF CmdSet

LEMMA Panics ==
  ASSUME Words, last.op = "none", ncmds' = ncmds, cmd' = [cmd EXCEPT !.op = "panic"], last' = last
  PROVE  Session'
<1>1. Go("panic") /\ cmd \in CmdSet /\ "panic" \in OpSet
  BY DEF Go, Words, OpSet
<1>2. cmd' \in CmdSet /\ cmd'.op = "panic" /\ last' = last
  BY <1>1, Went
<1>3. Words'
  BY <1>2 DEF Words
<1> QED BY <1>2, <1>3 DEF Session, Copying, Fetching, Fetched

LEMMA InCommand == Inv /\ pc = "mounted" /\ cmd.op # "none" =>
                     Words /\ ~crashed /\ last.op = "none" /\ cmd \in CmdSet
BY DEF Inv, Phases, Session, Words

LEMMA TellStep == Inv /\ Tell => (Files /\ Session)'
<1> SUFFICES ASSUME Inv, Tell PROVE (Files /\ Session)'
  OBVIOUS
<1>1. /\ cmd.op # "none" /\ pc = "mounted" /\ Return(FALSE) /\ ncmds' = ncmds
      /\ UNCHANGED <<disk, tree, source, host, scribbled>>
  BY DEF Tell, Running, kept, fixed
<1>2. Words /\ Files'
  BY <1>1, InCommand, SameFiles DEF Inv
<1> QED BY <1>1, <1>2, Ends

LEMMA MknodStep == Inv /\ Mknod => (Files /\ Session)'
<1> SUFFICES ASSUME Inv, Mknod PROVE (Files /\ Session)'
  OBVIOUS
<1>1. cmd.op \in {"mkdir", "touch"} /\ pc = "mounted" /\ ncmds' = ncmds /\ UNCHANGED <<host, scribbled>>
  BY DEF Mknod, Running, kept, fixed
<1>2. Words /\ ~crashed /\ cmd.name \in Names /\ Files /\ Phases /\ IInv
  BY <1>1, InCommand DEF Words, Inv
<1>3. CASE UNCHANGED <<disk, tree, source>> /\ Return(FALSE)
  BY <1>1, <1>2, <1>3, SameFiles, Ends
<1>4. CASE /\ ~Found(cmd.name) /\ Creatable(cmd.name)
           /\ Create(cmd.name, IF cmd.op = "mkdir" THEN T_DIR ELSE T_REG)
           /\ source' = With(source, cmd.name, NoCopy)
           /\ Return(TRUE)
  <2>1. PICK type \in {T_REG, T_DIR} : Create(cmd.name, type)
    BY <1>4
  <2>2. NoCopy \in CopySet /\ ~NoCopy.done
    BY DEF NoCopy, CopySet, Bytes, Absent
  <2>3. Files'
    BY <1>1, <1>2, <1>4, <2>1, <2>2, Created DEF Found
  <2>4. Session'
    BY <1>1, <1>2, <1>4, Ends
  <2> QED BY <2>3, <2>4
<1> QED BY <1>3, <1>4 DEF Mknod

LEMMA MigrateCreateStep == Inv /\ MigrateCreate => (Files /\ Session)'
<1> SUFFICES ASSUME Inv, MigrateCreate PROVE (Files /\ Session)'
  OBVIOUS
<1>1. /\ cmd.op = "migrate" /\ pc = "mounted" /\ ncmds' = ncmds /\ UNCHANGED <<host, scribbled>>
      /\ ~Found(cmd.name) /\ Creatable(cmd.name) /\ Create(cmd.name, T_REG)
      /\ source' = With(source, cmd.name, [of |-> host[cmd.host], done |-> FALSE]) /\ Go("open")
  BY DEF MigrateCreate, Running, kept, fixed
<1>2. /\ Words /\ ~crashed /\ cmd.name \in Names \ DOMAIN tree /\ cmd.host \in Hosts /\ cmd.off = 0 /\ Files
      /\ Phases /\ IInv /\ last.op = "none" /\ cmd \in CmdSet
  BY <1>1, InCommand DEF Words, Inv, Found
<1> DEFINE c == [of |-> host[cmd.host], done |-> FALSE]
<1>3. c \in CopySet /\ ~c.done
  BY <1>2 DEF CopySet, Files, Shape
<1>4. source' = With(source, cmd.name, c)
  BY <1>1
<1> HIDE DEF c
<1>5. Files' /\ DOMAIN tree' = DOMAIN tree \cup {cmd.name} /\ tree'[cmd.name].bytes = <<>> /\ source'[cmd.name] = c
  BY <1>1, <1>2, <1>3, <1>4, Created
<1>6. /\ cmd' \in CmdSet /\ cmd'.op = "open" /\ cmd'.name = cmd.name /\ cmd'.host = cmd.host /\ cmd'.off = 0
      /\ last' = last
  BY <1>1, <1>2, Went DEF OpSet
<1>7. Words'
  BY <1>1, <1>2, <1>5, <1>6 DEF Words
<1>8. Copying'
  BY <1>1, <1>5, <1>6, WeightOfEmpty DEF Copying, c
<1> QED BY <1>2, <1>5, <1>6, <1>7, <1>8 DEF Session, Fetching, Fetched

LEMMA MigratePanicStep == Inv /\ MigratePanic => (Files /\ Session)'
<1> SUFFICES ASSUME Inv, MigratePanic PROVE (Files /\ Session)'
  OBVIOUS
<1>1. /\ cmd.op # "none" /\ pc = "mounted" /\ ncmds' = ncmds /\ UNCHANGED <<disk, tree, source, host, scribbled>>
      /\ cmd' = [cmd EXCEPT !.op = "panic"] /\ last' = last
  BY DEF MigratePanic, Running, kept, fixed, Go
<1> QED BY <1>1, InCommand, SameFiles, Panics DEF Inv

LEMMA MigrateOpenStep == Inv /\ MigrateOpen => (Files /\ Session)'
<1> SUFFICES ASSUME Inv, MigrateOpen PROVE (Files /\ Session)'
  OBVIOUS
<1>1. /\ cmd.op = "open" /\ pc = "mounted" /\ ncmds' = ncmds /\ UNCHANGED <<disk, tree, source, host, scribbled>>
  BY DEF MigrateOpen, Running, kept, fixed
<1>2. Words /\ Files' /\ last.op = "none" /\ cmd \in CmdSet
  BY <1>1, InCommand, SameFiles DEF Inv
<1>3. CASE Return(FALSE)
  BY <1>1, <1>2, <1>3, Ends
<1>4. CASE host[cmd.host] # Absent /\ Go("copy")
  <2>1. /\ cmd' \in CmdSet /\ cmd'.op = "copy" /\ cmd'.name = cmd.name /\ cmd'.host = cmd.host /\ cmd'.off = cmd.off
        /\ last' = last
    BY <1>2, <1>4, Went DEF OpSet
  <2>2. Words'
    BY <1>1, <1>2, <2>1 DEF Words
  <2>3. Copying'
    BY <1>1, <1>4, <2>1 DEF Copying, Inv, Session
  <2> QED BY <1>2, <2>1, <2>2, <2>3 DEF Session, Fetching, Fetched
<1> QED BY <1>3, <1>4 DEF MigrateOpen

LEMMA MigrateByteStep == Inv /\ MigrateByte => (Files /\ Session)'
<1> SUFFICES ASSUME Inv, MigrateByte PROVE (Files /\ Session)'
  OBVIOUS
<1> DEFINE n == cmd.name
           h == cmd.host
           b == tree[n].bytes
           t == host[h]
           buf == <<t[cmd.off + 1]>>
           m == Stored(n, buf, cmd.off)
           c == Overwritten(b, buf, m, cmd.off)
<1>1. /\ cmd.op = "copy" /\ pc = "mounted" /\ ncmds' = ncmds /\ UNCHANGED <<disk, host, last, source, scribbled>>
      /\ cmd.off < Len(t) /\ tree' = WithBytes(n, c)
      /\ cmd' = IF m = 1 THEN [cmd EXCEPT !.off = @ + 1] ELSE [cmd EXCEPT !.op = "panic"]
  BY DEF MigrateByte, Running, kept, fixed, Position
<1>2. /\ Words /\ last.op = "none" /\ cmd \in CmdSet /\ n \in DOMAIN tree /\ h \in Hosts /\ n \in Names
      /\ Files /\ cmd.off \in Nat
  BY <1>1, InCommand DEF Words, Inv, CmdSet, Files, Shape, Tree
<1>3. source[n] = [of |-> t, done |-> FALSE] /\ Len(b) = cmd.off /\ t # Absent
  BY <1>1 DEF Inv, Session, Copying
<1>4. b \in Bytes /\ t \in Bytes /\ Len(t) \in Nat /\ Len(t) <= Longest
  BY <1>2, LenProperties DEF Files, Shape, Sizes, Tree, FileSet, Bytes
<1>5. buf \in Bytes /\ Len(buf) = 1 /\ buf[1] = t[cmd.off + 1]
  <2>1. t[cmd.off + 1] \in Int
    BY <1>1, <1>2, <1>4, ElementOfSeq DEF Bytes
  <2> HIDE DEF t
  <2> QED BY <2>1 DEF Bytes
<1> HIDE DEF buf
<1>6. m \in 0 .. 1 /\ Used(tree') <= Room
  BY <1>1, <1>2, <1>5, Storing DEF Files, Sizes
<1> HIDE DEF m
<1>7. /\ c \in Bytes /\ Len(c) = cmd.off + m
      /\ \A k \in 1 .. Len(c) : c[k] = IF k > cmd.off /\ k <= cmd.off + m THEN buf[k - cmd.off]
                                       ELSE IF k <= Len(b) THEN b[k] ELSE 0
  <2>1. m \in 0 .. Len(buf)
    BY <1>5, <1>6
  <2>2. IsOver(c, b, buf, m, cmd.off)
    <3> HIDE DEF b
    <3> QED BY <1>2, <1>4, <1>5, <2>1, Overwriting
  <2> HIDE DEF c, b
  <2>3. Len(c) = cmd.off + m
    BY <1>2, <1>3, <1>6, <2>2 DEF IsOver
  <2> QED BY <2>2, <2>3 DEF IsOver
<1> HIDE DEF c
<1>8. Starts(b, t)
  BY <1>2, <1>3 DEF Files, Copies, CopyOf
<1>9. Starts(c, t)
  <2>1. Len(c) <= Len(t)
    BY <1>1, <1>2, <1>4, <1>6, <1>7
  <2>2. ASSUME NEW k \in 1 .. Len(c) PROVE c[k] = t[k]
    <3>1. k \in Nat /\ k >= 1 /\ k <= cmd.off + m
      BY <1>2, <1>6, <1>7
    <3>2. CASE k <= cmd.off
      <4>1. c[k] = b[k] /\ k \in 1 .. Len(b)
        BY <1>2, <1>3, <1>7, <3>1, <3>2
      <4> QED BY <1>8, <4>1 DEF Starts
    <3>3. CASE k > cmd.off
      <4>1. k = cmd.off + 1 /\ k - cmd.off = 1
        BY <1>2, <1>6, <3>1, <3>3
      <4>2. c[k] = buf[1]
        BY <1>7, <3>1, <3>3, <4>1
      <4> QED BY <1>5, <4>1, <4>2
    <3> QED BY <1>2, <3>1, <3>2, <3>3
  <2> QED BY <2>1, <2>2 DEF Starts
<1>10. Files' /\ DOMAIN tree' = DOMAIN tree /\ tree'[n].bytes = c
  <2>1. Len(c) <= Longest
    BY <1>4, <1>9, <1>7, <1>2, <1>6, Lengths DEF Starts
  <2>2. source' \in [DOMAIN tree -> CopySet]
    BY <1>1, <1>2 DEF Files, Shape
  <2>3. CopyOf(c, source'[n])
    BY <1>1, <1>3, <1>9 DEF CopyOf
  <2> QED BY <1>1, <1>2, <1>6, <1>7, <2>1, <2>2, <2>3, Replaced
<1>11. CASE m = 1
  <2>0. cmd' = [cmd EXCEPT !.off = @ + 1]
    BY <1>1, <1>11
  <2>1. /\ cmd' \in CmdSet /\ cmd'.op = "copy" /\ cmd'.name = n /\ cmd'.host = h /\ cmd'.off = cmd.off + 1
    BY <1>1, <1>2, <2>0, Advanced
  <2>2. Words'
    BY <1>1, <1>2, <1>10, <2>1 DEF Words
  <2>3. Copying'
    BY <1>1, <1>3, <1>7, <1>10, <1>11, <2>1 DEF Copying
  <2> QED BY <1>1, <1>2, <1>10, <2>1, <2>2, <2>3 DEF Session, Fetching, Fetched
<1>12. CASE m # 1
  BY <1>1, <1>2, <1>10, <1>12, Panics
<1> QED BY <1>11, <1>12

LEMMA MigrateEndStep == Inv /\ MigrateEnd => (Files /\ Session)'
<1> SUFFICES ASSUME Inv, MigrateEnd PROVE (Files /\ Session)'
  OBVIOUS
<1> DEFINE n == cmd.name
<1>1. /\ cmd.op = "copy" /\ pc = "mounted" /\ ncmds' = ncmds /\ UNCHANGED <<disk, tree, host, scribbled>>
      /\ cmd.off >= Len(host[cmd.host]) /\ source' = [source EXCEPT ![n].done = TRUE] /\ Return(TRUE)
  BY DEF MigrateEnd, Running, kept, fixed
<1>2. Words /\ n \in DOMAIN tree /\ Files /\ cmd.off \in Nat /\ cmd.host \in Hosts
  BY <1>1, InCommand DEF Words, Inv, CmdSet
<1>3. source[n] = [of |-> host[cmd.host], done |-> FALSE] /\ Len(tree[n].bytes) = cmd.off /\ host[cmd.host] # Absent
  BY <1>1 DEF Inv, Session, Copying
<1>4. /\ source' \in [DOMAIN tree -> CopySet] /\ source'[n].of = host[cmd.host]
      /\ \A k \in DOMAIN tree : k # n => source'[k] = source[k]
  <2>1. source \in [DOMAIN tree -> CopySet] /\ source[n] \in CopySet
    BY <1>2 DEF Files, Shape
  <2>2. PICK d \in CopySet : d = [source[n] EXCEPT !.done = TRUE] /\ d.of = source[n].of
    BY <2>1, Marked
  <2>3. source' = [source EXCEPT ![n] = d]
    BY <1>1, <2>2
  <2>4. d.of = host[cmd.host]
    BY <1>3, <2>2
  <2> QED BY <1>2, <2>1, <2>3, <2>4
<1>5. CopyOf(tree[n].bytes, source'[n])
  <2>1. Starts(tree[n].bytes, host[cmd.host])
    BY <1>2, <1>3 DEF Files, Copies, CopyOf
  <2>2. Len(host[cmd.host]) \in Nat
    BY <1>2, LenProperties DEF Files, Shape, Bytes
  <2>3. Len(tree[n].bytes) = Len(host[cmd.host])
    BY <1>1, <1>2, <1>3, <2>1, <2>2 DEF Starts
  <2> QED BY <1>4, <2>1, <2>3 DEF CopyOf
<1>6. Files'
  BY <1>1, <1>2, <1>4, <1>5, ZenonT(60) DEF Files, Shape, InodesMatch, Sizes, Copies
<1> QED BY <1>1, <1>2, <1>6, Ends

LEMMA RetrieveOpenStep == Inv /\ RetrieveOpen => (Files /\ Session)'
<1> SUFFICES ASSUME Inv, RetrieveOpen PROVE (Files /\ Session)'
  OBVIOUS
<1>1. /\ cmd.op = "retrieve" /\ pc = "mounted" /\ ncmds' = ncmds /\ UNCHANGED <<disk, tree, source, scribbled>>
      /\ Found(cmd.name)
  BY DEF RetrieveOpen, Running, kept, fixed
<1>2. /\ Words /\ last.op = "none" /\ cmd \in CmdSet /\ Files /\ cmd.host \in Hosts
      /\ cmd.off = 0 /\ cmd.pos = 0
  BY <1>1, InCommand DEF Words, Inv
<1>3. CASE UNCHANGED host /\ Return(FALSE)
  BY <1>1, <1>2, <1>3, SameFiles, Ends
<1>4. CASE host' = [host EXCEPT ![cmd.host] = Truncated(cmd.host)] /\ Go("fetch")
  <2>1. Files' /\ host'[cmd.host] = <<>>
    <3>1. <<>> \in Bytes /\ Len(<<>>) <= Longest
      BY WeightOfEmpty, Lengths
    <3> QED BY <1>1, <1>2, <1>4, <3>1, HostReplaced DEF Truncated
  <2>2. /\ cmd' \in CmdSet /\ cmd'.op = "fetch" /\ cmd'.name = cmd.name /\ cmd'.host = cmd.host
        /\ cmd'.off = 0 /\ cmd'.pos = 0 /\ last' = last
    BY <1>2, <1>4, Went DEF OpSet
  <2>3. Words'
    <3>1. Found(cmd.name)'
      BY <1>1, <2>2, SameText
    <3> QED BY <1>1, <1>2, <2>2, <3>1 DEF Words
  <2>4. Fetching'
    <3>1. Len(Text(cmd.name)) \in Nat
      BY <1>1, <1>2, Reading DEF Files
    <3>2. Starts(<<>>, Text(cmd.name)) /\ Len(<<>>) = 0
      BY <3>1, WeightOfEmpty DEF Starts
    <3>4. Text(cmd.name)' = Text(cmd.name)
      BY <1>1, <2>2, SameText
    <3> QED BY <1>1, <2>1, <2>2, <3>1, <3>2, <3>4 DEF Fetching
  <2> QED BY <1>2, <2>1, <2>2, <2>3, <2>4 DEF Session, Copying, Fetched
<1> QED BY <1>3, <1>4 DEF RetrieveOpen

LEMMA RetrieveByteStep == Inv /\ RetrieveByte => (Files /\ Session)'
<1> SUFFICES ASSUME Inv, RetrieveByte PROVE (Files /\ Session)'
  OBVIOUS
<1> DEFINE n == cmd.name
           h == cmd.host
           b == Text(n)
           t == host[h]
           buf == <<b[cmd.off + 1]>>
           c == Overwritten(t, buf, 1, cmd.pos)
<1>1. /\ cmd.op = "fetch" /\ pc = "mounted" /\ ncmds' = ncmds /\ UNCHANGED <<disk, tree, last, source, scribbled>>
      /\ cmd.off < Len(b)
  BY DEF RetrieveByte, Running, kept, fixed
<1>2. /\ Words /\ last.op = "none" /\ cmd \in CmdSet /\ Found(n) /\ h \in Hosts
      /\ Files /\ cmd.off \in Nat /\ cmd.pos \in Nat
  BY <1>1, InCommand DEF Words, Inv, CmdSet
<1>3. cmd.pos <= cmd.off /\ Len(t) = cmd.pos /\ (cmd.pos = cmd.off => Starts(t, b))
  BY <1>1 DEF Inv, Session, Fetching
<1>4. b \in Bytes /\ t \in Bytes /\ Len(b) \in Nat /\ Len(b) <= Longest
  BY <1>2, Reading DEF Files, Shape
<1>5. CASE UNCHANGED host /\ cmd' = [cmd EXCEPT !.off = @ + 1]
  <2>1. Files'
    BY <1>1, <1>2, <1>5, SameFiles
  <2>2. /\ cmd' \in CmdSet /\ cmd'.op = "fetch" /\ cmd'.name = n /\ cmd'.host = h /\ cmd'.off = cmd.off + 1
        /\ cmd'.pos = cmd.pos
    BY <1>1, <1>2, <1>5, Advanced
  <2>3. Words'
    <3>1. Found(cmd.name)'
      BY <1>1, <1>2, <2>2, SameText
    <3> QED BY <1>1, <1>2, <2>2, <3>1 DEF Words
  <2>4. cmd'.pos <= cmd'.off /\ cmd'.pos # cmd'.off /\ cmd'.off <= Len(b)
    BY <1>1, <1>2, <1>3, <1>4, <2>2
  <2>5. Fetching'
    <3>1. Text(cmd.name)' = b
      BY <1>1, <1>2, <2>2, SameText
    <3> QED BY <1>1, <1>3, <1>5, <2>2, <2>4, <3>1 DEF Fetching
  <2> QED BY <1>1, <1>2, <2>1, <2>2, <2>3, <2>5 DEF Session, Copying, Fetched
<1>6. CASE host' = [host EXCEPT ![h] = c] /\ cmd' = [cmd EXCEPT !.off = @ + 1, !.pos = @ + 1]
  <2>1. buf \in Bytes /\ Len(buf) = 1 /\ buf[1] = b[cmd.off + 1]
    <3>1. b[cmd.off + 1] \in Int
      BY <1>1, <1>2, <1>4, ElementOfSeq DEF Bytes
    <3> HIDE DEF b
    <3> QED BY <3>1 DEF Bytes
  <2> HIDE DEF buf
  <2>2. IsOver(c, t, buf, 1, cmd.pos)
    <3>1. 1 \in 0 .. Len(buf)
      BY <2>1
    <3> HIDE DEF t
    <3> QED BY <1>2, <1>4, <2>1, <3>1, Overwriting
  <2> HIDE DEF c
  <2>3. /\ c \in Bytes /\ Len(c) = cmd.pos + 1
        /\ \A k \in 1 .. Len(c) : c[k] = IF k > cmd.pos /\ k <= cmd.pos + 1 THEN buf[k - cmd.pos]
                                         ELSE IF k <= Len(t) THEN t[k] ELSE 0
    <3> HIDE DEF t
    <3>1. Len(c) = cmd.pos + 1
      BY <1>2, <1>3, <2>2 DEF IsOver
    <3> QED BY <2>2, <3>1 DEF IsOver
  <2>4. Files' /\ host'[h] = c
    <3>1. Len(c) <= Longest
      BY <1>1, <1>2, <1>3, <1>4, <2>3, Lengths
    <3> QED BY <1>1, <1>2, <1>6, <2>3, <3>1, HostReplaced
  <2>5. /\ cmd' \in CmdSet /\ cmd'.op = "fetch" /\ cmd'.name = n /\ cmd'.host = h /\ cmd'.off = cmd.off + 1
        /\ cmd'.pos = cmd.pos + 1
    BY <1>1, <1>2, <1>6, AdvancedBoth
  <2>6. Words'
    <3>1. Found(cmd.name)'
      BY <1>1, <1>2, <2>5, SameText
    <3> QED BY <1>1, <1>2, <2>5, <3>1 DEF Words
  <2>7. cmd'.pos <= cmd'.off /\ cmd'.off <= Len(b)
    BY <1>1, <1>2, <1>3, <1>4, <2>5
  <2>8. ASSUME cmd'.pos = cmd'.off PROVE Starts(c, b)
    <3>1. cmd.pos = cmd.off /\ Starts(t, b)
      BY <1>2, <1>3, <2>5, <2>8
    <3>2. Len(c) <= Len(b)
      BY <1>1, <1>2, <1>4, <2>3, <3>1
    <3>3. ASSUME NEW k \in 1 .. Len(c) PROVE c[k] = b[k]
      <4>1. k \in Nat /\ k >= 1 /\ k <= cmd.pos + 1
        BY <1>2, <2>3
      <4>2. CASE k <= cmd.pos
        <5>1. k <= Len(t) /\ k \in 1 .. Len(t) /\ ~(k > cmd.pos)
          BY <1>2, <1>3, <4>1, <4>2
        <5>2. c[k] = t[k]
          <6> HIDE DEF t
          <6> QED BY <2>3, <5>1
        <5> QED BY <3>1, <5>1, <5>2 DEF Starts
      <4>3. CASE k > cmd.pos
        <5>1. k = cmd.pos + 1 /\ k - cmd.pos = 1
          BY <1>2, <4>1, <4>3
        <5>2. c[k] = buf[1]
          BY <2>3, <4>1, <4>3, <5>1
        <5> QED BY <2>1, <3>1, <5>1, <5>2
      <4> QED BY <1>2, <4>1, <4>2, <4>3
    <3> QED BY <3>2, <3>3 DEF Starts
  <2>9. Fetching'
    <3>1. Text(cmd.name)' = b
      BY <1>1, <1>2, <2>5, SameText
    <3> QED BY <1>1, <2>3, <2>4, <2>5, <2>7, <2>8, <3>1 DEF Fetching
  <2> QED BY <1>1, <1>2, <2>4, <2>5, <2>6, <2>9 DEF Session, Copying, Fetched
<1> QED BY <1>5, <1>6 DEF RetrieveByte

LEMMA SameBytes == ASSUME NEW b \in Bytes, NEW c \in Bytes, Starts(b, c), Len(b) = Len(c) PROVE b = c
<1>1. DOMAIN b = 1 .. Len(b) /\ DOMAIN c = 1 .. Len(b) /\ \A k \in 1 .. Len(b) : b[k] = c[k]
  BY LenProperties DEF Bytes, Starts
<1>2. b = [k \in 1 .. Len(b) |-> b[k]] /\ c = [k \in 1 .. Len(b) |-> c[k]]
  <2>1. b \in [1 .. Len(b) -> Int] /\ c \in [1 .. Len(c) -> Int]
    BY LenProperties DEF Bytes
  <2> QED BY <2>1
<1> QED BY <1>1, <1>2

LEMMA RetrieveEndStep == Inv /\ RetrieveEnd => (Files /\ Session)'
<1> SUFFICES ASSUME Inv, RetrieveEnd PROVE (Files /\ Session)'
  OBVIOUS
<1> DEFINE b == Text(cmd.name)
           t == host[cmd.host]
           ok == cmd.pos = cmd.off
<1>1. /\ cmd.op = "fetch" /\ pc = "mounted" /\ ncmds' = ncmds /\ UNCHANGED <<disk, tree, host, source, scribbled>>
      /\ cmd.off >= Len(b) /\ Return(ok)
  BY DEF RetrieveEnd, Running, kept, fixed
<1>2. /\ Words /\ cmd \in CmdSet /\ Found(cmd.name) /\ cmd.host \in Hosts /\ Files /\ cmd.off \in Nat
  BY <1>1, InCommand DEF Words, Inv, CmdSet
<1>3. cmd.off <= Len(b) /\ Len(t) = cmd.pos /\ (ok => Starts(t, b))
  BY <1>1 DEF Inv, Session, Fetching
<1>4. b \in Bytes /\ t \in Bytes /\ Len(b) \in Nat
  BY <1>2, Reading DEF Files, Shape
<1>5. Words' /\ cmd'.op = "none" /\ (ok => last' = cmd) /\ (~ok => last'.op = "failed")
  <2>1. ok \in BOOLEAN
    OBVIOUS
  <2> HIDE DEF ok
  <2> QED BY <1>1, <1>2, <2>1, Returned
<1>6. Files'
  BY <1>1, <1>2, SameFiles
<1>7. CASE ok
  <2>1. Len(t) = Len(b)
    BY <1>1, <1>2, <1>3, <1>4, <1>7
  <2>2. t = b
    <3> HIDE DEF t, b
    <3> QED BY <1>3, <1>4, <1>7, <2>1, SameBytes
  <2>3. Fetched'
    <3>1. last'.name = cmd.name
      BY <1>5, <1>7
    <3>2. Found(last.name)' /\ Text(last.name)' = b
      BY <1>1, <1>2, <3>1, SameText
    <3> QED BY <1>1, <1>2, <1>5, <1>7, <2>2, <3>2 DEF Fetched
  <2> QED BY <1>5, <1>6, <2>3 DEF Session, Copying, Fetching
<1>8. CASE ~ok
  BY <1>5, <1>6, <1>8 DEF Session, Copying, Fetching, Fetched
<1> QED BY <1>7, <1>8

\* The buffer ends where no file ends later.
LEMMA BufferFits ==
  ASSUME Words, cmd.op = "write", ~Refused(cmd.sz)
  PROVE  Buffer \in Bytes /\ Len(Buffer) = Cut(cmd.sz) /\ Cut(cmd.sz) \in Nat /\ cmd.off + Cut(cmd.sz) <= Longest
<1>1. PICK a \in WriteArgs : cmd.off = a.off /\ cmd.sz = a.sz
  BY DEF Words
<1>2. a.off \in Nat /\ a.sz \in Int /\ a.sz >= SZMIN /\ SZMIN \in Int /\ BUFSZ \in Nat /\ a.off + BUFSZ <= Longest /\ Word \in Int /\ Longest \in Int
  BY SessionAssumption, Lengths
<1>0. a.sz >= 0
  BY <1>1, <1>2 DEF Refused
<1>3. Cut(a.sz) \in Nat /\ Cut(a.sz) <= BUFSZ
  BY <1>0, <1>2, Cutting
<1>4. cmd.off + Cut(cmd.sz) <= Longest
  BY <1>1, <1>2, <1>3
<1> DEFINE n == Cut(cmd.sz)
<1>5. n \in Nat
  BY <1>1, <1>3
<1>6. Buffer = [k \in 1 .. n |-> Word]
  BY DEF Buffer
<1> HIDE DEF n
<1>7. Buffer \in [1 .. n -> Int]
  BY <1>2, <1>6
<1>8. Buffer \in Bytes /\ Len(Buffer) = n
  BY <1>5, <1>7, FcnIsSeq DEF Bytes
<1> QED BY <1>4, <1>5, <1>8 DEF n

LEMMA NoCopyOf == NoCopy \in CopySet /\ \A b : CopyOf(b, NoCopy)
BY DEF NoCopy, CopySet, Bytes, Absent, CopyOf

\* The history forgets what a file was a copy of.
LEMMA Forgotten ==
  ASSUME Files, NEW n \in DOMAIN tree, source' = [source EXCEPT ![n] = NoCopy]
  PROVE  /\ source' \in [DOMAIN tree -> CopySet] /\ source'[n] = NoCopy
         /\ \A m \in DOMAIN tree \ {n} : source'[m] = source[m]
BY NoCopyOf DEF Files, Shape

LEMMA WriteFileStep == Inv /\ WriteFile => (Files /\ Session)'
<1> SUFFICES ASSUME Inv, WriteFile PROVE (Files /\ Session)'
  OBVIOUS
<1> DEFINE n == cmd.name
           b == tree[n].bytes
           m == Stored(n, Buffer, cmd.off)
           c == Overwritten(b, Buffer, m, cmd.off)
<1>1. /\ cmd.op = "write" /\ pc = "mounted" /\ ncmds' = ncmds /\ UNCHANGED <<disk, host, scribbled>>
      /\ n \in DOMAIN tree /\ ~Refused(cmd.sz) /\ tree' = WithBytes(n, c) /\ (Return(TRUE) \/ Go("panic"))
      /\ source' = [source EXCEPT ![n] = NoCopy]
  BY DEF WriteFile, Running, kept, fixed, Found, Directory
<1>2. Words /\ last.op = "none" /\ cmd \in CmdSet /\ Files /\ cmd.off \in Nat
  BY <1>1, InCommand DEF Inv, CmdSet
<1>3. /\ Buffer \in Bytes /\ Len(Buffer) \in Nat /\ cmd.off + Len(Buffer) <= Longest /\ Longest \in Int
  BY <1>1, <1>2, BufferFits, Lengths
<1>4. b \in Bytes /\ Len(b) \in Nat /\ Len(b) <= Longest
  BY <1>1, <1>2, LenProperties DEF Files, Shape, Sizes, Tree, FileSet, Bytes
<1>5. m \in 0 .. Len(Buffer) /\ Used(tree') <= Room
  BY <1>1, <1>2, <1>3, Storing DEF Files, Sizes
<1> HIDE DEF m
<1>6. IsOver(c, b, Buffer, m, cmd.off)
  <2> HIDE DEF b
  <2> QED BY <1>2, <1>3, <1>4, <1>5, Overwriting
<1> HIDE DEF c
<1>7. c \in Bytes /\ Len(c) <= Longest
  <2> HIDE DEF b
  <2>1. Len(c) = IF Len(b) >= cmd.off + m THEN Len(b) ELSE cmd.off + m
    BY <1>6 DEF IsOver
  <2>2. cmd.off + m <= cmd.off + Len(Buffer)
    BY <1>2, <1>3, <1>5
  <2>3. Len(c) <= Longest
    BY <1>2, <1>3, <1>4, <1>5, <2>1, <2>2
  <2> QED BY <1>6, <2>3 DEF IsOver
<1>8. Files'
  <2>1. /\ source' \in [DOMAIN tree -> CopySet] /\ CopyOf(c, source'[n])
        /\ \A k \in DOMAIN tree \ {n} : source'[k] = source[k]
    BY <1>1, <1>2, Forgotten, NoCopyOf
  <2> QED BY <1>1, <1>2, <1>5, <1>7, <2>1, Replaced
<1>9. CASE Return(TRUE)
  BY <1>1, <1>2, <1>8, <1>9, Ends
<1>10. CASE Go("panic")
  BY <1>1, <1>2, <1>8, <1>10, Panics DEF Go
<1> QED BY <1>1, <1>9, <1>10

LEMMA WriteRefusedStep == Inv /\ WriteRefused => (Files /\ Session)'
<1> SUFFICES ASSUME Inv, WriteRefused PROVE (Files /\ Session)'
  OBVIOUS
<1>1. /\ cmd.op = "write" /\ pc = "mounted" /\ ncmds' = ncmds /\ (Return(FALSE) \/ Go("panic"))
      /\ UNCHANGED <<disk, tree, source, host, scribbled>>
  BY DEF WriteRefused, Running, kept, fixed
<1>2. Words /\ last.op = "none" /\ Files'
  BY <1>1, InCommand, SameFiles DEF Inv
<1>3. CASE Return(FALSE)
  BY <1>1, <1>2, <1>3, Ends
<1>4. CASE Go("panic")
  BY <1>1, <1>2, <1>4, Panics DEF Go
<1> QED BY <1>1, <1>3, <1>4

LEMMA WriteDirectoryStep == Inv /\ WriteDirectory => (Files /\ Session)'
<1> SUFFICES ASSUME Inv, WriteDirectory PROVE (Files /\ Session)'
  OBVIOUS
<1>1. /\ cmd.op = "write" /\ pc = "mounted" /\ ncmds' = ncmds /\ (Return(TRUE) \/ Go("panic"))
      /\ Scribble(cmd.name) /\ UNCHANGED host
  BY DEF WriteDirectory, Running, fixed
<1>2. Words /\ last.op = "none" /\ Files'
  BY <1>1, InCommand, Scribbled DEF Inv
<1>3. CASE Return(TRUE)
  BY <1>1, <1>2, <1>3, Ends
<1>4. CASE Go("panic")
  BY <1>1, <1>2, <1>4, Panics DEF Go
<1> QED BY <1>1, <1>3, <1>4

LEMMA CommandsStep == Inv /\ Commands => (Files /\ Session)'
BY TellStep, MknodStep, MigrateCreateStep, MigratePanicStep, MigrateOpenStep, MigrateByteStep, MigrateEndStep,
   RetrieveOpenStep, RetrieveByteStep, RetrieveEndStep, WriteFileStep, WriteRefusedStep, WriteDirectoryStep DEF Commands, Write

-----------------------------------------------------------------------------
(***************************************************************************)
(* mkfs is stopped; a command is given.                                    *)
(***************************************************************************)
\* What a write that was cut short leaves.
LEMMA HalfWritten ==
  ASSUME Inv, cmd.op = "write", cmd.name \in DOMAIN tree,
         NEW P \in SUBSET (DOMAIN tree[cmd.name].bytes),
         tree' = WithBytes(cmd.name, [k \in DOMAIN tree[cmd.name].bytes |->
                                        IF k \in P THEN Word ELSE tree[cmd.name].bytes[k]]),
         Used(tree') <= Room, source' = [source EXCEPT ![cmd.name] = NoCopy], UNCHANGED <<disk, host, scribbled>>
  PROVE  Files' /\ DOMAIN tree' = DOMAIN tree
<1> DEFINE n == cmd.name
           b == tree[n].bytes
           c == [k \in DOMAIN b |-> IF k \in P THEN Word ELSE b[k]]
<1>1. Files /\ n \in DOMAIN tree /\ tree' = WithBytes(n, c)
  BY DEF Inv
<1>2. b \in Bytes /\ Len(b) \in Nat /\ Len(b) <= Longest /\ DOMAIN b = 1 .. Len(b)
  BY <1>1, LenProperties DEF Files, Shape, Sizes, Tree, FileSet, Bytes
<1>3. c \in Bytes /\ Len(c) = Len(b)
  <2>1. \A k \in 1 .. Len(b) : b[k] \in Int
    BY <1>2, ElementOfSeq DEF Bytes
  <2>2. c \in [1 .. Len(b) -> Int]
    <3> HIDE DEF b
    <3> QED BY <1>2, <2>1, SessionAssumption
  <2> HIDE DEF c, b
  <2> QED BY <1>2, <2>2, FcnIsSeq DEF Bytes
<1> HIDE DEF c
<1>4. /\ source' \in [DOMAIN tree -> CopySet] /\ CopyOf(c, source'[n])
      /\ \A k \in DOMAIN tree \ {n} : source'[k] = source[k]
  BY <1>1, Forgotten, NoCopyOf
<1> QED BY <1>1, <1>2, <1>3, <1>4, Replaced

\* An inode was taken, by a command or by fs_format().
TakenOne == \E s \in FreeInodes : \E type \in {T_REG, T_DIR} : Take(s, type)

LEMMA TakingOne ==
  ASSUME IInv, TakenOne
  PROVE  /\ disk' \in [Disk -> Sector] /\ disk'[startlba] = disk[startlba] /\ FreeInodes' \subseteq FreeInodes
         /\ \A b \in Disk \ Partition : disk'[b] = disk[b]
         /\ \A t \in Table : t \notin FreeInodes => disk'[t[1]].types[t[2]] = disk[t[1]].types[t[2]]
<1>1. PICK s \in FreeInodes, type \in {T_REG, T_DIR} : Take(s, type)
  BY DEF TakenOne
<1>2. disk' = [disk EXCEPT ![s[1]].types[s[2]] = type]
  BY <1>1 DEF Take
<1>3. disk \in [Disk -> Sector] /\ type \in 0 .. 3 /\ s \in Table /\ type # 0
  BY DEF IInv, T_REG, T_DIR, FreeInodes
<1>4. /\ disk' \in [Disk -> Sector] /\ disk'[startlba] = disk[startlba]
      /\ \A b \in Disk \ Partition : disk'[b] = disk[b]
      /\ \A t \in Table : disk'[t[1]].types[t[2]] = IF t = s THEN type ELSE disk[t[1]].types[t[2]]
  BY <1>2, <1>3, Taken
<1>5. FreeInodes' \subseteq FreeInodes
  <2> SUFFICES ASSUME NEW t \in Table, disk'[t[1]].types[t[2]] = 0 PROVE disk[t[1]].types[t[2]] = 0
    BY DEF FreeInodes
  <2> QED BY <1>3, <1>4
<1> QED BY <1>4, <1>5

LEMMA DiskTaken == IInv /\ Files /\ TakenOne /\ UNCHANGED <<tree, source, host, scribbled>> => Files'
<1> SUFFICES ASSUME IInv, Files, TakenOne, UNCHANGED <<tree, source, host, scribbled>> PROVE Files'
  OBVIOUS
<1>1. \A t \in Table : t \notin FreeInodes => disk'[t[1]].types[t[2]] = disk[t[1]].types[t[2]]
  BY TakingOne
<1>2. InodesMatch'
  <2> SUFFICES ASSUME ~scribbled PROVE InodesMatch'
    BY DEF InodesMatch
  <2>1. \A m \in DOMAIN tree : tree[m] \in FileSet
    BY DEF Files, Shape, Tree
  <2>2. \A m \in DOMAIN tree : tree[m].type # 0
    BY <2>1 DEF FileSet, T_REG, T_DIR
  <2>3. \A m \in DOMAIN tree : /\ tree[m].inode \in Table
                               /\ disk[tree[m].inode[1]].types[tree[m].inode[2]] = tree[m].type
    BY DEF Files, InodesMatch
  <2>4. \A m \in DOMAIN tree : tree[m].inode \notin FreeInodes
    BY <2>2, <2>3 DEF FreeInodes
  <2>5. \A m \in DOMAIN tree : disk'[tree[m].inode[1]].types[tree[m].inode[2]] = tree[m].type
    BY <1>1, <2>3, <2>4
  <2> QED BY <2>3, <2>5 DEF Files, InodesMatch
<1> QED BY <1>2 DEF Files, Shape, Sizes, Copies

LEMMA Idle == Words /\ cmd' = NoCmd /\ ncmds' = ncmds /\ last'.op # "fetch" => Session' /\ cmd'.op = "none"
<1> SUFFICES ASSUME Words, cmd' = NoCmd, ncmds' = ncmds, last'.op # "fetch" PROVE Session' /\ cmd'.op = "none"
  OBVIOUS
<1>1. NoCmd \in CmdSet /\ NoCmd.op = "none" /\ NoCmd.name = ""
  BY Nothing
<1>2. cmd' \in CmdSet /\ cmd'.op = "none" /\ cmd'.name = ""
  BY <1>1
<1>3. ncmds' \in 0 .. MaxCmds
  BY DEF Words
<1>4. Words'
  BY <1>2, <1>3 DEF Words
<1> QED BY <1>2, <1>4 DEF Session, Copying, Fetching, Fetched

LEMMA KillDisk == Kill => /\ pc = "mounted" /\ cmd.op # "none" /\ (disk' = disk \/ TakenOne)
                          /\ pc' = "off" /\ su' = Super(0, 0, FALSE) /\ cmd' = NoCmd
                          /\ UNCHANGED <<i, first, formatted, crashed, host, last, ncmds>>
<1> SUFFICES ASSUME Kill PROVE disk' = disk \/ TakenOne
  BY DEF Kill
<1>1. HalfDone
  BY DEF Kill
<1>2. ASSUME NEW s \in FreeInodes, Take(s, IF cmd.op = "mkdir" THEN T_DIR ELSE T_REG) PROVE TakenOne
  BY <1>2 DEF TakenOne
<1> QED BY <1>1, <1>2 DEF HalfDone

LEMMA KillStep == Inv /\ Kill => (Files /\ Session)'
<1> SUFFICES ASSUME Inv, Kill PROVE (Files /\ Session)'
  OBVIOUS
<1>1. pc = "mounted" /\ cmd.op # "none" /\ cmd' = NoCmd /\ UNCHANGED <<host, last, ncmds>> /\ HalfDone
  BY DEF Kill
<1>2. Words /\ last.op = "none" /\ Files /\ IInv
  BY <1>1, InCommand DEF Inv
<1>3. Session'
  BY <1>1, <1>2, Idle
<1>4. CASE UNCHANGED <<disk, tree, source, scribbled>>
  BY <1>1, <1>2, <1>3, <1>4, SameFiles
<1>5. CASE UNCHANGED <<tree, source, scribbled>> /\ disk' # disk
  BY <1>1, <1>2, <1>3, <1>5, KillDisk, DiskTaken
<1>7. CASE Scribble(cmd.name)
  BY <1>1, <1>2, <1>3, <1>7, Scribbled
<1>6. ASSUME cmd.op = "write", cmd.name \in DOMAIN tree, Used(tree') <= Room,
             source' = [source EXCEPT ![cmd.name] = NoCopy], UNCHANGED <<disk, scribbled>>,
             NEW P \in SUBSET {k \in DOMAIN tree[cmd.name].bytes :
                             k > cmd.off /\ k <= cmd.off + Cut(cmd.sz) /\ k <= MaxFile},
             tree' = WithBytes(cmd.name, [k \in DOMAIN tree[cmd.name].bytes |->
                                            IF k \in P THEN Word ELSE tree[cmd.name].bytes[k]])
      PROVE  Files'
  <2>1. P \in SUBSET (DOMAIN tree[cmd.name].bytes)
    OBVIOUS
  <2> QED BY <1>1, <1>6, <2>1, HalfWritten
<1> QED BY <1>1, <1>3, <1>4, <1>5, <1>6, <1>7 DEF HalfDone

Given(op, n, h, off, sz) ==
  /\ op \in Ops /\ n \in Names \cup {Root} \cup {""} /\ h \in Hosts \cup {""} /\ off \in Nat /\ sz \in Int
  /\ op \in {"migrate", "retrieve", "write"} => n \in Names \cup {Root}
  /\ op \in {"mkdir", "touch"} => n \in Names
  /\ op \in {"migrate", "retrieve"} => h \in Hosts /\ off = 0
  /\ op = "write" => \E a \in WriteArgs : off = a.off /\ sz = a.sz

LEMMA Prompted == Prompts => \E op, n, h, off, sz : Given(op, n, h, off, sz) /\ Prompt(op, n, h, off, sz)
<1> SUFFICES ASSUME Prompts PROVE \E op, n, h, off, sz : Given(op, n, h, off, sz) /\ Prompt(op, n, h, off, sz)
  OBVIOUS
<1>1. CASE Prompt("ls", "", "", 0, 0)
  <2>1. Given("ls", "", "", 0, 0)
    BY DEF Given, Ops
  <2> QED BY <1>1, <2>1
<1>2. CASE Prompt("read", "", "", 0, 0)
  <2>1. Given("read", "", "", 0, 0)
    BY DEF Given, Ops
  <2> QED BY <1>2, <2>1
<1>3. ASSUME NEW n \in Names, NEW op \in {"mkdir", "touch"}, Prompt(op, n, "", 0, 0)
      PROVE  \E o, m, h, off, sz : Given(o, m, h, off, sz) /\ Prompt(o, m, h, off, sz)
  <2>1. n \in Names \cup {Root} \cup {""} /\ "" \in Hosts \cup {""} /\ op \in Ops
    BY DEF Ops
  <2>2. op \notin {"migrate", "retrieve", "write"} /\ op # "write" /\ op \notin {"migrate", "retrieve"}
    OBVIOUS
  <2>3. 0 \in Nat /\ 0 \in Int
    OBVIOUS
  <2>4. Given(op, n, "", 0, 0)
    BY <2>1, <2>2, <2>3, Zenon DEF Given
  <2> QED BY <1>3, <2>4
<1>4. ASSUME NEW n \in Names \cup {Root}, NEW a \in WriteArgs, Prompt("write", n, "", a.off, a.sz)
      PROVE  \E o, m, h, off, sz : Given(o, m, h, off, sz) /\ Prompt(o, m, h, off, sz)
  <2>1. a.off \in Nat /\ a.sz \in Int
    BY SessionAssumption
  <2>2. n \in Names \cup {Root} \cup {""} /\ "" \in Hosts \cup {""} /\ \E b \in WriteArgs : a.off = b.off /\ a.sz = b.sz
    OBVIOUS
  <2>3. Given("write", n, "", a.off, a.sz)
    BY <2>1, <2>2 DEF Given, Ops
  <2> QED BY <1>4, <2>3
<1>5. ASSUME NEW n \in Names \cup {Root}, NEW op \in {"migrate", "retrieve"}, NEW h \in Hosts, Prompt(op, n, h, 0, 0)
      PROVE  \E o, m, g, off, sz : Given(o, m, g, off, sz) /\ Prompt(o, m, g, off, sz)
  <2>1. n \in Names \cup {Root} \cup {""} /\ h \in Hosts \cup {""} /\ op \in Ops
    BY DEF Ops
  <2>2. op \notin {"mkdir", "touch"} /\ op # "write"
    OBVIOUS
  <2>3. 0 \in Nat /\ 0 \in Int
    OBVIOUS
  <2>4. Given(op, n, h, 0, 0)
    BY <2>1, <2>2, <2>3, Zenon DEF Given
  <2> QED BY <1>5, <2>4
<1> QED BY <1>1, <1>2, <1>3, <1>4, <1>5 DEF Prompts

LEMMA PromptStep ==
  Inv /\ Prompts => /\ (Files /\ Session)' /\ pc = "mounted" /\ ~crashed /\ formatted' = FALSE /\ last'.op = "none"
                    /\ UNCHANGED <<disk, pc, su, i, first, crashed, tree>>
<1> SUFFICES ASSUME Inv, Prompts
             PROVE  /\ (Files /\ Session)' /\ pc = "mounted" /\ ~crashed /\ formatted' = FALSE /\ last'.op = "none"
                    /\ UNCHANGED <<disk, pc, su, i, first, crashed, tree>>
  OBVIOUS
<1>1. PICK op, n, h, off, sz : Given(op, n, h, off, sz) /\ Prompt(op, n, h, off, sz)
  BY Prompted
<1>2. /\ cmd.op = "none" /\ pc = "mounted" /\ ~crashed /\ ncmds < MaxCmds /\ ncmds' = ncmds + 1
      /\ last' = NoCmd /\ formatted' = FALSE /\ UNCHANGED <<disk, pc, su, i, first, crashed, tree, host, source, scribbled>>
      /\ cmd' = [op |-> op, name |-> n, host |-> h, off |-> off, sz |-> sz, pos |-> 0]
  BY <1>1 DEF Prompt, Running
<1>3. /\ cmd'.op = op /\ cmd'.name = n /\ cmd'.host = h /\ cmd'.off = off /\ cmd'.sz = sz /\ cmd'.pos = 0
  BY <1>2
<1>4. cmd' \in CmdSet
  <2>1. op \in OpSet /\ n \in Names \cup {Root} \cup {""} /\ h \in Hosts \cup {""} /\ off \in Nat /\ sz \in Int
    BY <1>1 DEF Given, OpSet
  <2> QED BY <1>2, <2>1 DEF CmdSet
<1>5. ncmds' \in 0 .. MaxCmds
  BY <1>2, SessionAssumption DEF Inv, Session, Words
<1>6. op \in Ops /\ op \notin {"open", "copy", "fetch"}
  BY <1>1 DEF Given, Ops
<1>7. Words'
  BY <1>1, <1>3, <1>4, <1>5, <1>6 DEF Words, Given
<1>8. last'.op = "none"
  BY <1>2 DEF NoCmd
<1>9. Session'
  BY <1>3, <1>6, <1>7, <1>8 DEF Session, Copying, Fetching, Fetched
<1> QED BY <1>2, <1>8, <1>9, SameFiles DEF Inv

-----------------------------------------------------------------------------
(***************************************************************************)
(* The variables of FsFormat.                                              *)
(***************************************************************************)
\* What the commands do to them.
LEMMA CommandsDisk ==
  Commands => /\ UNCHANGED <<pc, su, i, first, formatted, crashed, ncmds>> /\ pc = "mounted" /\ cmd.op # "none"
              /\ disk' = disk \/ TakenOne
              /\ cmd' = NoCmd \/ last' = last
<1> SUFFICES ASSUME Commands
             PROVE  /\ UNCHANGED <<pc, su, i, first, formatted, crashed, ncmds>> /\ pc = "mounted" /\ cmd.op # "none"
                    /\ disk' = disk \/ TakenOne
                    /\ cmd' = NoCmd \/ last' = last
  OBVIOUS
<1>0. \A n : \A type \in {T_REG, T_DIR} : Create(n, type) => TakenOne
  BY DEF Create, Typed, TakenOne
<1> USE DEF kept, fixed, Running, Return, Go
<1>1. CASE Tell BY <1>1 DEF Tell
<1>2. CASE Mknod
  <2>1. disk' = disk \/ TakenOne
    BY <1>0, <1>2 DEF Mknod
  <2> QED BY <1>2, <2>1 DEF Mknod
<1>3. CASE MigrateCreate
  <2>1. TakenOne
    BY <1>0, <1>3 DEF MigrateCreate
  <2> QED BY <1>3, <2>1 DEF MigrateCreate
<1>4. CASE MigratePanic BY <1>4 DEF MigratePanic
<1>5. CASE MigrateOpen BY <1>5 DEF MigrateOpen
<1>6. CASE MigrateByte BY <1>6 DEF MigrateByte
<1>7. CASE MigrateEnd BY <1>7 DEF MigrateEnd
<1>8. CASE RetrieveOpen BY <1>8 DEF RetrieveOpen
<1>9. CASE RetrieveByte BY <1>9 DEF RetrieveByte
<1>10. CASE RetrieveEnd BY <1>10 DEF RetrieveEnd
<1>11. CASE Write
  <2>1. CASE WriteFile BY <2>1 DEF WriteFile
  <2>2. CASE WriteRefused BY <2>2 DEF WriteRefused
  <2>3. CASE WriteDirectory BY <2>3 DEF WriteDirectory
  <2> QED BY <1>11, <2>1, <2>2, <2>3 DEF Write
<1> QED BY <1>1, <1>2, <1>3, <1>4, <1>5, <1>6, <1>7, <1>8, <1>9, <1>10, <1>11 DEF Commands

\* The disk is that of a mounted file system, with or without one more inode.
LEMMA DiskKept ==
  ASSUME IInv, Phases, pc = "mounted", ~crashed, disk' = disk \/ TakenOne
  PROVE  /\ disk' \in [Disk -> Sector] /\ disk'[startlba] = disk[startlba] /\ disk[startlba].su.magic
         /\ Reserved \cap FreeInodes' = {} /\ \A b \in Disk \ Partition : disk'[b] = disk[b]
<1>1. disk \in [Disk -> Sector] /\ disk[startlba].su.magic /\ Reserved \cap FreeInodes = {}
  BY DEF IInv, Phases
<1>2. CASE disk' = disk
  BY <1>1, <1>2 DEF FreeInodes
<1>3. CASE TakenOne
  BY <1>1, <1>3, TakingOne
<1> QED BY <1>2, <1>3

\* The invariant of FsFormat and the phases, when something runs on a mounted
\* file system.
LEMMA MountedPhases ==
  ASSUME Inv, pc = "mounted", ~crashed, disk' = disk \/ TakenOne, UNCHANGED <<i, first, crashed>>,
         formatted' \in BOOLEAN,
         \/ pc' = "mounted" /\ su' = su /\ (cmd'.op = "none" \/ last'.op = "none")
         \/ pc' = "off" /\ su' = Super(0, 0, FALSE) /\ cmd'.op = "none"
  PROVE  IInv' /\ Phases'
<1>1. /\ disk' \in [Disk -> Sector] /\ disk'[startlba] = disk[startlba] /\ disk[startlba].su.magic
      /\ Reserved \cap FreeInodes' = {} /\ \A b \in Disk \ Partition : disk'[b] = disk[b]
  BY DiskKept DEF Inv
<1>2. IInv'
  <2>1. first' \in [Disk -> Sector] /\ i' = 0 /\ i' \in Nat /\ pc' # "zero"
    BY DEF Inv, IInv
  <2>2. su' \in OwnSupers /\ disk'[startlba].su \in OwnSupers
    BY <1>1 DEF Inv, IInv, OwnSupers
  <2>3. WritesInside'
    BY <1>1 DEF Inv, IInv, WritesInside
  <2> QED BY <1>1, <2>1, <2>2, <2>3 DEF IInv
<1>3. Phases'
  <2>1. crashed' = FALSE /\ pc' \in {"off", "mounted"} /\ disk'[startlba].su.magic
    BY <1>1 DEF Inv, Phases
  <2>2. cmd'.op # "none" => pc' = "mounted" /\ ~crashed' /\ last'.op = "none"
    BY <2>1
  <2>3. pc' # "alloc1"
    BY <2>1
  <2> QED BY <1>1, <2>1, <2>2, <2>3 DEF Phases
<1> QED BY <1>2, <1>3

LEMMA NoFiles ==
  ASSUME NEW t, DOMAIN t = {}
  PROVE  Used(t) = Used(<<>>)
<1>1. [n \in DOMAIN t |-> Weight(t[n].bytes)] = [n \in {} |-> Weight(t[n].bytes)]
  OBVIOUS
<1>2. [n \in {} |-> Weight(t[n].bytes)] = [n \in {} |-> Weight(<<>>[n].bytes)]
  OBVIOUS
<1>3. [n \in {} |-> Weight(<<>>[n].bytes)] = [n \in DOMAIN <<>> |-> Weight(<<>>[n].bytes)]
  OBVIOUS
<1> QED BY <1>1, <1>2, <1>3 DEF Used

LEMMA EmptyTree == DOMAIN <<>> = {} /\ Tree(<<>>) /\ \A S : <<>> \in [{} -> S]
<1>1. DOMAIN <<>> = {} /\ \A S : <<>> \in [{} -> S]
  OBVIOUS
<1> QED BY <1>1 DEF Tree

\* The superblock of a new file system, and the sectors before and after it.
LEMMA FormatFiles ==
  ASSUME Inv, pc \in {"zero", "alloc0", "alloc1"},
         UNCHANGED session \/ (tree' = <<>> /\ source' = <<>> /\ UNCHANGED <<host, cmd, last, scribbled, ncmds>>)
  PROVE  (Files /\ Session)' /\ DOMAIN tree' = {} /\ cmd'.op = "none"
<1>1. DOMAIN tree = {} /\ cmd.op = "none" /\ Files /\ Session
  BY DEF Inv, Phases
<1>2. DOMAIN tree' = {} /\ cmd' = cmd /\ last' = last /\ host' = host /\ ncmds' = ncmds
  BY <1>1, EmptyTree DEF session
<1>3. Shape'
  <2>1. Tree(tree')
    BY <1>1, EmptyTree DEF session, Files, Shape
  <2>2. source' \in [DOMAIN tree' -> CopySet]
    <3>1. CASE tree' = tree /\ source' = source
      BY <1>1, <3>1 DEF Files, Shape
    <3>2. CASE source' = <<>>
      BY <1>2, <3>2, EmptyTree
    <3> QED BY <3>1, <3>2 DEF session
  <2> QED BY <1>1, <1>2, <2>1, <2>2 DEF Files, Shape
<1>4. InodesMatch' /\ Copies'
  BY <1>2 DEF InodesMatch, Copies
<1>5. Sizes'
  <2>1. Used(tree') = Used(tree)
    <3>1. Used(tree) = Used(<<>>)
      BY <1>1, NoFiles
    <3> QED BY <3>1 DEF session
  <2> QED BY <1>1, <1>2, <2>1 DEF Files, Sizes
<1>6. Words'
  <2>1. cmd \in CmdSet /\ ncmds \in 0 .. MaxCmds
    BY <1>1 DEF Session, Words
  <2>2. cmd' \in CmdSet /\ ncmds' \in 0 .. MaxCmds /\ cmd'.op = "none"
    BY <1>1, <1>2, <2>1
  <2> QED BY <2>2 DEF Words
\* What retrieve has read can only be the root.
<1>7. \A n : (Found(n) => n = Root) /\ (n = Root => Found(n)' /\ Text(n)' = Text(n))
  <2>1. \A d : Children(d)' = Children(d)
    BY <1>1, <1>2 DEF Children
  <2>2. \A n : n = Root => Directory(n)' /\ Directory(n) /\ Found(n)'
    BY DEF Directory, Found
  <2>3. \A n : n = Root => Shown(n)' = Shown(n)
    BY <2>1, <2>2 DEF Shown
  <2>4. \A n : n = Root => Text(n)' = Text(n)
    BY <2>2, <2>3 DEF Text
  <2> QED BY <1>1, <2>2, <2>4 DEF Found
<1>8. Fetched'
  <2>1. Fetched
    BY <1>1 DEF Session
  <2>2. last'.name = last.name
    BY <1>2
  <2>3. Found(last.name) => Found(last.name)' /\ Text(last.name)' = Text(last.name)
    BY <1>7, <2>2
  <2> QED BY <1>2, <2>1, <2>3 DEF Fetched
<1>9. Copying' /\ Fetching' /\ cmd'.op = "none"
  BY <1>1, <1>2 DEF Copying, Fetching
<1> QED BY <1>2, <1>3, <1>4, <1>5, <1>6, <1>8, <1>9 DEF Files, Session

\* Nothing but the phase of FsFormat changes.
LEMMA PhaseOnly == Inv /\ UNCHANGED <<disk, session>> => (Files /\ Session)'
<1> SUFFICES ASSUME Inv, UNCHANGED <<disk, session>> PROVE (Files /\ Session)'
  OBVIOUS
<1>1. Files' BY SameFiles DEF Inv, session
<1>2. /\ UNCHANGED <<cmd, last, tree, host, source, ncmds>>
      /\ \A n : (Found(n)' <=> Found(n)) /\ Text(n)' = Text(n)
  BY SameText DEF session
<1>3. Found(cmd.name)' = Found(cmd.name) /\ Text(cmd.name)' = Text(cmd.name)
      /\ Found(last.name)' = Found(last.name) /\ Text(last.name)' = Text(last.name)
  BY <1>2
<1>4. Words' BY <1>2, <1>3 DEF Inv, Session, Words
<1>5. Copying' /\ Fetching' /\ Fetched' BY <1>2, <1>3 DEF Inv, Session, Copying, Fetching, Fetched
<1> QED BY <1>1, <1>4, <1>5 DEF Session

LEMMA ZeroPhases == Inv /\ Zero /\ UNCHANGED session => (Files /\ Session)' /\ Phases'
<1> SUFFICES ASSUME Inv, Zero, UNCHANGED session PROVE (Files /\ Session)' /\ Phases'
  OBVIOUS
<1>1. pc = "zero" /\ UNCHANGED <<pc, formatted, crashed>>
  BY DEF Zero
<1>2. (Files /\ Session)' /\ DOMAIN tree' = {} /\ cmd'.op = "none"
  BY <1>1, FormatFiles
<1> QED BY <1>1, <1>2 DEF Phases, Inv

LEMMA SuperPhases ==
  Inv /\ WriteSuper /\ tree' = <<>> /\ source' = <<>> /\ UNCHANGED <<host, cmd, last, scribbled, ncmds>>
    => (Files /\ Session)' /\ Phases'
<1> SUFFICES ASSUME Inv, WriteSuper, tree' = <<>>, source' = <<>>, UNCHANGED <<host, cmd, last, scribbled, ncmds>>
             PROVE  (Files /\ Session)' /\ Phases'
  OBVIOUS
<1>1. pc = "zero" /\ pc' = "alloc0" /\ UNCHANGED <<formatted, crashed>>
  BY DEF WriteSuper
<1>2. (Files /\ Session)' /\ DOMAIN tree' = {} /\ cmd'.op = "none"
  BY <1>1, FormatFiles
<1> QED BY <1>1, <1>2 DEF Phases, Inv

LEMMA ReservePhases == Inv /\ Reserve /\ UNCHANGED session => (Files /\ Session)' /\ Phases'
<1> SUFFICES ASSUME Inv, Reserve, UNCHANGED session PROVE (Files /\ Session)' /\ Phases'
  OBVIOUS
<1>1. /\ (pc = "alloc0" /\ pc' = "alloc1") \/ (pc = "alloc1" /\ pc' = "init")
      /\ alloc_inode(T_DIR) /\ UNCHANGED <<formatted, crashed>>
  BY DEF Reserve, AfterFirst
<1>2. (Files /\ Session)' /\ DOMAIN tree' = {} /\ cmd'.op = "none"
  BY <1>1, FormatFiles
<1>3. FreeInodes' \subseteq FreeInodes
  <2>1. CASE disk' = disk
    BY <2>1 DEF FreeInodes
  <2>2. CASE TakenOne
    BY <2>2, TakingOne DEF Inv
  <2> QED BY <1>1, <2>1, <2>2 DEF alloc_inode, TakenOne
<1>4. ASSUME NEW s \in Table, s \in FreeInodes, \A u \in FreeInodes : Before(u, s) => u = s
      PROVE  s \notin FreeInodes'
  <2>1. PICK u \in FreeInodes : Take(u, T_DIR)
    BY <1>1, <1>4 DEF alloc_inode
  <2>2. u = s
    BY <1>4, <2>1 DEF Take
  <2>3. disk' = [disk EXCEPT ![s[1]].types[s[2]] = T_DIR]
    BY <2>1, <2>2 DEF Take
  <2>4. disk \in [Disk -> Sector] /\ T_DIR \in 0 .. 3 /\ T_DIR # 0
    BY DEF Inv, IInv, T_DIR
  <2>5. \A t \in Table : disk'[t[1]].types[t[2]] = IF t = s THEN T_DIR ELSE disk[t[1]].types[t[2]]
    BY <2>3, <2>4, Taken
  <2> QED BY <2>4, <2>5 DEF FreeInodes
<1>5. ASSUME ~crashed', pc' = "alloc1" PROVE <<sinode, 0>> \notin FreeInodes'
  <2>1. \A u \in FreeInodes : Before(u, <<sinode, 0>>) => u = <<sinode, 0>>
    BY FirstTwo DEF FreeInodes
  <2> QED BY <1>3, <1>4, <2>1, FirstTwo
<1>6. ASSUME ~crashed', pc' = "init" PROVE Reserved \cap FreeInodes' = {}
  <2>1. <<sinode, 0>> \notin FreeInodes /\ <<sinode, 0>> \notin FreeInodes'
    BY <1>1, <1>3, <1>6 DEF Inv, Phases
  <2>2. \A u \in FreeInodes : Before(u, <<sinode, 1>>) => u = <<sinode, 1>>
    BY <2>1, FirstTwo DEF FreeInodes
  <2>3. <<sinode, 1>> \notin FreeInodes'
    BY <1>3, <1>4, <2>2, FirstTwo
  <2> QED BY <2>1, <2>3 DEF Reserved
<1> QED BY <1>1, <1>2, <1>5, <1>6 DEF Phases, Inv

LEMMA OtherPhases ==
  Inv /\ (Start \/ Mount \/ (Quit /\ cmd.op = "none") \/ Crash) /\ UNCHANGED session => (Files /\ Session)' /\ Phases'
<1> SUFFICES ASSUME Inv, Start \/ Mount \/ (Quit /\ cmd.op = "none") \/ Crash, UNCHANGED session
             PROVE  (Files /\ Session)' /\ Phases'
  OBVIOUS
<1>1. disk' = disk /\ cmd' = cmd /\ last' = last /\ tree' = tree /\ Phases
  BY DEF Start, Mount, fs_init, Quit, Crash, session, Inv
<1>2. (Files /\ Session)'
  BY <1>1, PhaseOnly
<1>3. FreeInodes' = FreeInodes
  BY <1>1 DEF FreeInodes
<1>4. Phases'
  <2>1. CASE Start
    BY <1>1, <1>3, <2>1 DEF Start, fs_init, HasMagic, Phases
  <2>2. CASE Mount
    BY <1>1, <1>3, <2>2 DEF Mount, fs_init, HasMagic, Phases
  <2>3. CASE Quit /\ cmd.op = "none"
    BY <1>1, <1>3, <2>3 DEF Quit, Phases
  <2>4. CASE Crash
    BY <1>1, <1>3, <2>4 DEF Crash, Phases
  <2> QED BY <2>1, <2>2, <2>3, <2>4
<1> QED BY <1>2, <1>4

LEMMA MountingStep == Inv /\ Mounting => Inv'
<1> SUFFICES ASSUME Inv, Mounting PROVE Inv'
  OBVIOUS
<1>1. IInv'
  BY Inductive DEF Inv, Mounting, Next
<1>2. (Files /\ Session)' /\ Phases'
  BY ZeroPhases, SuperPhases, ReservePhases, OtherPhases DEF Mounting
<1> QED BY <1>1, <1>2 DEF Inv

LEMMA MkfsStep == Inv /\ [MkfsNext]_mkfsVars => Inv'
<1> SUFFICES ASSUME Inv, [MkfsNext]_mkfsVars PROVE Inv'
  OBVIOUS
<1>1. CASE Mounting
  BY <1>1, MountingStep
<1>2. CASE Prompts
  <2>1. /\ (Files /\ Session)' /\ pc = "mounted" /\ ~crashed /\ formatted' = FALSE /\ last'.op = "none"
        /\ UNCHANGED <<disk, pc, su, i, first, crashed, tree>>
    BY <1>2, PromptStep
  <2>2. IInv' /\ Phases'
    BY <2>1, MountedPhases
  <2> QED BY <2>1, <2>2 DEF Inv
<1>3. CASE Commands
  <2>1. /\ UNCHANGED <<pc, su, i, first, formatted, crashed, ncmds>> /\ pc = "mounted" /\ cmd.op # "none"
        /\ disk' = disk \/ TakenOne
        /\ cmd' = NoCmd \/ last' = last
    BY <1>3, CommandsDisk
  <2>2. ~crashed /\ last.op = "none" /\ formatted \in BOOLEAN
    BY <2>1, InCommand DEF Inv, Phases
  <2>3. cmd'.op = "none" \/ last'.op = "none"
    <3>1. NoCmd.op = "none"
      BY DEF NoCmd
    <3> QED BY <2>1, <2>2, <3>1
  <2>4. IInv' /\ Phases'
    BY <2>1, <2>2, <2>3, MountedPhases
  <2> QED BY <1>3, <2>4, CommandsStep DEF Inv
<1>4. CASE Kill
  <2>1. /\ pc = "mounted" /\ cmd.op # "none" /\ (disk' = disk \/ TakenOne)
        /\ pc' = "off" /\ su' = Super(0, 0, FALSE) /\ cmd' = NoCmd
        /\ UNCHANGED <<i, first, formatted, crashed, host, last, ncmds>>
    BY <1>4, KillDisk
  <2>2. ~crashed /\ formatted \in BOOLEAN
    BY <2>1, InCommand DEF Inv, Phases
  <2>3. IInv' /\ Phases'
    BY <2>1, <2>2, MountedPhases DEF NoCmd
  <2> QED BY <1>4, <2>3, KillStep DEF Inv
<1>5. CASE UNCHANGED mkfsVars
  <2>1. UNCHANGED vars /\ UNCHANGED session
    BY <1>5 DEF mkfsVars
  <2>2. IInv'
    BY <2>1, Inductive DEF Inv
  <2>3. disk' = disk /\ FreeInodes' = FreeInodes
    BY <2>1 DEF vars, FreeInodes
  <2>4. Phases'
    BY <2>1, <2>3 DEF vars, session, Inv, Phases
  <2>5. (Files /\ Session)'
    BY <2>1, <2>3, PhaseOnly
  <2> QED BY <2>2, <2>4, <2>5 DEF Inv
<1> QED BY <1>1, <1>2, <1>3, <1>4, <1>5 DEF MkfsNext

LEMMA MkfsStart == ASSUME OwnContents PROVE MkfsInit => Inv
<1> SUFFICES ASSUME MkfsInit PROVE Inv
  OBVIOUS
<1>1. /\ Init /\ cmd = NoCmd /\ last = NoCmd /\ ncmds = 0 /\ host \in HostFiles
      /\ tree = IF disk[startlba].su.magic THEN OldTree ELSE <<>>
      /\ source = [n \in DOMAIN tree |-> NoCopy]
  BY DEF MkfsInit
<1>2. IInv /\ disk \in Contents /\ pc = "off" /\ formatted = FALSE /\ crashed = FALSE
  BY <1>1, InitHolds DEF Init
<1>3. /\ NoCmd \in CmdSet /\ NoCmd.op = "none" /\ NoCmd.name = ""
  BY DEF NoCmd, CmdSet, OpSet
<1>4. /\ Tree(tree) /\ Used(tree) <= Room
      /\ \A m, n \in DOMAIN tree : m # n => tree[m].inode # tree[n].inode
      /\ \A n \in DOMAIN tree : Len(tree[n].bytes) <= Longest
  <2>1. CASE tree = OldTree
    BY <2>1, OldTreeAssumption DEF Tree, FileSet, Bytes
  <2>2. CASE tree = <<>>
    <3>1. Used(<<>>) = 0
      <4>1. DOMAIN W(<<>>) = {} /\ Used(<<>>) = Total(W(<<>>))
        BY EmptyTree, UsedType
      <4>2. PICK g : Total(W(<<>>)) = g[DOMAIN W(<<>>)] /\ Sums(W(<<>>), g)
        BY <4>1, FS_EmptySet, TotalRun
      <4>3. g[{}] = Rest(W(<<>>), g, {})
        BY <4>1, <4>2 DEF Sums
      <4> QED BY <4>1, <4>2, <4>3 DEF Rest
    <3> QED BY <2>2, <3>1, EmptyTree, SessionAssumption
  <2> QED BY <1>1, <2>1, <2>2
<1>5. Phases
  <2>1. ASSUME disk[startlba].su.magic PROVE Reserved \cap FreeInodes = {}
    <3>1. \A s \in Reserved : disk[s[1]].types[s[2]] # 0
      BY <1>2, <2>1, OldTreeAssumption
    <3> QED BY <3>1 DEF FreeInodes
  <2>2. DOMAIN tree # {} => disk[startlba].su.magic
    BY <1>1, EmptyTree
  <2> QED BY <1>1, <1>2, <1>3, <2>1, <2>2 DEF Phases
<1>6. Shape
  <2>1. host \in [Hosts -> Bytes]
    BY <1>1, SessionAssumption DEF Bytes
  <2> QED BY <1>1, <1>4, <2>1, NoCopyOf DEF Shape
<1>7. InodesMatch
  <2>1. ASSUME disk[startlba].su.magic
        PROVE  \A n \in DOMAIN OldTree :
                 LET s == OldTree[n].inode IN s \in Table /\ disk[s[1]].types[s[2]] = OldTree[n].type
    BY <1>2, <2>1, OldTreeAssumption
  <2>2. \A n \in DOMAIN tree : LET s == tree[n].inode IN s \in Table /\ disk[s[1]].types[s[2]] = tree[n].type
    BY <1>1, <2>1, EmptyTree
  <2> QED BY <1>4, <2>2 DEF InodesMatch
<1>8. Sizes
  <2>1. \A h \in Hosts : Len(host[h]) <= Longest
    BY <1>1, Lengths
  <2> QED BY <1>4, <2>1 DEF Sizes
<1>9. Copies
  BY <1>1, NoCopyOf DEF Copies
<1>10. Words
  <2>1. cmd \in CmdSet /\ cmd.op = "none"
    BY <1>1, <1>3
  <2>2. ncmds \in 0 .. MaxCmds
    BY <1>1, SessionAssumption
  <2> QED BY <2>1, <2>2 DEF Words
<1> QED BY <1>1, <1>2, <1>3, <1>5, <1>6, <1>7, <1>8, <1>9, <1>10 DEF Inv, Files, Session, Copying, Fetching, Fetched

-----------------------------------------------------------------------------
(***************************************************************************)
(* The theorems.                                                           *)
(***************************************************************************)
LEMMA TypesFollow == Inv => MkfsTypeOK
<1> SUFFICES ASSUME Inv PROVE MkfsTypeOK
  OBVIOUS
<1>1. TypeOK
  <2>1. disk \in [Disk -> Sector] /\ su \in OwnSupers /\ i \in Nat
    BY DEF Inv, IInv
  <2>2. i <= nsectors
    <3>1. su.nblock_tot \in Nat /\ (su.nblock_tot # 0 => su.nblock_tot = nsectors) /\ nsectors \in Nat
      BY <2>1, Supers, Layout
    <3> QED BY <2>1, <3>1 DEF Inv, IInv
  <2>3. su \in {Super(0, 0, FALSE), Super(startlba, nsectors, FALSE), SuperBlock.su}
    BY <2>1 DEF OwnSupers, SuperBlock, Block
  <2>4. pc \in {"off", "zero", "alloc0", "alloc1", "init", "mounted"} /\ formatted \in BOOLEAN /\ crashed \in BOOLEAN
    BY DEF Inv, Phases
  <2>5. i \in 0 .. nsectors
    BY <2>1, <2>2, Layout
  <2> QED BY <2>1, <2>3, <2>4, <2>5 DEF TypeOK
<1>2. Tree(tree) /\ DOMAIN source = DOMAIN tree /\ Used(tree) <= Room /\ \A n \in DOMAIN tree : Len(tree[n].bytes) <= Longest
  BY DEF Inv, Files, Shape, Sizes
<1>3. \A n \in DOMAIN tree : tree[n].inode \in (Table \ Reserved) \cup {Outside} /\ tree[n].type \in {T_REG, T_DIR}
  BY <1>2 DEF Tree, FileSet
<1>4. cmd.op \in Ops \cup {"none", "open", "copy", "fetch", "panic"} /\ cmd.name \in Names \cup {Root, ""} /\ ncmds \in 0 .. MaxCmds
  BY DEF Inv, Session, Words, CmdSet, OpSet
<1>5. cmd.op # "none" => pc = "mounted"
  BY DEF Inv, Phases
<1> QED BY <1>1, <1>2, <1>3, <1>4, <1>5 DEF MkfsTypeOK, Tree

LEMMA CopiesFollow == Inv => CopiesAreRight
<1> SUFFICES ASSUME Inv PROVE CopiesAreRight
  OBVIOUS
<1>1. ASSUME NEW n \in DOMAIN tree, source[n].of # Absent
      PROVE  /\ Len(tree[n].bytes) <= Len(source[n].of) /\ tree[n].bytes = SubSeq(source[n].of, 1, Len(tree[n].bytes))
             /\ source[n].done => Len(tree[n].bytes) = Len(source[n].of)
  <2> DEFINE b == tree[n].bytes
             c == source[n].of
  <2>1. b \in Bytes /\ c \in Bytes
    BY DEF Inv, Files, Shape, Tree, FileSet, CopySet
  <2>2. Starts(b, c) /\ (source[n].done => Len(b) = Len(c))
    BY <1>1 DEF Inv, Files, Copies, CopyOf
  <2>3. b = SubSeq(c, 1, Len(b))
    <3> DEFINE d == SubSeq(c, 1, Len(b))
    <3> HIDE DEF b, c
    <3>1. Len(b) \in Nat /\ Len(c) \in Nat /\ Len(b) <= Len(c)
      BY <2>1, <2>2, LenProperties DEF Bytes, Starts
    <3>2. d \in Bytes /\ Len(d) = Len(b) /\ \A k \in 1 .. Len(b) : d[k] = c[k]
      BY <2>1, <3>1, SubSeqProperties DEF Bytes
    <3>3. Starts(b, d)
      BY <2>2, <3>1, <3>2 DEF Starts
    <3> QED BY <2>1, <3>2, <3>3, SameBytes
  <2> QED BY <2>2, <2>3 DEF Starts
<1>2. RetrievedIsFile
  BY DEF Inv, Session, Fetched, RetrievedIsFile
<1> QED BY <1>1, <1>2 DEF CopiesAreRight, MigratedIsPrefix

\* mkfs keeps to its partition in a session too.
THEOREM SessionInside == ASSUME OwnContents PROVE MkfsSpec => []WritesInside
<1>1. MkfsInit => Inv
  BY MkfsStart
<1>2. Inv => WritesInside
  BY DEF Inv, IInv
<1> QED BY <1>1, <1>2, MkfsStep, PTL DEF MkfsSpec

\* The variables keep their types, no file outgrows what the commands can
\* write, and the room is kept to.
THEOREM TypeCorrect == ASSUME OwnContents PROVE MkfsSpec => []MkfsTypeOK
<1>1. MkfsInit => Inv
  BY MkfsStart
<1> QED BY <1>1, TypesFollow, MkfsStep, PTL DEF MkfsSpec

\* Every name has an inode of its own in the table, of the type it was made
\* with, however often mkfs was stopped, as long as write was given files only.
THEOREM InodesAreRight == ASSUME OwnContents PROVE MkfsSpec => []InodesMatch
<1>1. MkfsInit => Inv
  BY MkfsStart
<1>2. Inv => InodesMatch
  BY DEF Inv, Files
<1> QED BY <1>1, <1>2, MkfsStep, PTL DEF MkfsSpec

\* migrate and retrieve copy files right.
THEOREM CopiedRight == ASSUME OwnContents PROVE MkfsSpec => []CopiesAreRight
<1>1. MkfsInit => Inv
  BY MkfsStart
<1> QED BY <1>1, CopiesFollow, MkfsStep, PTL DEF MkfsSpec

-----------------------------------------------------------------------------
Survives ==
  \A n \in DOMAIN tree : ~Endangered(n) =>
    /\ n \in DOMAIN tree'
    /\ tree'[n].inode = tree[n].inode /\ tree'[n].type = tree[n].type
    /\ tree'[n].bytes # tree[n].bytes => n = cmd.name /\ cmd.op \in {"copy", "write"}

LEMMA WithKeeps == ASSUME NEW n, NEW f, n \notin DOMAIN tree, tree' = With(tree, n, f) PROVE Survives
BY DEF With, Survives

LEMMA WritingKeeps ==
  ASSUME Tree(tree), cmd.name \in DOMAIN tree, NEW c, tree' = WithBytes(cmd.name, c), cmd.op \in {"copy", "write"}
  PROVE  Survives
<1> DEFINE n == cmd.name
           new == [tree[n] EXCEPT !.bytes = c]
<1>1. tree' = [tree EXCEPT ![n] = new]
  BY DEF WithBytes
<1>2. tree[n] \in FileSet
  BY DEF Tree
<1>3. new.inode = tree[n].inode /\ new.type = tree[n].type
  BY <1>2 DEF FileSet
<1> HIDE DEF new
<1>4. DOMAIN tree' = DOMAIN tree /\ tree'[n] = new /\ \A m \in DOMAIN tree : m # n => tree'[m] = tree[m]
  BY <1>1
<1> QED BY <1>3, <1>4 DEF Survives

\* What is below a directory on any level: the names in it, and what is below
\* one of them.
LEMMA Below ==
  ASSUME NEW d
  PROVE  /\ \A n \in Names : Parent[n] = d => n \in Under(d)
         /\ \A n \in Under(d) : Under(n) \subseteq Under(d)
<1> DEFINE Closed(S, e) == \A m \in Names : Parent[m] \in S \cup {e} => m \in S
<1>1. \A e : \A n : n \in Under(e) <=> n \in Names /\ \A S \in SUBSET Names : Closed(S, e) => n \in S
  BY DEF Under
<1>2. ASSUME NEW n \in Names, Parent[n] = d PROVE n \in Under(d)
  <2>1. \A S \in SUBSET Names : Closed(S, d) => n \in S
    BY <1>2
  <2> HIDE DEF Closed
  <2> QED BY <1>1, <2>1
<1>3. ASSUME NEW n \in Under(d), NEW m \in Under(n) PROVE m \in Under(d)
  <2>1. ASSUME NEW S \in SUBSET Names, Closed(S, d) PROVE m \in S
    <3>1. n \in S
      <4> HIDE DEF Closed
      <4> QED BY <1>1, <2>1
    <3>2. S \cup {n} = S
      BY <3>1
    <3>3. Closed(S, n)
      BY <2>1, <3>2
    <3> HIDE DEF Closed
    <3> QED BY <1>1, <3>3
  <2> HIDE DEF Closed
  <2> QED BY <1>1, <2>1
<1> QED BY <1>2, <1>3

\* A directory is written to.
LEMMA ScribbleKeeps == Tree(tree) /\ cmd.op = "write" /\ Scribble(cmd.name) => Survives
<1> SUFFICES ASSUME Tree(tree), cmd.op = "write", Scribble(cmd.name),
                    NEW n \in DOMAIN tree, n \notin Under(cmd.name)
             PROVE  n \in DOMAIN tree' /\ tree'[n] = tree[n]
  BY DEF Survives, Endangered
<1>1. PICK hit \in SUBSET Children(cmd.name) :
        \E gone \in SUBSET hit : \E s \in (Table \ Reserved) \cup {Outside} :
          LET left == DOMAIN tree \ (gone \cup UNION {Under(m) : m \in hit}) IN
          /\ tree' = [m \in left |-> IF m \in hit THEN [tree[m] EXCEPT !.inode = s] ELSE tree[m]]
          /\ source' = [m \in left |-> source[m]]
  BY DEF Scribble
<1>2. PICK gone \in SUBSET hit, s \in (Table \ Reserved) \cup {Outside} :
        LET left == DOMAIN tree \ (gone \cup UNION {Under(m) : m \in hit}) IN
        tree' = [m \in left |-> IF m \in hit THEN [tree[m] EXCEPT !.inode = s] ELSE tree[m]]
  BY <1>1
<1>3. \A m \in hit : m \in Under(cmd.name)
  BY Below DEF Children, Tree
<1>4. n \notin hit /\ \A m \in hit : n \notin Under(m)
  BY <1>3, Below
<1>5. n \in DOMAIN tree \ (gone \cup UNION {Under(m) : m \in hit})
  BY <1>4
<1> QED BY <1>2, <1>4, <1>5

LEMMA CommandsKeep == Inv /\ Commands => Survives
<1> SUFFICES ASSUME Inv, Commands PROVE Survives
  OBVIOUS
<1>1. Tree(tree) /\ (cmd.op \in {"open", "copy"} => cmd.name \in DOMAIN tree)
  BY DEF Inv, Files, Shape, Session, Words
<1>2. \A n, type : n \notin DOMAIN tree /\ Create(n, type) => Survives
  BY WithKeeps DEF Create
<1>3. CASE MigrateByte
  BY <1>1, <1>3, WritingKeeps DEF MigrateByte, Running
<1>4. CASE WriteFile
  BY <1>1, <1>4, WritingKeeps DEF WriteFile, Running, Found, Directory
<1>9. CASE WriteDirectory
  BY <1>1, <1>9, ScribbleKeeps DEF WriteDirectory, Running
<1>5. CASE MigrateCreate
  BY <1>2, <1>5 DEF MigrateCreate, Found
<1>6. CASE Mknod
  <2>1. CASE tree' = tree
    BY <2>1 DEF Survives
  <2> QED BY <1>2, <1>6, <2>1 DEF Mknod, Found
<1>7. CASE UNCHANGED tree
  BY <1>7 DEF Survives
<1>8. Tell \/ MigratePanic \/ MigrateOpen \/ MigrateEnd \/ RetrieveOpen \/ RetrieveByte \/ RetrieveEnd \/ WriteRefused
        => UNCHANGED tree
  BY DEF Tell, MigratePanic, MigrateOpen, MigrateEnd, RetrieveOpen, RetrieveByte, RetrieveEnd, WriteRefused
<1> QED BY <1>3, <1>4, <1>5, <1>6, <1>7, <1>8, <1>9 DEF Commands, Write

LEMMA StepKeeps == Inv /\ [MkfsNext]_mkfsVars => Survives \/ UNCHANGED mkfsVars
<1> SUFFICES ASSUME Inv, MkfsNext PROVE Survives
  OBVIOUS
<1>1. ASSUME UNCHANGED tree PROVE Survives
  BY <1>1 DEF Survives
<1>2. CASE Mounting
  <2>1. CASE WriteSuper
    <3>1. DOMAIN tree = {}
      BY <2>1 DEF WriteSuper, Inv, Phases
    <3> QED BY <3>1 DEF Survives
  <2> QED BY <1>1, <1>2, <2>1 DEF Mounting, session
<1>3. CASE Prompts
  BY <1>1, <1>3, PromptStep
<1>4. CASE Kill
  <2>1. Tree(tree)
    BY DEF Inv, Files, Shape
  <2> QED BY <1>1, <1>4, <2>1, WritingKeeps, ScribbleKeeps DEF Kill, HalfDone
<1> QED BY <1>2, <1>3, <1>4, CommandsKeep DEF MkfsNext

\* Neither a command nor another start of mkfs removes a file, changes its
\* inode, or touches the bytes of a file but the one it was given; only names
\* below a directory that write was given come to harm.
THEOREM FilesAreKept == ASSUME OwnContents PROVE MkfsSpec => FilesSurvive
<1>1. MkfsInit => Inv
  BY MkfsStart
<1>2. Inv /\ [MkfsNext]_mkfsVars => [Survives]_mkfsVars
  BY StepKeeps
<1>3. MkfsSpec => [][Survives]_mkfsVars
  BY <1>1, <1>2, MkfsStep, PTL DEF MkfsSpec
<1> QED BY <1>3 DEF Survives, FilesSurvive

-----------------------------------------------------------------------------
\* What FsFormatProofs shows of a partition that was formatted also holds until
\* the first command.
Unused == cmd.op # "none" => ~formatted

LEMMA CleanUse ==
  ASSUME Inv, pc = "mounted", ~crashed, disk' = disk \/ TakenOne, formatted' = FALSE,
         pc' \in {"mounted", "off"}
  PROVE  Clean'
<1>1. disk'[startlba].su.magic
  BY DiskKept DEF Inv
<1>2. disk'[startlba].su # BlankSuper
  BY <1>1 DEF BlankSuper, Super
<1> QED BY <1>1, <1>2 DEF Clean, Progress

LEMMA UnusedStep == Inv /\ Clean /\ Unused /\ [MkfsNext]_mkfsVars => (Clean /\ Unused)'
<1> SUFFICES ASSUME Inv, Clean, Unused, [MkfsNext]_mkfsVars PROVE (Clean /\ Unused)'
  OBVIOUS
<1>1. CASE Mounting
  <2>1. Clean'
    BY <1>1, CleanZero, CleanReserve, CleanOther DEF Inv, Mounting
  <2>2. cmd' = cmd
    BY <1>1 DEF Mounting, session
  <2>3. cmd.op # "none" => ~formatted'
    <3>1. cmd.op # "none" => pc = "mounted"
      BY DEF Inv, Phases
    <3> QED BY <1>1, <3>1 DEF Mounting, Start, Zero, WriteSuper, Reserve, Mount, Quit, Crash, Unused
  <2> QED BY <2>1, <2>2, <2>3 DEF Unused
<1>2. CASE Prompts
  <2>1. pc = "mounted" /\ ~crashed /\ formatted' = FALSE /\ UNCHANGED <<disk, pc>>
    BY <1>2, PromptStep
  <2> QED BY <2>1, CleanUse DEF Unused
<1>3. CASE Commands
  <2>1. UNCHANGED <<pc, formatted>> /\ pc = "mounted" /\ cmd.op # "none" /\ (disk' = disk \/ TakenOne)
    BY <1>3, CommandsDisk
  <2>2. ~crashed /\ formatted' = FALSE
    BY <2>1, InCommand DEF Unused, Inv, Phases
  <2> QED BY <2>1, <2>2, CleanUse DEF Unused
<1>4. CASE Kill
  <2>1. pc = "mounted" /\ cmd.op # "none" /\ (disk' = disk \/ TakenOne) /\ pc' = "off" /\ formatted' = formatted
    BY <1>4, KillDisk
  <2>2. ~crashed /\ formatted' = FALSE
    BY <2>1, InCommand DEF Unused, Inv, Phases
  <2> QED BY <2>1, <2>2, CleanUse DEF Unused
<1>5. CASE UNCHANGED mkfsVars
  BY <1>5, CleanOther DEF mkfsVars, session, Inv, Unused, vars
<1> QED BY <1>1, <1>2, <1>3, <1>4, <1>5 DEF MkfsNext

\* A partition that mkfs has formatted without a stop holds the two reserved
\* inodes and nothing else until it is given a command, whatever sessions there
\* were before.
THEOREM SessionStartsEmpty ==
  ASSUME OwnContents, BlankIsZero PROVE MkfsSpec => []FormattedIsEmpty
<1>1. MkfsInit => Inv /\ Clean /\ Unused
  <2>1. NoCmd.op = "none"
    BY DEF NoCmd
  <2>2. MkfsInit => Unused
    BY <2>1 DEF MkfsInit, Unused
  <2>3. MkfsInit => Clean
    BY CleanStart DEF MkfsInit
  <2> QED BY <2>2, <2>3, MkfsStart
<1>2. Inv /\ Clean /\ Unused /\ [MkfsNext]_mkfsVars => (Inv /\ Clean /\ Unused)'
  BY MkfsStep, UnusedStep
<1>3. Inv /\ Clean => FormattedIsEmpty
  BY DEF Inv, Clean, Progress, Filled, FormattedIsEmpty
<1> QED BY <1>1, <1>2, <1>3, PTL DEF MkfsSpec

-----------------------------------------------------------------------------
(***************************************************************************)
(* A panic() has a reason: what fs_write() did not store would not have    *)
(* had room on the disk or in the largest file, and what fs_mknod() did    *)
(* not make has no inode, no room or no place.                             *)
(***************************************************************************)
\* One byte more takes room for one more at most.
LEMMA WeightGrows ==
  ASSUME NEW b \in Bytes, NEW buf \in Bytes, NEW m \in Nat, m < Len(buf), NEW off \in Nat
  PROVE  Weight(Overwritten(b, buf, m + 1, off)) <= Weight(Overwritten(b, buf, m, off)) + 1
<1> DEFINE c == Overwritten(b, buf, m, off)
           d == Overwritten(b, buf, m + 1, off)
           C == {k \in DOMAIN c : c[k] # 0}
           D == {k \in DOMAIN d : d[k] # 0}
<1>1. Len(b) \in Nat /\ Len(buf) \in Nat
  BY LenProperties DEF Bytes
<1>2. m \in 0 .. Len(buf) /\ m + 1 \in 0 .. Len(buf)
  BY <1>1
<1>3. IsOver(c, b, buf, m, off) /\ IsOver(d, b, buf, m + 1, off)
  BY <1>2, Overwriting
<1> HIDE DEF c, d
<1>4. DOMAIN c = 1 .. Len(c) /\ DOMAIN d = 1 .. Len(d) /\ Len(c) \in Nat /\ Len(d) \in Nat
  BY <1>3, LenProperties DEF IsOver, Bytes
<1>5. D \subseteq C \cup {off + m + 1}
  <2> SUFFICES ASSUME NEW k \in 1 .. Len(d), d[k] # 0, k # off + m + 1 PROVE k \in 1 .. Len(c) /\ c[k] # 0
    BY <1>4
  <2>1. k \in Nat /\ k >= 1
    BY <1>4
  <2>2. d[k] = IF k > off /\ k <= off + m THEN buf[k - off] ELSE IF k <= Len(b) THEN b[k] ELSE 0
    <3>1. k <= off + (m + 1) <=> k <= off + m
      BY <2>1
    <3> QED BY <1>3, <3>1 DEF IsOver
  <2>3. k <= off + m \/ k <= Len(b)
    BY <2>2
  <2>4. k \in 1 .. Len(c)
    BY <1>1, <1>3, <2>1, <2>3 DEF IsOver
  <2>5. c[k] = IF k > off /\ k <= off + m THEN buf[k - off] ELSE IF k <= Len(b) THEN b[k] ELSE 0
    BY <1>3, <2>4 DEF IsOver
  <2> QED BY <2>2, <2>4, <2>5
<1>6. IsFiniteSet(C) /\ Cardinality(C) \in Nat
  <2>1. C \subseteq 1 .. Len(c) /\ IsFiniteSet(1 .. Len(c))
    BY <1>4, FS_Interval
  <2> QED BY <2>1, FS_Subset, FS_CardinalityType
<1> DEFINE E == C \cup {off + m + 1}
<1>7. IsFiniteSet(E) /\ Cardinality(E) <= Cardinality(C) + 1 /\ Cardinality(E) \in Nat
  <2> HIDE DEF C
  <2>1. IsFiniteSet(E) /\ Cardinality(E) = IF off + m + 1 \in C THEN Cardinality(C) ELSE Cardinality(C) + 1
    BY <1>6, FS_AddElement
  <2> QED BY <1>6, <2>1, FS_CardinalityType
<1>8. Cardinality(D) <= Cardinality(E) /\ Cardinality(D) \in Nat
  <2> HIDE DEF C, D
  <2>1. D \subseteq E
    BY <1>5
  <2> HIDE DEF E
  <2> QED BY <1>7, <2>1, FS_Subset, FS_CardinalityType
<1>9. Weight(c) = 1 + Cardinality(C) /\ Weight(d) = 1 + Cardinality(D)
  BY DEF Weight
<1> HIDE DEF C, D, E
<1>10. Weight(d) <= Weight(c) + 1
  BY <1>6, <1>7, <1>8, <1>9
<1> QED BY <1>10 DEF c, d

\* Two sums of which one number differs.
LEMMA TotalOne ==
  ASSUME NEW w, NEW v, IsFiniteSet(DOMAIN w), DOMAIN v = DOMAIN w, NEW n \in DOMAIN w,
         \A x \in DOMAIN w : w[x] \in Nat /\ v[x] \in Nat, \A x \in DOMAIN w \ {n} : v[x] = w[x]
  PROVE  /\ Total(v) + w[n] = Total(w) + v[n]
         /\ Total(v) \in Nat /\ Total(w) \in Nat
<1> DEFINE r == [x \in DOMAIN w \ {n} |-> w[x]]
<1>1. /\ DOMAIN r = DOMAIN w \ {n} /\ n \notin DOMAIN r /\ DOMAIN w = DOMAIN r \cup {n}
      /\ \A x \in DOMAIN r : r[x] \in Nat /\ w[x] = r[x] /\ v[x] = r[x]
  OBVIOUS
<1>2. IsFiniteSet(DOMAIN r)
  BY <1>1, FS_Subset
<1> HIDE DEF r
<1>3. Total(r) \in Nat
  BY <1>1, <1>2, TotalType
<1>4. Total(w) = w[n] + Total(r)
  BY <1>1, <1>2, TotalAdd
<1>5. Total(v) = v[n] + Total(r)
  <2>1. DOMAIN v = DOMAIN r \cup {n}
    BY <1>1
  <2> QED BY <1>1, <1>2, <2>1, TotalAdd
<1>6. w[n] \in Nat /\ v[n] \in Nat
  OBVIOUS
<1> QED BY <1>3, <1>4, <1>5, <1>6

\* A file's bytes become those of c or of d, which weighs one more at most.
LEMMA UsedGrows ==
  ASSUME Tree(tree), NEW n \in DOMAIN tree, NEW c \in Bytes, NEW d \in Bytes, Weight(d) <= Weight(c) + 1
  PROVE  /\ Used(WithBytes(n, c)) \in Nat /\ Used(WithBytes(n, d)) \in Nat
         /\ Used(WithBytes(n, d)) <= Used(WithBytes(n, c)) + 1
<1> DEFINE t == WithBytes(n, c)
           u == WithBytes(n, d)
<1>1. DOMAIN t = DOMAIN tree /\ Tree(t) /\ t[n].bytes = c /\ \A m \in DOMAIN tree : m # n => t[m] = tree[m]
  BY Changed
<1>2. DOMAIN u = DOMAIN tree /\ Tree(u) /\ u[n].bytes = d /\ \A m \in DOMAIN tree : m # n => u[m] = tree[m]
  BY Changed
<1> HIDE DEF t, u
<1>3. /\ Used(t) \in Nat /\ Used(t) = Total(W(t)) /\ DOMAIN W(t) = DOMAIN t
      /\ IsFiniteSet(DOMAIN t) /\ \A m \in DOMAIN t : W(t)[m] = Weight(t[m].bytes) /\ W(t)[m] \in Nat
  BY <1>1, UsedType
<1>4. /\ Used(u) \in Nat /\ Used(u) = Total(W(u)) /\ DOMAIN W(u) = DOMAIN u
      /\ \A m \in DOMAIN u : W(u)[m] = Weight(u[m].bytes) /\ W(u)[m] \in Nat
  BY <1>2, UsedType
<1>5. \A m \in DOMAIN tree \ {n} : W(u)[m] = W(t)[m]
  BY <1>1, <1>2, <1>3, <1>4
<1>6. Total(W(u)) + W(t)[n] = Total(W(t)) + W(u)[n]
  <2> DEFINE w == W(t)
             v == W(u)
  <2>1. /\ IsFiniteSet(DOMAIN w) /\ DOMAIN v = DOMAIN w /\ n \in DOMAIN w
        /\ \A m \in DOMAIN w : w[m] \in Nat /\ v[m] \in Nat
        /\ \A m \in DOMAIN w \ {n} : v[m] = w[m]
    BY <1>1, <1>2, <1>3, <1>4, <1>5
  <2> HIDE DEF w, v
  <2>2. Total(v) + w[n] = Total(w) + v[n]
    BY <2>1, TotalOne
  <2> QED BY <2>2 DEF w, v
<1>7. W(t)[n] = Weight(c) /\ W(u)[n] = Weight(d) /\ Weight(c) \in Nat /\ Weight(d) \in Nat
  BY <1>1, <1>2, <1>3, <1>4, Weights
<1>8. Used(u) <= Used(t) + 1
  BY <1>3, <1>4, <1>6, <1>7
<1> QED BY <1>3, <1>4, <1>8 DEF t, u

\* If not all is stored, the disk is full or the file would grow too large.
LEMMA StoredFull ==
  ASSUME Shape, Used(tree) <= Room, NEW n \in DOMAIN tree, NEW buf \in Bytes, NEW off \in Nat,
         Stored(n, buf, off) # Len(buf)
  PROVE  \/ Used(WithBytes(n, Overwritten(tree[n].bytes, buf, Stored(n, buf, off), off))) = Room
         \/ off + Len(buf) > MaxFile
<1> DEFINE b == tree[n].bytes
           m == Stored(n, buf, off)
           T == {k \in 0 .. Len(buf) : Fits(n, buf, k, off)}
           c == Overwritten(b, buf, m, off)
           d == Overwritten(b, buf, m + 1, off)
<1>1. Len(buf) \in Nat /\ b \in Bytes /\ Tree(tree)
  BY LenProperties DEF Bytes, Shape, Tree, FileSet
<1>2. m \in 0 .. Len(buf) /\ Fits(n, buf, m, off) /\ Used(WithBytes(n, c)) <= Room
  BY Storing
<1>3. m \in Nat /\ m < Len(buf) /\ m + 1 \in 0 .. Len(buf)
  BY <1>1, <1>2
<1>4. m \in T
  <2> HIDE DEF m
  <2> QED BY <1>2
<1>5. T \subseteq Int /\ IsFiniteSet(T)
  <2>1. T \subseteq 0 .. Len(buf) /\ IsFiniteSet(0 .. Len(buf)) /\ 0 .. Len(buf) \subseteq Int
    BY <1>1, FS_Interval
  <2> QED BY <2>1, FS_Subset
<1>6. m = Max(T)
  BY DEF Stored
<1>7. \A x \in T : m >= x
  <2> HIDE DEF T, m
  <2> QED BY <1>4, <1>5, <1>6, MaxOf
<1>8. ~Fits(n, buf, m + 1, off)
  <2> HIDE DEF m
  <2>1. m + 1 \in T => FALSE
    <3> HIDE DEF T
    <3> QED BY <1>3, <1>7
  <2> QED BY <1>3, <2>1
<1>9. c \in Bytes /\ d \in Bytes
  <2> HIDE DEF m, b
  <2>1. IsOver(c, b, buf, m, off) /\ IsOver(d, b, buf, m + 1, off)
    BY <1>1, <1>2, <1>3, Overwriting
  <2> QED BY <2>1 DEF IsOver
<1>10. Weight(d) <= Weight(c) + 1
  <2> HIDE DEF m, b
  <2> QED BY <1>1, <1>3, WeightGrows
<1>12. Room \in Nat /\ MaxFile \in Nat
  BY SessionAssumption
<1>15. SUFFICES ASSUME ~(off + Len(buf) > MaxFile)
                PROVE  Used(WithBytes(n, c)) = Room
  OBVIOUS
<1>16. off + (m + 1) <= MaxFile
  <2> HIDE DEF m
  <2> QED BY <1>1, <1>3, <1>12, <1>15
<1>11. ~(Used(WithBytes(n, d)) <= Room)
  BY <1>8, <1>16 DEF Fits
<1> HIDE DEF c, d, m
<1>13. /\ Used(WithBytes(n, c)) \in Nat /\ Used(WithBytes(n, d)) \in Nat
       /\ Used(WithBytes(n, d)) <= Used(WithBytes(n, c)) + 1
  BY <1>1, <1>9, <1>10, UsedGrows
<1>14. Used(WithBytes(n, c)) = Room
  BY <1>2, <1>11, <1>12, <1>13
<1> QED BY <1>14

LEMMA NoneOp == NoCmd.op = "none"
BY DEF NoCmd

LEMMA MigrateByteReason == Inv /\ MigrateByte => PanicsHaveReason'
<1> SUFFICES ASSUME Inv, MigrateByte, cmd'.op = "panic" PROVE Reason'
  BY DEF PanicsHaveReason
<1> DEFINE n == cmd.name
           buf == <<host[cmd.host][cmd.off + 1]>>
           m == Stored(n, buf, cmd.off)
<1>1. /\ cmd.op = "copy" /\ pc = "mounted" /\ cmd.off < Len(host[cmd.host])
      /\ tree' = WithBytes(n, Overwritten(tree[n].bytes, buf, m, cmd.off))
      /\ cmd' = IF m = 1 THEN [cmd EXCEPT !.off = @ + 1] ELSE [cmd EXCEPT !.op = "panic"]
  BY DEF MigrateByte, Running, Position
<1>2. Words /\ cmd \in CmdSet /\ n \in DOMAIN tree /\ cmd.host \in Hosts /\ Shape /\ Used(tree) <= Room /\ cmd.off \in Nat
  BY <1>1, InCommand DEF Words, Inv, CmdSet, Files, Sizes
<1>3. buf \in Bytes /\ Len(buf) = 1
  <2>1. host[cmd.host] \in Seq(Int)
    BY <1>2 DEF Shape, Bytes
  <2>2. host[cmd.host][cmd.off + 1] \in Int
    BY <1>1, <1>2, <2>1, LenProperties, ElementOfSeq
  <2> QED BY <2>2 DEF Bytes
<1> HIDE DEF buf
<1>4. m # 1
  <2> SUFFICES ASSUME m = 1 PROVE FALSE
    OBVIOUS
  <2>1. cmd' = [cmd EXCEPT !.off = @ + 1]
    BY <1>1
  <2>2. cmd'.op = "copy"
    BY <1>1, <1>2, <2>1, Advanced
  <2> QED BY <2>2
<1>5. Used(tree') = Room \/ cmd.off + 1 > MaxFile
  BY <1>1, <1>2, <1>3, <1>4, StoredFull
<1>6. cmd'.off = cmd.off
  BY <1>1, <1>2, <1>4, PanicWords
<1>7. cmd.off + 1 > MaxFile => cmd'.off >= MaxFile
  BY <1>2, <1>6, SessionAssumption
<1> QED BY <1>5, <1>7 DEF Reason, Full, TooLarge

LEMMA WriteFileReason == Inv /\ WriteFile => PanicsHaveReason'
<1> SUFFICES ASSUME Inv, WriteFile, cmd'.op = "panic" PROVE Reason'
  BY DEF PanicsHaveReason
<1> DEFINE n == cmd.name
           m == Stored(n, Buffer, cmd.off)
<1>1. /\ cmd.op = "write" /\ pc = "mounted" /\ n \in DOMAIN tree /\ ~Refused(cmd.sz)
      /\ tree' = WithBytes(n, Overwritten(tree[n].bytes, Buffer, m, cmd.off))
      /\ IF m = Cut(cmd.sz) THEN Return(TRUE) ELSE Go("panic")
  BY DEF WriteFile, Running, Expected, Found, Directory
<1>2. Words /\ Shape /\ Used(tree) <= Room /\ cmd \in CmdSet /\ cmd.off \in Nat
  BY <1>1, InCommand DEF Inv, CmdSet, Files, Sizes
<1>3. Buffer \in Bytes /\ Len(Buffer) = Cut(cmd.sz)
  BY <1>1, <1>2, BufferFits
<1>4. m # Cut(cmd.sz) /\ Go("panic")
  <2>1. ~Return(TRUE)
    BY NoneOp DEF Return
  <2> QED BY <1>1, <2>1
<1>5. Used(tree') = Room \/ cmd.off + Cut(cmd.sz) > MaxFile
  BY <1>1, <1>2, <1>3, <1>4, StoredFull
<1>6. cmd'.off = cmd.off /\ cmd'.sz = cmd.sz
  BY <1>2, <1>4, Went DEF OpSet
<1>7. Cut(cmd.sz)' = Cut(cmd.sz)
  BY <1>6 DEF Cut
<1> QED BY <1>5, <1>6, <1>7 DEF Reason, Full, TooLarge

LEMMA WriteRefusedReason == Inv /\ WriteRefused => PanicsHaveReason'
<1> SUFFICES ASSUME Inv, WriteRefused, cmd'.op = "panic" PROVE Reason'
  BY DEF PanicsHaveReason
<1>1. Refused(cmd.sz) /\ (IF Cut(cmd.sz) = -1 THEN Return(FALSE) ELSE Go("panic"))
  BY DEF WriteRefused, Expected
<1>2. cmd \in CmdSet /\ cmd.sz \in Int
  BY DEF Inv, Session, Words, CmdSet
<1>3. Cut(cmd.sz) # -1 /\ Go("panic")
  <2>1. ~Return(FALSE)
    BY NoneOp DEF Return
  <2> QED BY <1>1, <2>1
<1>4. cmd.sz < -1
  <2>1. cmd.sz <= -1 /\ BUFSZ \in Nat
    BY <1>1, <1>2, SessionAssumption DEF Refused
  <2>2. Cut(cmd.sz) = cmd.sz
    BY <1>2, <2>1, Cutting
  <2> QED BY <1>2, <1>3, <2>1, <2>2
<1>5. cmd'.sz = cmd.sz
  BY <1>2, <1>3, Went DEF OpSet
<1> QED BY <1>4, <1>5 DEF Reason

LEMMA WriteDirectoryReason == WriteDirectory => PanicsHaveReason'
BY DEF WriteDirectory, Scribble, PanicsHaveReason, Reason

LEMMA MigratePanicReason == Inv /\ MigratePanic => PanicsHaveReason'
<1> SUFFICES ASSUME Inv, MigratePanic PROVE Reason'
  BY DEF PanicsHaveReason
<1>1. ~Found(cmd.name) /\ ~Creatable(cmd.name) /\ Go("panic") /\ UNCHANGED <<disk, tree>>
  BY DEF MigratePanic
<1>2. FreeInodes' = FreeInodes /\ Used(tree') = Used(tree)
  BY <1>1 DEF FreeInodes
<1>3. Used(tree) \in Nat /\ Used(tree) <= Room /\ Room \in Nat
  BY UsedType, SessionAssumption DEF Inv, Files, Shape, Sizes
<1>4. ~Placed(cmd.name) \/ FreeInodes = {} \/ Used(tree) = Room
  BY <1>1, <1>3 DEF Creatable
<1>5. cmd'.name = cmd.name
  BY <1>1, Went DEF OpSet, Inv, Session, Words
<1>6. Found(cmd.name)' = Found(cmd.name) /\ Placed(cmd.name)' = Placed(cmd.name)
  BY <1>1, <1>5 DEF Found, Placed, Directory
<1> QED BY <1>1, <1>2, <1>4, <1>6 DEF Reason, Full, Misplaced

\* The other commands return or go on.
LEMMA OthersGoOn ==
  Inv /\ (Tell \/ Mknod \/ MigrateCreate \/ MigrateOpen \/ MigrateEnd \/ RetrieveOpen \/ RetrieveByte \/ RetrieveEnd)
    => cmd'.op # "panic"
<1> SUFFICES ASSUME Inv,
                    Tell \/ Mknod \/ MigrateCreate \/ MigrateOpen \/ MigrateEnd \/ RetrieveOpen \/ RetrieveByte \/ RetrieveEnd
             PROVE  cmd'.op # "panic"
  OBVIOUS
<1>1. cmd \in CmdSet
  BY DEF Inv, Session, Words
<1>2. \A ok : Return(ok) => cmd'.op = "none"
  BY NoneOp DEF Return
<1>3. \A op \in {"open", "copy", "fetch"} : Go(op) => cmd'.op = op
  BY <1>1, Went DEF OpSet
<1>4. ASSUME RetrieveByte PROVE cmd'.op = "fetch"
  <2>1. cmd.op = "fetch"
    BY <1>4 DEF RetrieveByte, Running
  <2>2. cmd' = [cmd EXCEPT !.off = @ + 1, !.pos = @ + 1] \/ cmd' = [cmd EXCEPT !.off = @ + 1]
    BY <1>4 DEF RetrieveByte
  <2> QED BY <1>1, <2>1, <2>2, Advanced, AdvancedBoth
<1>5. (\E ok : Return(ok)) \/ (\E op \in {"open", "copy", "fetch"} : Go(op)) \/ RetrieveByte
  BY DEF Tell, Mknod, MigrateCreate, MigrateOpen, MigrateEnd, RetrieveOpen, RetrieveEnd
<1> QED BY <1>2, <1>3, <1>4, <1>5

LEMMA PanicStep == Inv /\ PanicsHaveReason /\ [MkfsNext]_mkfsVars => PanicsHaveReason'
<1> SUFFICES ASSUME Inv, PanicsHaveReason, [MkfsNext]_mkfsVars PROVE PanicsHaveReason'
  OBVIOUS
<1>1. CASE Mounting
  <2> SUFFICES ASSUME cmd'.op = "panic" PROVE FALSE
    BY DEF PanicsHaveReason
  <2>1. cmd' = cmd
    BY <1>1 DEF Mounting, session
  <2>2. pc = "mounted" /\ cmd.op # "none"
    BY <2>1 DEF Inv, Phases
  <2> QED BY <1>1, <2>2 DEF Mounting, Start, Zero, WriteSuper, Reserve, Mount, Quit, Crash
<1>2. CASE Prompts
  <2>1. PICK op, n, h, off, sz : Given(op, n, h, off, sz) /\ Prompt(op, n, h, off, sz)
    BY <1>2, Prompted
  <2>2. cmd'.op \in Ops
    BY <2>1 DEF Prompt, Given
  <2> QED BY <2>2 DEF PanicsHaveReason, Ops
<1>3. CASE Commands
  BY <1>3, MigrateByteReason, WriteFileReason, WriteRefusedReason, WriteDirectoryReason, MigratePanicReason,
     OthersGoOn DEF Commands, Write, PanicsHaveReason
<1>4. CASE Kill
  BY <1>4, NoneOp DEF Kill, PanicsHaveReason
<1>5. CASE UNCHANGED mkfsVars
  <2>1. UNCHANGED <<disk, tree, cmd, scribbled>>
    BY <1>5 DEF mkfsVars, vars, session
  <2> QED BY <2>1 DEF PanicsHaveReason, Reason, Full, FreeInodes, Misplaced, Found, Placed, Directory, TooLarge, Cut
<1> QED BY <1>1, <1>2, <1>3, <1>4, <1>5 DEF MkfsNext

\* When mkfs panics, the disk is full or has no inode left, there is no place
\* for the file, it would grow too large, the size is negative, or a directory
\* was written to.
THEOREM PanicsAreTrue == ASSUME OwnContents PROVE MkfsSpec => []PanicsHaveReason
<1>1. MkfsInit => Inv /\ PanicsHaveReason
  <2>1. MkfsInit => PanicsHaveReason
    BY NoneOp DEF MkfsInit, PanicsHaveReason
  <2> QED BY <2>1, MkfsStart
<1>2. Inv /\ PanicsHaveReason /\ [MkfsNext]_mkfsVars => (Inv /\ PanicsHaveReason)'
  BY MkfsStep, PanicStep
<1> QED BY <1>1, <1>2, PTL DEF MkfsSpec

-----------------------------------------------------------------------------
(***************************************************************************)
(* Each call brings a command nearer to its end.  That the offset does not *)
(* pass the end of what is copied is a fact about the files: what migrate  *)
(* has copied is the start of the file of the host.                        *)
(***************************************************************************)
LEMMA OffsetsInside ==
  ASSUME Inv
  PROVE  /\ cmd.op \in {"migrate", "open", "copy"} => Len(host[cmd.host]) \in Nat
         /\ cmd.op \in {"open", "copy"} => cmd.off \in Nat
         /\ cmd.op = "copy" => cmd.off <= Len(host[cmd.host])
         /\ Found(cmd.name) => Len(Text(cmd.name)) \in Nat
         /\ cmd.op = "fetch" => cmd.off \in Nat /\ cmd.off <= Len(Text(cmd.name))
<1>1. Shape /\ Sizes /\ Copies /\ Words /\ Copying /\ Fetching
  BY DEF Inv, Files, Session
<1>2. cmd.off \in Nat
  BY <1>1 DEF Words, CmdSet
<1>3. cmd.op \in {"migrate", "open", "copy"} => Len(host[cmd.host]) \in Nat
  BY <1>1, LenProperties DEF Words, Shape, Bytes
<1>4. Found(cmd.name) => Len(Text(cmd.name)) \in Nat
  BY <1>1, Reading
<1>5. ASSUME cmd.op = "copy" PROVE cmd.off <= Len(host[cmd.host])
  <2>1. source[cmd.name].of = host[cmd.host] /\ Len(tree[cmd.name].bytes) = cmd.off /\ host[cmd.host] # Absent
    BY <1>1, <1>5 DEF Copying
  <2>2. cmd.name \in DOMAIN tree
    BY <1>1, <1>5 DEF Words
  <2> QED BY <1>1, <2>1, <2>2 DEF Copies, CopyOf, Starts
<1>6. cmd.op = "fetch" => cmd.off <= Len(Text(cmd.name))
  BY <1>1 DEF Fetching
<1> QED BY <1>2, <1>3, <1>4, <1>5, <1>6

\* A command in progress has a call to make.
LEMMA CallsToMake ==
  ASSUME Inv, cmd.op \notin {"none", "panic"} PROVE CallsLeft \in Nat /\ CallsLeft > 0
<1>1. CASE cmd.op = "migrate"
  BY <1>1, OffsetsInside DEF CallsLeft
<1>2. CASE cmd.op = "open"
  BY <1>2, OffsetsInside DEF CallsLeft
<1>3. CASE cmd.op = "copy"
  BY <1>3, OffsetsInside DEF CallsLeft
<1>4. CASE cmd.op = "retrieve"
  BY <1>4, OffsetsInside DEF CallsLeft
<1>5. CASE cmd.op = "fetch"
  <2>1. Found(cmd.name)
    BY <1>5 DEF Inv, Session, Words
  <2> QED BY <1>5, <2>1, OffsetsInside DEF CallsLeft
<1>6. CASE cmd.op \notin {"migrate", "open", "copy", "retrieve", "fetch"}
  BY <1>6 DEF CallsLeft
<1> QED BY <1>1, <1>2, <1>3, <1>4, <1>5, <1>6

LEMMA NoneToMake == cmd'.op \in {"none", "panic"} => CallsLeft' = 0
BY DEF CallsLeft

LEMMA CallsNat == Inv => CallsLeft \in Nat
<1>1. cmd.op \in {"none", "panic"} => CallsLeft = 0
  BY DEF CallsLeft
<1> QED BY <1>1, CallsToMake

\* A command that returns or panics, and those that go on.
LEMMA CallsFall == Inv /\ Commands => CallsLeft' < CallsLeft
<1> SUFFICES ASSUME Inv, Commands PROVE CallsLeft' < CallsLeft
  OBVIOUS
<1>1. /\ cmd \in CmdSet /\ (cmd.op \in {"open", "copy"} => cmd.name \in DOMAIN tree)
      /\ (cmd.op = "fetch" => Found(cmd.name))
      /\ cmd.op \in {"migrate", "retrieve"} => cmd.off = 0
  BY DEF Inv, Session, Words
<1>2. cmd.op \notin {"none", "panic"}
  BY DEF Commands, Running, Tell, Mknod, MigrateCreate, MigratePanic, MigrateOpen, MigrateByte, MigrateEnd,
         RetrieveOpen, RetrieveByte, RetrieveEnd, Write, WriteFile, WriteRefused, WriteDirectory
<1>3. CallsLeft \in Nat /\ CallsLeft > 0
  BY <1>2, CallsToMake
<1>4. ASSUME cmd'.op \in {"none", "panic"} PROVE CallsLeft' < CallsLeft
  BY <1>3, <1>4, NoneToMake
<1>5. ASSUME NEW ok, Return(ok) PROVE CallsLeft' < CallsLeft
  BY <1>4, <1>5, NoneOp DEF Return
<1>6. ASSUME Go("panic") PROVE CallsLeft' < CallsLeft
  BY <1>1, <1>4, <1>6, Went DEF OpSet
<1>7. CASE MigrateCreate
  <2>1. cmd.op = "migrate" /\ host' = host /\ Go("open")
    BY <1>7 DEF MigrateCreate, Running
  <2>2. cmd'.op = "open" /\ cmd'.host = cmd.host
    BY <1>1, <2>1, Went DEF OpSet
  <2>3. CallsLeft = 3 + Len(host[cmd.host]) /\ CallsLeft' = 2 + Len(host[cmd.host])
    BY <2>1, <2>2 DEF CallsLeft
  <2> QED BY <2>1, <2>3, OffsetsInside
<1>8. CASE MigrateOpen
  <2>1. cmd.op = "open" /\ host' = host
    BY <1>8 DEF MigrateOpen, Running
  <2>2. CASE Go("copy")
    <3>1. cmd'.op = "copy" /\ cmd'.host = cmd.host /\ cmd'.off = cmd.off
      BY <1>1, <2>2, Went DEF OpSet
    <3>2. CallsLeft = 2 + Len(host[cmd.host]) /\ CallsLeft' = 1 + Len(host[cmd.host]) - cmd.off
      BY <2>1, <3>1 DEF CallsLeft
    <3> QED BY <2>1, <3>2, OffsetsInside
  <2> QED BY <1>5, <1>8, <2>2 DEF MigrateOpen
<1>9. CASE MigrateByte
  <2> DEFINE m == Stored(cmd.name, <<host[cmd.host][cmd.off + 1]>>, cmd.off)
  <2>1. /\ cmd.op = "copy" /\ host' = host
        /\ cmd' = IF m = 1 THEN [cmd EXCEPT !.off = @ + 1] ELSE [cmd EXCEPT !.op = "panic"]
        /\ last' = last
    BY <1>9 DEF MigrateByte, Running, Position
  <2> HIDE DEF m
  <2>2. CASE m = 1
    <3>0. cmd' = [cmd EXCEPT !.off = @ + 1]
      BY <2>1, <2>2
    <3>1. cmd'.op = "copy" /\ cmd'.host = cmd.host /\ cmd'.off = cmd.off + 1
      BY <1>1, <2>1, <3>0, Advanced
    <3>2. CallsLeft = 1 + Len(host[cmd.host]) - cmd.off /\ CallsLeft' = 1 + Len(host[cmd.host]) - (cmd.off + 1)
      BY <2>1, <3>1 DEF CallsLeft
    <3> QED BY <2>1, <3>2, OffsetsInside
  <2>3. CASE m # 1
    BY <1>6, <2>1, <2>3 DEF Go
  <2> QED BY <2>2, <2>3
<1>10. CASE RetrieveOpen
  <2>1. cmd.op = "retrieve" /\ tree' = tree /\ Found(cmd.name)
    BY <1>10 DEF RetrieveOpen, Running
  <2>2. CASE Go("fetch")
    <3>1. cmd'.op = "fetch" /\ cmd'.name = cmd.name /\ cmd'.off = 0
      BY <1>1, <2>1, <2>2, Went DEF OpSet
    <3>2. Text(cmd.name)' = Text(cmd.name)
      BY <2>1, <3>1, SameText
    <3>3. CallsLeft = 2 + Len(Text(cmd.name)) /\ CallsLeft' = 1 + Len(Text(cmd.name)) - 0
      BY <2>1, <3>1, <3>2 DEF CallsLeft
    <3> QED BY <2>1, <3>3, OffsetsInside
  <2> QED BY <1>5, <1>10, <2>2 DEF RetrieveOpen
<1>11. CASE RetrieveByte
  <2>1. /\ cmd.op = "fetch" /\ tree' = tree /\ Found(cmd.name)
        /\ cmd' = [cmd EXCEPT !.off = @ + 1, !.pos = @ + 1] \/ cmd' = [cmd EXCEPT !.off = @ + 1]
    BY <1>1, <1>11 DEF RetrieveByte, Running
  <2>2. cmd'.op = "fetch" /\ cmd'.name = cmd.name /\ cmd'.off = cmd.off + 1
    BY <1>1, <2>1, Advanced, AdvancedBoth
  <2>3. Text(cmd.name)' = Text(cmd.name)
    BY <2>1, <2>2, SameText
  <2>4. CallsLeft = 1 + Len(Text(cmd.name)) - cmd.off /\ CallsLeft' = 1 + Len(Text(cmd.name)) - (cmd.off + 1)
    BY <2>1, <2>2, <2>3 DEF CallsLeft
  <2> QED BY <2>1, <2>4, OffsetsInside
<1>12. CASE Tell
  BY <1>5, <1>12 DEF Tell
<1>13. CASE Mknod
  BY <1>5, <1>13 DEF Mknod
<1>14. CASE MigratePanic
  BY <1>6, <1>14 DEF MigratePanic
<1>15. CASE MigrateEnd
  BY <1>5, <1>15 DEF MigrateEnd
<1>16. CASE RetrieveEnd
  BY <1>5, <1>16 DEF RetrieveEnd
<1>17. CASE Write
  BY <1>5, <1>6, <1>17 DEF Write, WriteFile, WriteRefused, WriteDirectory
<1> QED BY <1>7, <1>8, <1>9, <1>10, <1>11, <1>12, <1>13, <1>14, <1>15, <1>16, <1>17 DEF Commands

\* No command goes on for ever, whatever the files hold and whatever fails:
\* each call leaves fewer to make.
THEOREM CommandsGetOn == ASSUME OwnContents PROVE MkfsSpec => CommandGetsOn
<1>1. MkfsInit => Inv
  BY MkfsStart
<1>2. Inv /\ Inv' => (Commands => CallsLeft' \in 0 .. CallsLeft - 1)
  <2> SUFFICES ASSUME Inv, Inv', Commands PROVE CallsLeft' \in 0 .. CallsLeft - 1
    OBVIOUS
  <2>1. CallsLeft' < CallsLeft
    BY CallsFall
  <2>2. CallsLeft \in Nat /\ CallsLeft' \in Nat
    <3>1. (Inv => CallsLeft \in Nat)'
      BY CallsNat, PTL
    <3> QED BY <3>1, CallsNat
  <2> QED BY <2>1, <2>2
<1> QED BY <1>1, <1>2, MkfsStep, PTL DEF MkfsSpec, CommandGetsOn
===============================================================================
