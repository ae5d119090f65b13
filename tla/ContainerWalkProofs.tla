-------------------------- MODULE ContainerWalkProofs --------------------------
(***************************************************************************)
(* Theorems about ContainerWalk, for every tree of paths, every choice of  *)
(* refused requests and any number of changes by the application.          *)
(***************************************************************************)
EXTENDS ContainerWalk, FiniteSetTheorems, SequenceTheorems, TLAPS

-----------------------------------------------------------------------------
(* The walk *)

Pending == ToSet(stack)
BeforeTheWalk == {"connect", "vend", "reconnect", "vendDocuments", "create"}
AfterTheWalk == {"success", "unpack", "unpacked", "unpackError"}
Extraction == {"unpack", "unpacked", "unpackError"}

\* A walk begins with nothing, and success comes when nothing is left to do.
StatusFits ==
    /\ status \in BeforeTheWalk =>
         archive = <<>> /\ stack = <<>> /\ todo = {} /\ reading = NoPath
    /\ status \in AfterTheWalk =>
         stack = <<>> /\ todo = {} /\ reading = NoPath

\* The directories that are still to be listed are in the archive, each is
\* pending once, and nothing that is in it has been met yet.
StackFits ==
    /\ Pending \subseteq DirsIn \cup {Root}
    /\ IsInjective(stack)
    /\ \A p \in Archived : Parent(p) \notin Pending

\* The entries of a directory are not in the archive, the directory is and has
\* been listed.
TodoFits ==
    \A p \in todo \cap Paths :
        /\ p \notin Archived
        /\ Parent(p) \in (DirsIn \cup {Root}) \ Pending
        /\ denied[Parent(p)] # "use"

\* What is archived comes with the directories it is in.
TreeFits ==
    /\ ArchiveIsATree
    /\ \A p \in Archived : Ancestors(p) \subseteq DirsIn \cup {Root}

\* What has been there all along is archived, or the walk has yet to come to it
\* or to a directory above it.
Covered(p) ==
    \/ p \in Archived
    \/ (Ancestors(p) \cup {p}) \cap todo # {}
    \/ Ancestors(p) \cap Pending # {}
StableFits ==
    /\ \A p \in stable : Ancestors(p) \subseteq stable \cup {Root}
    /\ status \in {"walk", "success"} =>
         \A p \in stable : Archivable(p) => Covered(p)

\* Every file but the one that is being read is complete.
WrittenOf(p) ==
    IF p \notin FilesIn THEN 0
    ELSE IF p = reading THEN Size[p] - left ELSE Size[p]
ReadFits ==
    /\ reading # NoPath => reading \in FilesIn /\ left <= Size[reading]
    /\ written = [p \in Paths |-> WrittenOf(p)]

\* The files of the entries so far are there, with the directories they are in.
UnpackFits ==
    /\ status \notin Extraction => next = 1 /\ outFiles = {} /\ outDirs = {}
    /\ next \in 1..(Len(archive) + 1)
    /\ outFiles = {archive[i].path : i \in {j \in 1..(next - 1) : ~archive[j].isDir}}
    /\ \A p \in outFiles : Ancestors(p) \subseteq outDirs
    /\ outDirs \subseteq DirsIn \cup {Root}
    /\ status = "unpacked" => next = Len(archive) + 1

\* The inductive invariant.
IInv ==
    /\ TypeOK /\ StatusFits /\ StackFits /\ TodoFits /\ TreeFits
    /\ StableFits /\ ReadFits /\ UnpackFits

-----------------------------------------------------------------------------
(* Paths *)

LEMMA PathIsSeq ==
    ASSUME NEW p \in Paths
    PROVE  /\ p \in Seq(STRING) /\ Len(p) \in Nat \ {0}
           /\ p \notin {Root, NoPath} /\ Last(p) \notin Special
BY PathsAssumption DEF Root

LEMMA Prefix ==
    ASSUME NEW p \in Seq(STRING), NEW i \in 0..Len(p)
    PROVE  /\ SubSeq(p, 1, i) \in Seq(STRING) /\ Len(SubSeq(p, 1, i)) = i
           /\ \A j \in 1..i : SubSeq(p, 1, i)[j] = p[j]
OBVIOUS

\* A prefix of a prefix.
LEMMA PrefixOfPrefix ==
    ASSUME NEW p \in Seq(STRING), NEW i \in 0..Len(p), NEW j \in 0..i
    PROVE  SubSeq(SubSeq(p, 1, i), 1, j) = SubSeq(p, 1, j)
BY Prefix

LEMMA ParentOfPrefix ==
    ASSUME NEW p \in Seq(STRING), NEW i \in 1..Len(p)
    PROVE  Parent(SubSeq(p, 1, i)) = SubSeq(p, 1, i - 1)
<1>1. Len(SubSeq(p, 1, i)) = i /\ i - 1 \in 0..i /\ i \in 0..Len(p)
  BY Prefix
<1> QED
  BY <1>1, PrefixOfPrefix DEF Parent, Front

LEMMA ParentFacts ==
    ASSUME NEW p \in Paths
    PROVE  /\ Parent(p) = SubSeq(p, 1, Len(p) - 1)
           /\ Len(Parent(p)) = Len(p) - 1
           /\ Parent(p) \in Ancestors(p)
           /\ Parent(p) \in Paths \cup {Root} /\ Parent(p) # p
           /\ Ancestors(p) = Ancestors(Parent(p)) \cup {Parent(p)}
           /\ Root \in Ancestors(p)
<1> DEFINE n == Len(p)
<1>1. p \in Seq(STRING) /\ n \in Nat \ {0}
  BY PathIsSeq
<1>2. Parent(p) = SubSeq(p, 1, n - 1) /\ n - 1 \in 0..n
  BY <1>1 DEF Parent, Front
<1>3. Len(Parent(p)) = n - 1
  BY <1>1, <1>2, Prefix
<1>4. Parent(p) \in Ancestors(p) /\ Parent(p) # p
  <2>1. n - 1 \in 0..(n - 1)
    BY <1>1
  <2>2. Parent(p) \in Ancestors(p)
    BY <1>2, <2>1 DEF Ancestors
  <2>3. Parent(p) # p
    BY <1>1, <1>3
  <2> QED
    BY <2>2, <2>3
<1>5. Ancestors(p) = Ancestors(Parent(p)) \cup {Parent(p)}
  <2>1. \A i \in 0..(n - 2) : SubSeq(Parent(p), 1, i) = SubSeq(p, 1, i)
    <3> SUFFICES ASSUME NEW i \in 0..(n - 2)
                 PROVE  SubSeq(Parent(p), 1, i) = SubSeq(p, 1, i)
      OBVIOUS
    <3>1. i \in 0..(n - 1)
      BY <1>1
    <3> QED
      BY <1>1, <1>2, <3>1, PrefixOfPrefix
  <2>2. Ancestors(Parent(p)) = {SubSeq(p, 1, i) : i \in 0..(n - 2)}
    BY <1>1, <1>3, <2>1 DEF Ancestors
  <2>3. 0..(n - 1) = 0..(n - 2) \cup {n - 1}
    BY <1>1
  <2> QED
    BY <1>2, <2>2, <2>3 DEF Ancestors
<1>6. Root \in Ancestors(p)
  <2>1. SubSeq(p, 1, 0) = Root
    BY <1>1 DEF Root
  <2> QED
    BY <1>1, <2>1 DEF Ancestors
<1> QED
  BY <1>2, <1>3, <1>4, <1>5, <1>6, PathsAssumption

LEMMA RootHasNoAncestors == Ancestors(Root) = {}
BY DEF Ancestors, Root

\* Below a directory on the way to a path lies the next one, or the path.
LEMMA NextOnTheWay ==
    ASSUME NEW p \in Paths, NEW d \in Ancestors(p)
    PROVE  \E q \in Paths : q \in Ancestors(p) \cup {p} /\ Parent(q) = d
<1> DEFINE n == Len(p)
<1>1. p \in Seq(STRING) /\ n \in Nat \ {0}
  BY PathIsSeq
<1>2. PICK i \in 0..(n - 1) : d = SubSeq(p, 1, i)
  BY DEF Ancestors
<1>3. i + 1 \in 1..n
  BY <1>1
<1>4. Parent(SubSeq(p, 1, i + 1)) = d
  <2>1. Parent(SubSeq(p, 1, i + 1)) = SubSeq(p, 1, (i + 1) - 1)
    BY <1>1, <1>3, ParentOfPrefix
  <2>2. (i + 1) - 1 = i
    OBVIOUS
  <2> QED
    BY <1>2, <2>1, <2>2
<1>5. CASE i + 1 = n
  <2>1. SubSeq(p, 1, i + 1) = p
    BY <1>1, <1>5
  <2> QED
    BY <1>4, <2>1
<1>6. CASE i + 1 # n
  <2>1. SubSeq(p, 1, i + 1) \in Ancestors(p)
    BY <1>1, <1>3, <1>6 DEF Ancestors
  <2>2. SubSeq(p, 1, i + 1) # Root
    BY <1>1, <1>3, Prefix DEF Root
  <2> QED
    BY <1>4, <2>1, <2>2, PathsAssumption
<1> QED
  BY <1>5, <1>6

\* What is below an ancestor is below.
LEMMA PrefixOfAncestor ==
    ASSUME NEW p \in Paths, NEW a \in Ancestors(p), NEW x \in Paths, IsPrefix(x, a)
    PROVE  IsPrefix(x, p)
<1> DEFINE n == Len(p)
<1>1. p \in Seq(STRING) /\ n \in Nat \ {0} /\ Len(x) \in Nat
  BY PathIsSeq
<1>2. PICK i \in 0..(n - 1) : a = SubSeq(p, 1, i)
  BY DEF Ancestors
<1>3. Len(a) = i /\ i \in 0..n
  BY <1>1, <1>2, Prefix
<1>4. Len(x) \in 0..i /\ SubSeq(x, 1, Len(x)) = SubSeq(a, 1, Len(x))
  BY <1>1, <1>3 DEF IsPrefix
<1>5. SubSeq(a, 1, Len(x)) = SubSeq(p, 1, Len(x))
  BY <1>1, <1>2, <1>3, <1>4, PrefixOfPrefix
<1> QED
  BY <1>1, <1>3, <1>4, <1>5 DEF IsPrefix

\* The two extra entries of a listing are told by their names.
LEMMA SpecialIsTold ==
    ASSUME NEW d \in Paths \cup {Root}, NEW n \in Special
    PROVE  /\ Append(d, n) \in Listed \ Paths /\ Append(d, n) # Root
           /\ Last(Append(d, n)) = n
<1>1. d \in Seq(STRING)
  <2>1. <<>> \in Seq(STRING)
    OBVIOUS
  <2> QED
    BY <2>1, PathIsSeq DEF Root
<1>2. Last(Append(d, n)) = n /\ Append(d, n) # Root
  <2>1. d \in Seq(STRING \cup {n})
    BY <1>1
  <2>2. /\ Len(Append(d, n)) = Len(d) + 1 /\ Append(d, n)[Len(d) + 1] = n
        /\ Append(d, n) # <<>>
    BY <1>1, <2>1, AppendProperties
  <2> QED
    BY <2>2 DEF Last, Root
<1>3. Append(d, n) \in Listed
  BY DEF Listed
<1> QED
  BY <1>2, <1>3, PathIsSeq

LEMMA ListedIsPath ==
    ASSUME NEW p \in Listed, Last(p) \notin Special
    PROVE  p \in Paths
<1> SUFFICES ASSUME NEW d \in Paths \cup {Root}, NEW n \in Special, p = Append(d, n)
             PROVE  FALSE
  BY DEF Listed
<1> QED
  BY SpecialIsTold

-----------------------------------------------------------------------------
(* The stack and the archive *)

LEMMA ToSetFacts ==
    ASSUME NEW S, NEW s \in Seq(S)
    PROVE  ToSet(s) = {s[i] : i \in 1..Len(s)} /\ DOMAIN s = 1..Len(s) /\ Len(s) \in Nat
BY DEF ToSet

LEMMA PoppedFacts ==
    ASSUME NEW S, NEW s \in Seq(S), s # <<>>
    PROVE  /\ Last(s) \in S /\ Front(s) \in Seq(S)
           /\ ToSet(s) = ToSet(Front(s)) \cup {Last(s)}
           /\ IsInjective(s) => IsInjective(Front(s)) /\ Last(s) \notin ToSet(Front(s))
<1> DEFINE n == Len(s)
<1>1. n \in Nat \ {0} /\ DOMAIN s = 1..n
  BY EmptySeq
<1>2. Last(s) = s[n] /\ Last(s) \in S
  BY <1>1, ElementOfSeq DEF Last
<1>3. \A i \in 1..(n - 1) : s[i] \in S
  BY <1>1, ElementOfSeq
<1>4. /\ Front(s) \in Seq(S) /\ Len(Front(s)) = n - 1
      /\ \A i \in 1..(n - 1) : Front(s)[i] = s[i]
  <2>1. /\ SubSeq(s, 1, n - 1) \in Seq(S)
        /\ Len(SubSeq(s, 1, n - 1)) = IF 1 <= n - 1 THEN (n - 1) - 1 + 1 ELSE 0
        /\ \A i \in 1..((n - 1) - 1 + 1) : SubSeq(s, 1, n - 1)[i] = s[1 + i - 1]
    BY <1>1, <1>3, SubSeqProperties
  <2> QED
    BY <1>1, <2>1 DEF Front
<1>5. DOMAIN Front(s) = 1..(n - 1) /\ ToSet(Front(s)) = {s[i] : i \in 1..(n - 1)}
  BY <1>1, <1>4, ToSetFacts
<1>6. 1..n = 1..(n - 1) \cup {n} /\ n \notin 1..(n - 1)
  BY <1>1
<1>7. ToSet(s) = ToSet(Front(s)) \cup {Last(s)}
  BY <1>1, <1>2, <1>5, <1>6, ToSetFacts
<1>8. ASSUME IsInjective(s)
      PROVE  IsInjective(Front(s)) /\ Last(s) \notin ToSet(Front(s))
  <2>1. \A i, j \in 1..n : s[i] = s[j] => i = j
    BY <1>1, <1>8 DEF IsInjective
  <2> QED
    BY <1>2, <1>4, <1>5, <1>6, <2>1 DEF IsInjective
<1> QED
  BY <1>2, <1>4, <1>7, <1>8

\* An entry of a tree.
EntryFits(i) ==
    LET p == archive[i].path
    IN  /\ p \in Paths /\ Archivable(p)
        /\ archive[i].isDir = (kind[p] = "dir")
        /\ Parent(p) \in {archive[j].path : j \in 1..(i - 1)} \cup {Root}

LEMMA TreeByEntry ==
    /\ ArchiveIsATree <=>
          /\ IsInjective([i \in DOMAIN archive |-> archive[i].path])
          /\ \A i \in DOMAIN archive : EntryFits(i)
    /\ ArchiveIsATree' <=>
          /\ IsInjective([i \in DOMAIN archive' |-> archive'[i].path])
          /\ \A i \in DOMAIN archive' : EntryFits(i)'
BY DEF ArchiveIsATree, EntryFits, Archivable, Reachable

LEMMA PushedFacts ==
    ASSUME NEW S, NEW s \in Seq(S), NEW e \in S
    PROVE  /\ Append(s, e) \in Seq(S)
           /\ ToSet(Append(s, e)) = ToSet(s) \cup {e}
           /\ IsInjective(s) /\ e \notin ToSet(s) => IsInjective(Append(s, e))
<1> DEFINE n == Len(s)
           t == Append(s, e)
<1>1. /\ n \in Nat /\ t \in Seq(S) /\ Len(t) = n + 1 /\ t[n + 1] = e
      /\ \A i \in 1..n : t[i] = s[i]
  BY AppendProperties, LenProperties
<1>2. DOMAIN t = 1..(n + 1) /\ DOMAIN s = 1..n /\ 1..(n + 1) = 1..n \cup {n + 1}
  BY <1>1, LenProperties
<1> HIDE DEF t
<1>3. ToSet(t) = ToSet(s) \cup {e}
  BY <1>1, <1>2 DEF ToSet
<1>4. ASSUME IsInjective(s), e \notin ToSet(s)
      PROVE  IsInjective(t)
  <2>1. \A i, j \in 1..n : s[i] = s[j] => i = j
    BY <1>2, <1>4 DEF IsInjective
  <2>2. \A i \in 1..n : s[i] # e
    BY <1>2, <1>4 DEF ToSet
  <2>3. \A i, j \in 1..(n + 1) : t[i] = t[j] => i = j
    BY <1>1, <1>2, <2>1, <2>2
  <2> QED
    BY <1>2, <2>3 DEF IsInjective
<1> QED
  BY <1>1, <1>3, <1>4 DEF t

Entries == [path : Listed, isDir : BOOLEAN]

\* In a tree, what is archived as a directory or as a file is one.
LEMMA ArchiveFacts ==
    ASSUME TypeOK, ArchiveIsATree
    PROVE  /\ Archived = {archive[i].path : i \in 1..Len(archive)}
           /\ Archived \subseteq Paths
           /\ \A p \in Archived : Archivable(p)
           /\ FilesIn = {p \in Archived : kind[p] # "dir"}
           /\ DirsIn = {p \in Archived : kind[p] = "dir"}
<1>1. archive \in Seq(Entries)
  BY DEF TypeOK, Entries
<1>2. ToSet(archive) = {archive[i] : i \in 1..Len(archive)} /\ DOMAIN archive = 1..Len(archive)
  BY <1>1, ToSetFacts
<1>3. Archived = {archive[i].path : i \in 1..Len(archive)}
  BY <1>2 DEF Archived
<1>4. \A i \in 1..Len(archive) :
          /\ archive[i].path \in Paths /\ Archivable(archive[i].path)
          /\ archive[i].isDir = (kind[archive[i].path] = "dir")
  BY <1>2 DEF ArchiveIsATree
<1>5. FilesIn = {p \in Archived : kind[p] # "dir"}
  <2>1. FilesIn = {archive[i].path : i \in {j \in 1..Len(archive) : ~archive[j].isDir}}
    BY <1>2 DEF FilesIn
  <2> QED
    BY <1>3, <1>4, <2>1
<1>6. DirsIn = {p \in Archived : kind[p] = "dir"}
  BY <1>5 DEF DirsIn
<1> QED
  BY <1>3, <1>4, <1>5, <1>6

\* The archive, and what the device says of the paths, stay as they are.
LEMMA TreeFrame ==
    ASSUME UNCHANGED <<archive, kind, denied>>
    PROVE  /\ Archived' = Archived /\ FilesIn' = FilesIn /\ DirsIn' = DirsIn
           /\ TreeFits => TreeFits'
           /\ \A p \in Paths : Archivable(p)' <=> Archivable(p)
BY DEF Archived, FilesIn, DirsIn, TreeFits, ArchiveIsATree, Archivable,
   Reachable

LEMMA WalkFrame ==
    ASSUME UNCHANGED <<archive, kind, denied, stack, todo>>, StackFits,
    TodoFits, TreeFits
    PROVE  StackFits' /\ TodoFits' /\ TreeFits'
<1>1. Archived' = Archived /\ DirsIn' = DirsIn /\ TreeFits' /\ Pending' = Pending
  BY TreeFrame DEF Pending
<1> QED
  BY <1>1 DEF StackFits, TodoFits

LEMMA ReadFrame ==
    ASSUME UNCHANGED <<archive, reading, left, written>>, ReadFits
    PROVE  ReadFits'
<1>1. FilesIn' = FilesIn
  BY DEF FilesIn
<1> QED
  BY <1>1 DEF ReadFits, WrittenOf

LEMMA CoveredFrame ==
    ASSUME UNCHANGED <<archive, todo, stack, kind, denied>>, NEW p \in Paths
    PROVE  (Covered(p)' <=> Covered(p)) /\ (Archivable(p)' <=> Archivable(p))
<1>1. Archived' = Archived /\ Pending' = Pending
  BY DEF Archived, Pending
<1> QED
  BY <1>1 DEF Covered, Archivable, Reachable

\* A new entry, in a directory that is in the archive.
LEMMA AddedFacts ==
    ASSUME TypeOK, TreeFits, NEW p \in Paths, NEW isDir \in BOOLEAN,
           p \notin Archived, Archivable(p), isDir = (kind[p] = "dir"),
           Parent(p) \in DirsIn \cup {Root},
           Add(p, isDir), UNCHANGED <<kind, denied>>
    PROVE  /\ archive' \in Seq(Entries) /\ Len(archive') = Len(archive) + 1
           /\ Archived' = Archived \cup {p}
           /\ FilesIn' = IF isDir THEN FilesIn ELSE FilesIn \cup {p}
           /\ DirsIn' = IF isDir THEN DirsIn \cup {p} ELSE DirsIn
           /\ TreeFits'
<1> DEFINE e == [path |-> p, isDir |-> isDir]
           n == Len(archive)
<1>1. e \in Entries /\ archive \in Seq(Entries) /\ n \in Nat
  BY LenProperties DEF TypeOK, Entries, Listed
<1>2. archive' = Append(archive, e)
  BY DEF Add
<1>3. /\ archive' \in Seq(Entries) /\ Len(archive') = n + 1 /\ archive'[n + 1] = e
      /\ \A i \in 1..n : archive'[i] = archive[i]
  BY <1>1, <1>2, AppendProperties
<1>4. ToSet(archive') = ToSet(archive) \cup {e}
  BY <1>1, <1>2, PushedFacts
<1>5. e.path = p /\ e.isDir = isDir
  OBVIOUS
<1> HIDE DEF e
<1>6. Archived' = Archived \cup {p}
  BY <1>4, <1>5 DEF Archived
<1>7. FilesIn' = IF isDir THEN FilesIn ELSE FilesIn \cup {p}
  BY <1>4, <1>5 DEF FilesIn
<1>8. FilesIn \subseteq Archived
  BY DEF FilesIn, Archived
<1>9. DirsIn' = IF isDir THEN DirsIn \cup {p} ELSE DirsIn
  BY <1>6, <1>7, <1>8 DEF DirsIn
<1>10. DOMAIN archive = 1..n /\ DOMAIN archive' = 1..(n + 1) /\ 1..(n + 1) = 1..n \cup {n + 1}
  BY <1>1, <1>3, LenProperties
<1>11. DirsIn \subseteq {archive[j].path : j \in 1..n}
  BY <1>1, ArchiveFacts DEF TreeFits
<1>12. \A q \in Paths : Archivable(q)' <=> Archivable(q)
  BY DEF Archivable, Reachable
<1>13. ArchiveIsATree'
  <2>1. IsInjective([i \in DOMAIN archive' |-> archive'[i].path])
    <3>1. \A i, j \in 1..n : archive[i].path = archive[j].path => i = j
      BY <1>10 DEF TreeFits, ArchiveIsATree, IsInjective
    <3>2. \A i \in 1..n : archive[i].path # p
      BY <1>1, ArchiveFacts DEF TreeFits
    <3>3. \A i, j \in 1..(n + 1) : archive'[i].path = archive'[j].path => i = j
      BY <1>3, <1>5, <1>10, <3>1, <3>2
    <3> QED
      BY <1>10, <3>3 DEF IsInjective
  <2>2. ASSUME NEW i \in DOMAIN archive'
        PROVE  EntryFits(i)'
    <3>1. CASE i = n + 1
      <4>1. archive'[i] = e /\ i - 1 = n
        BY <1>1, <1>3, <3>1
      <4>2. Parent(p) \in {archive'[j].path : j \in 1..n} \cup {Root}
        BY <1>3, <1>11
      <4> QED
        BY <1>5, <4>1, <4>2 DEF EntryFits, Archivable, Reachable
    <3>2. CASE i \in 1..n
      <4> DEFINE q == archive[i].path
      <4>1. EntryFits(i)
        BY <1>10, <3>2, TreeByEntry DEF TreeFits
      <4>2. 1..(i - 1) \subseteq 1..n
        BY <1>1, <3>2
      <4>3. archive'[i] = archive[i]
        BY <1>3, <3>2
      <4>4. \A j \in 1..(i - 1) : archive'[j] = archive[j]
        BY <1>3, <4>2
      <4> QED
        BY <4>1, <4>3, <4>4 DEF EntryFits, Archivable, Reachable
    <3> QED
      BY <1>10, <2>2, <3>1, <3>2
  <2> QED
    BY <2>1, <2>2, TreeByEntry
<1>14. \A q \in Archived' : Ancestors(q) \subseteq DirsIn' \cup {Root}
  <2>1. DirsIn \subseteq DirsIn' /\ DirsIn \subseteq Archived
    BY <1>9 DEF DirsIn
  <2>2. Ancestors(p) = Ancestors(Parent(p)) \cup {Parent(p)}
    BY ParentFacts
  <2>3. Ancestors(p) \subseteq DirsIn \cup {Root}
    BY <2>1, <2>2, RootHasNoAncestors DEF TreeFits
  <2> QED
    BY <1>6, <2>1, <2>3 DEF TreeFits
<1> QED
  BY <1>3, <1>6, <1>7, <1>9, <1>13, <1>14 DEF TreeFits

-----------------------------------------------------------------------------
(* The steps *)

LEMMA InitIInv == Init => IInv
<1> SUFFICES ASSUME Init
             PROVE  IInv
  OBVIOUS
<1>1. archive = <<>> /\ stack = <<>> /\ todo = {} /\ reading = NoPath /\ next = 1
  BY DEF Init
<1>2. Archived = {} /\ FilesIn = {} /\ DirsIn = {} /\ Pending = {}
  BY <1>1 DEF Archived, FilesIn, DirsIn, Pending, ToSet
<1>3. TypeOK
  <2>1. 0 \in 0..MaxChanges
    BY BoundAssumption
  <2>2. stack \in Seq(Listed \cup {Root}) /\ archive \in Seq([path : Listed, isDir : BOOLEAN])
    BY <1>1
  <2>3. present \subseteq Paths /\ stable \subseteq present
    BY DEF Init
  <2> QED
    BY <2>1, <2>2, <2>3 DEF TypeOK, Init
<1>4. StatusFits /\ StackFits /\ TodoFits
  BY <1>1, <1>2
     DEF Init, StatusFits, StackFits, TodoFits, IsInjective, AfterTheWalk
<1>5. TreeFits
  BY <1>1, <1>2 DEF TreeFits, ArchiveIsATree, IsInjective
<1>6. StableFits
  BY DEF StableFits, Init
<1>7. ReadFits
  BY <1>1, <1>2 DEF ReadFits, WrittenOf, Init
<1>8. UnpackFits
  BY <1>1, <1>2 DEF UnpackFits, Init, Extraction
<1> QED
  BY <1>3, <1>4, <1>5, <1>6, <1>7, <1>8 DEF IInv

\* Steps that only say how far the backup or the extraction is.
LEMMA StatusStep ==
    ASSUME IInv,
           \/ Connect \/ VendContainer \/ ContainerRefused \/ Reconnect \/ VendDocuments
           \/ Finish \/ PathIsGone \/ BackupFails \/ UnpackEnd \/ UnpackFails
    PROVE  IInv'
<1>1. UNCHANGED <<container, walk, unpacking>>
  BY DEF Connect, VendContainer, ContainerRefused, Reconnect, VendDocuments,
     Advance,
         Finish, PathIsGone, BackupFails, EndInError, UnpackEnd, UnpackFails
<1>2. UNCHANGED <<kind, denied, present, stable, changes, stack, todo, reading, left,
                  archive, written, total, next, outDirs, outFiles>>
  BY <1>1 DEF container, walk, unpacking
<1>3. /\ status' \in BeforeTheWalk => status \in BeforeTheWalk
      /\ status' \in AfterTheWalk => status \in AfterTheWalk \/ Finish
      /\ status' \in Extraction <=> status \in Extraction
      /\ status' # "walk" /\ (status' = "success" => status = "walk" /\ Finish)
      /\ status' = "unpacked" => UnpackEnd
  BY DEF Connect, VendContainer, ContainerRefused, Reconnect, VendDocuments,
     Advance,
         Finish, PathIsGone, BackupFails, EndInError, UnpackEnd, UnpackFails,
         BeforeTheWalk, AfterTheWalk, Extraction
<1>4. TypeOK'
  <2>1. status' \in {"vend", "create", "reconnect", "vendDocuments", "success", "error",
                     "unpacked", "unpackError"}
    BY DEF Connect, VendContainer, ContainerRefused, Reconnect,
       VendDocuments, Advance,
           Finish, PathIsGone, BackupFails, EndInError, UnpackEnd, UnpackFails
  <2>2. backupType' \in {"none", "full", "documents"}
    BY DEF IInv, TypeOK, Connect, VendContainer, ContainerRefused, Reconnect,
           VendDocuments, Advance, Finish, PathIsGone, BackupFails,
           EndInError,
           UnpackEnd, UnpackFails
  <2> QED
    BY <1>2, <2>1, <2>2 DEF IInv, TypeOK
<1>5. StatusFits'
  BY <1>2, <1>3 DEF IInv, StatusFits, Finish
<1>6. StackFits' /\ TodoFits' /\ TreeFits'
  BY <1>2, WalkFrame DEF IInv
<1>7. ReadFits'
  BY <1>2, ReadFrame DEF IInv
<1>8. StableFits'
  <2>1. stable \subseteq Paths
    BY DEF IInv, TypeOK
  <2> QED
    BY <1>2, <1>3, <2>1, CoveredFrame DEF IInv, StableFits
<1>9. UnpackFits'
  <2>1. DirsIn' = DirsIn
    BY <1>2, TreeFrame
  <2>2. UnpackEnd => next = Len(archive) + 1
    <3>1. archive \in Seq(Entries) /\ Len(archive) \in Nat
      BY LenProperties DEF IInv, TypeOK, Entries
    <3> QED
      BY <3>1 DEF IInv, UnpackFits, UnpackEnd
  <2> QED
    BY <1>2, <1>3, <2>1, <2>2 DEF IInv, UnpackFits
<1> QED
  BY <1>4, <1>5, <1>6, <1>7, <1>8, <1>9 DEF IInv

LEMMA CreateZipStep ==
    ASSUME IInv, CreateZip
    PROVE  IInv'
<1>1. /\ status = "create" /\ status' = "walk" /\ stack' = <<Root>>
      /\ UNCHANGED <<kind, denied, present, stable, changes, backupType, todo, reading,
                     left, archive, written, total, next, outDirs, outFiles>>
  BY DEF CreateZip, container, unpacking
<1>2. archive = <<>> /\ todo = {}
  BY <1>1 DEF IInv, StatusFits, BeforeTheWalk
<1>3. Archived' = {} /\ DirsIn' = {} /\ DirsIn = {}
  BY <1>1, <1>2 DEF Archived, FilesIn, DirsIn, ToSet
<1>4. Pending' = {Root} /\ IsInjective(stack')
  BY <1>1 DEF Pending, ToSet, IsInjective
<1>5. TypeOK'
  <2>1. stack' \in Seq(Listed \cup {Root})
    BY <1>1
  <2> QED
    BY <1>1, <2>1 DEF IInv, TypeOK
<1>6. StatusFits'
  BY <1>1 DEF StatusFits, BeforeTheWalk, AfterTheWalk
<1>7. StackFits' /\ TodoFits'
  BY <1>1, <1>2, <1>3, <1>4 DEF StackFits, TodoFits
<1>8. TreeFits'
  BY <1>1, TreeFrame DEF IInv
<1>9. StableFits'
  <2>1. \A p \in stable : Covered(p)'
    <3>1. stable \subseteq Paths
      BY DEF IInv, TypeOK
    <3> QED
      BY <1>4, <3>1, ParentFacts DEF Covered
  <2> QED
    BY <1>1, <2>1 DEF IInv, StableFits
<1>10. ReadFits'
  BY <1>1, ReadFrame DEF IInv
<1>11. UnpackFits'
  BY <1>1, <1>3 DEF IInv, UnpackFits, Extraction
<1> QED
  BY <1>5, <1>6, <1>7, <1>8, <1>9, <1>10, <1>11 DEF IInv

LEMMA ListDirStep ==
    ASSUME IInv, ListDir
    PROVE  IInv'
<1> DEFINE d == Last(stack)
<1>1. /\ status = "walk" /\ todo = {} /\ stack # <<>> /\ stack' = Front(stack)
      /\ UNCHANGED <<kind, denied, present, stable, changes, status, backupType, reading,
                     left, archive, written, total, next, outDirs, outFiles>>
  BY DEF ListDir, container, unpacking
<1>2. IF denied[d] = "use" THEN todo' = {}
      ELSE todo' = (Children(d) \cap present) \cup {Append(d, n) : n \in Special}
  BY DEF ListDir
<1>3. stack \in Seq(Listed \cup {Root}) /\ IsInjective(stack)
  BY DEF IInv, TypeOK, StackFits
<1>4. /\ stack' \in Seq(Listed \cup {Root}) /\ IsInjective(stack')
      /\ Pending = Pending' \cup {d} /\ d \notin Pending'
  BY <1>1, <1>3, PoppedFacts DEF Pending
<1>5. Archived' = Archived /\ DirsIn' = DirsIn /\ TreeFits'
  BY <1>1, TreeFrame DEF IInv
<1>6. d \in DirsIn \cup {Root} /\ d \in Paths \cup {Root}
  BY <1>4, ArchiveFacts DEF IInv, StackFits, TreeFits
<1> HIDE DEF d
<1>7. \A n \in Special : Append(d, n) \in Listed \ Paths
  BY <1>6, SpecialIsTold
<1>8. todo' \subseteq Listed
      /\ \A p \in todo' \cap Paths : Parent(p) = d /\ denied[d] # "use"
  <2>1. CASE denied[d] = "use"
    BY <1>2, <2>1
  <2>2. CASE denied[d] # "use"
    <3>1. todo' = (Children(d) \cap present) \cup {Append(d, n) : n \in Special}
      BY <1>2, <2>2
    <3>2. Children(d) \subseteq Paths /\ \A p \in Children(d) : Parent(p) = d
      BY DEF Children
    <3>3. Paths \subseteq Listed
      BY DEF Listed
    <3> QED
      BY <1>7, <2>2, <3>1, <3>2, <3>3
  <2> QED
    BY <2>1, <2>2
<1>9. TypeOK'
  BY <1>1, <1>4, <1>8 DEF IInv, TypeOK
<1>10. StatusFits'
  BY <1>1 DEF IInv, StatusFits, BeforeTheWalk, AfterTheWalk
<1>11. StackFits'
  BY <1>4, <1>5 DEF IInv, StackFits
<1>12. TodoFits'
  BY <1>1, <1>4, <1>5, <1>6, <1>8 DEF IInv, StackFits, TodoFits
<1>13. StableFits'
  <2> SUFFICES ASSUME NEW p \in stable, Archivable(p)
               PROVE  Covered(p)'
    <3>1. stable \subseteq Paths
      BY DEF IInv, TypeOK
    <3>2. \A p \in Paths : Archivable(p)' <=> Archivable(p)
      BY <1>1, TreeFrame
    <3> QED
      BY <1>1, <3>1, <3>2 DEF IInv, StableFits
  <2>1. p \in Paths /\ stable \subseteq present
    BY DEF IInv, TypeOK
  <2>2. \/ p \in Archived \/ Ancestors(p) \cap Pending # {}
    BY <1>1 DEF IInv, StableFits, Covered
  <2>3. CASE p \in Archived
    BY <1>5, <2>3 DEF Covered
  <2>4. CASE Ancestors(p) \cap Pending' # {}
    BY <2>4 DEF Covered
  <2>5. CASE d \in Ancestors(p)
    <3>1. denied[d] # "use"
      BY <2>5 DEF Archivable
    <3>2. PICK q \in Paths : q \in Ancestors(p) \cup {p} /\ Parent(q) = d
      BY <2>1, <2>5, NextOnTheWay
    <3>3. q \in stable
      BY <3>2, PathIsSeq DEF IInv, StableFits
    <3>4. q \in todo'
      BY <1>2, <2>1, <3>1, <3>2, <3>3 DEF Children
    <3> QED
      BY <3>2, <3>4 DEF Covered
  <2> QED
    BY <1>4, <2>2, <2>3, <2>4, <2>5
<1>14. ReadFits'
  BY <1>1, ReadFrame DEF IInv
<1>15. UnpackFits'
  BY <1>1, <1>5 DEF IInv, UnpackFits
<1> QED
  BY <1>5, <1>9, <1>10, <1>11, <1>12, <1>13, <1>14, <1>15 DEF IInv

\* What an entry that is not passed over is.
LEMMA EntryFacts ==
    ASSUME IInv, NEW p, AtEntry(p), ~Skips(p)
    PROVE  /\ p \in Paths /\ p \notin Archived /\ p # Root
           /\ Parent(p) \in (DirsIn \cup {Root}) \ Pending
           /\ Is(p, "dir") \/ Is(p, "file") => Archivable(p)
           /\ \A k \in {"dir", "file"} : Is(p, k) => kind[p] = k
<1>1. p \in Paths /\ p \in todo
  BY ListedIsPath DEF IInv, TypeOK, AtEntry, Skips
<1>2. /\ p \notin Archived /\ Parent(p) \in (DirsIn \cup {Root}) \ Pending
      /\ denied[Parent(p)] # "use"
  BY <1>1 DEF IInv, TodoFits
<1>3. p # Root
  BY <1>1, PathIsSeq
<1>4. ASSUME Is(p, "dir") \/ Is(p, "file")
      PROVE  Archivable(p)
  <2>1. Ancestors(p) = Ancestors(Parent(p)) \cup {Parent(p)}
    BY <1>1, ParentFacts
  <2>2. \A d \in Ancestors(p) : Reachable(d) /\ denied[d] # "use"
    <3>1. CASE Parent(p) = Root
      BY <1>2, <2>1, <3>1, RootHasNoAncestors DEF Reachable
    <3>2. CASE Parent(p) \in DirsIn
      <4>1. Archivable(Parent(p)) /\ kind[Parent(p)] = "dir"
        BY <3>2, ArchiveFacts DEF IInv, TreeFits
      <4> QED
        BY <1>2, <2>1, <4>1 DEF Archivable, Reachable
    <3> QED
      BY <1>2, <3>1, <3>2
  <2> QED
    BY <1>1, <1>4, <2>2 DEF Archivable, Is, Skips, Refused
<1> QED
  BY <1>1, <1>2, <1>3, <1>4 DEF Is

LEMMA SkipEntryStep ==
    ASSUME IInv, NEW p \in todo, SkipEntry(p)
    PROVE  IInv'
<1>1. /\ status = "walk" /\ todo' = todo \ {p} /\ Skips(p)
      /\ UNCHANGED <<kind, denied, present, stable, changes, status, backupType, stack,
                     reading, left, archive, written, total, next, outDirs,
                     outFiles>>
  BY DEF SkipEntry, AtEntry, container, unpacking
<1>2. Archived' = Archived /\ DirsIn' = DirsIn /\ TreeFits' /\ Pending' = Pending
  BY <1>1, TreeFrame DEF IInv, Pending
<1>3. TypeOK'
  BY <1>1 DEF IInv, TypeOK
<1>4. StatusFits'
  BY <1>1 DEF StatusFits, BeforeTheWalk, AfterTheWalk
<1>5. StackFits' /\ TodoFits'
  BY <1>1, <1>2 DEF IInv, StackFits, TodoFits
<1>6. StableFits'
  <2> SUFFICES ASSUME NEW q \in stable, Archivable(q)
               PROVE  Covered(q)'
    <3>1. stable \subseteq Paths
      BY DEF IInv, TypeOK
    <3>2. \A q \in Paths : Archivable(q)' <=> Archivable(q)
      BY <1>1, TreeFrame
    <3> QED
      BY <1>1, <3>1, <3>2 DEF IInv, StableFits
  <2>1. q \in Paths
    BY DEF IInv, TypeOK
  <2>2. Covered(q)
    BY <1>1 DEF IInv, StableFits
  <2>3. p \notin Ancestors(q) \cup {q}
    <3>1. CASE p = q
      BY <1>1, <2>1, <3>1, PathIsSeq DEF Archivable, Skips, Refused, Is
    <3>2. CASE p \in Ancestors(q)
      <4>1. p \in Paths \cup {Root} /\ Reachable(p)
        BY <2>1, <3>2, PathsAssumption DEF Archivable
      <4>2. p # Root
        <5>1. Root \notin Listed
          BY SpecialIsTold, PathIsSeq DEF Listed
        <5> QED
          BY <5>1 DEF IInv, TypeOK
      <4> QED
        BY <1>1, <4>1, <4>2, PathIsSeq DEF Reachable, Skips, Refused, Is
    <3> QED
      BY <3>1, <3>2
  <2> QED
    BY <1>1, <1>2, <2>2, <2>3 DEF Covered
<1>7. ReadFits'
  BY <1>1, ReadFrame DEF IInv
<1>8. UnpackFits'
  BY <1>1, <1>2 DEF IInv, UnpackFits
<1> QED
  BY <1>2, <1>3, <1>4, <1>5, <1>6, <1>7, <1>8 DEF IInv


\* An entry that is archived covers what it covered in the listing: itself,
\* and, if it is a directory, what is below it.
LEMMA AddedCovers ==
    ASSUME IInv, status = "walk", NEW p \in Paths, todo' = todo \ {p},
           UNCHANGED <<kind, denied, stable>>, status' = status,
           Archived' = Archived \cup {p}, Pending \subseteq Pending',
           kind[p] = "dir" => p \in Pending'
    PROVE  StableFits'
<1> SUFFICES ASSUME NEW q \in stable, Archivable(q)
             PROVE  Covered(q)'
  <2>1. stable \subseteq Paths
    BY DEF IInv, TypeOK
  <2>2. \A q \in Paths : Archivable(q)' <=> Archivable(q)
    BY DEF Archivable, Reachable
  <2> QED
    BY <2>1, <2>2 DEF IInv, StableFits
<1>1. Covered(q) /\ q \in Paths
  BY DEF IInv, StableFits, TypeOK
<1>2. CASE p = q
  BY <1>2 DEF Covered
<1>3. CASE p \in Ancestors(q)
  <2>1. kind[p] = "dir"
    BY <1>3, PathIsSeq DEF Archivable, Reachable
  <2> QED
    BY <1>3, <2>1 DEF Covered
<1>4. CASE p \notin Ancestors(q) \cup {q}
  BY <1>1, <1>4 DEF Covered
<1> QED
  BY <1>2, <1>3, <1>4

LEMMA AddDirStep ==
    ASSUME IInv, NEW p \in todo, AddDir(p)
    PROVE  IInv'
<1>1. /\ status = "walk" /\ reading = NoPath /\ todo' = todo \ {p}
      /\ stack' = Append(stack, p) /\ Add(p, TRUE) /\ AtEntry(p) /\ ~Skips(p) /\ Is(p, "dir")
      /\ UNCHANGED <<kind, denied, present, stable, changes, status, backupType,
                     reading, left, written, total, next, outDirs, outFiles>>
  BY DEF AddDir, AtEntry, container, unpacking
<1>2. /\ p \in Paths /\ p \notin Archived /\ p # Root /\ Archivable(p) /\ kind[p] = "dir"
      /\ Parent(p) \in (DirsIn \cup {Root}) \ Pending
  BY <1>1, EntryFacts
<1>3. /\ archive' \in Seq(Entries) /\ Len(archive') = Len(archive) + 1
      /\ Archived' = Archived \cup {p} /\ FilesIn' = FilesIn
      /\ DirsIn' = DirsIn \cup {p} /\ TreeFits'
  BY <1>1, <1>2, AddedFacts DEF IInv
<1>4. DirsIn \subseteq Archived
  BY DEF DirsIn
<1>5. Pending \subseteq DirsIn \cup {Root} /\ p \notin Pending
  BY <1>2, <1>4 DEF IInv, StackFits
<1>6. stack' \in Seq(Listed \cup {Root}) /\ IsInjective(stack') /\ Pending' = Pending \cup {p}
  <2>1. stack \in Seq(Listed \cup {Root}) /\ p \in Listed \cup {Root} /\ IsInjective(stack)
    BY DEF IInv, TypeOK, StackFits
  <2> QED
    BY <1>1, <1>5, <2>1, PushedFacts DEF Pending
<1>7. TypeOK'
  BY <1>1, <1>3, <1>6 DEF IInv, TypeOK, Entries
<1>8. StatusFits'
  BY <1>1 DEF StatusFits, BeforeTheWalk, AfterTheWalk
<1>9. StackFits'
  <2>1. \A q \in Archived : Parent(q) \notin Pending /\ Parent(q) # p
    <3> SUFFICES ASSUME NEW q \in Archived
                 PROVE  Parent(q) \notin Pending /\ Parent(q) # p
      OBVIOUS
    <3>1. q \in Paths /\ Ancestors(q) \subseteq DirsIn \cup {Root}
      BY ArchiveFacts DEF IInv, TreeFits
    <3>2. Parent(q) \in DirsIn \cup {Root}
      BY <3>1, ParentFacts
    <3> QED
      BY <1>2, <1>4, <3>2 DEF IInv, StackFits
  <2>2. Parent(p) # p
    BY <1>2, ParentFacts
  <2> QED
    BY <1>2, <1>3, <1>5, <1>6, <2>1, <2>2 DEF StackFits
<1>10. TodoFits'
  <2> SUFFICES ASSUME NEW q \in todo \cap Paths, q # p
               PROVE  /\ q \notin Archived /\ Parent(q) \in (DirsIn \cup {Root}) \ Pending
                      /\ Parent(q) # p /\ denied[Parent(q)] # "use"
    BY <1>1, <1>3, <1>6 DEF TodoFits
  <2> QED
    BY <1>2, <1>4 DEF IInv, TodoFits
<1>11. StableFits'
  BY <1>1, <1>2, <1>3, <1>6, AddedCovers
<1>12. ReadFits'
  BY <1>1, <1>3 DEF IInv, ReadFits, WrittenOf
<1>13. UnpackFits'
  <2>1. next = 1 /\ outFiles = {} /\ outDirs = {}
    BY <1>1 DEF IInv, UnpackFits, Extraction
  <2>2. 1..(1 - 1) = {}
    OBVIOUS
  <2>3. Len(archive') \in Nat
    BY <1>3, LenProperties
  <2> QED
    BY <1>1, <2>1, <2>2, <2>3 DEF UnpackFits, Extraction
<1> QED
  BY <1>3, <1>7, <1>8, <1>9, <1>10, <1>11, <1>12, <1>13 DEF IInv

LEMMA OpenFileStep ==
    ASSUME IInv, NEW p \in todo, OpenFile(p)
    PROVE  IInv'
<1>1. /\ status = "walk" /\ reading = NoPath /\ todo' = todo \ {p}
      /\ reading' = p /\ left' = Size[p] /\ Add(p, FALSE)
      /\ AtEntry(p) /\ ~Skips(p) /\ Is(p, "file")
      /\ UNCHANGED <<kind, denied, present, stable, changes, status, backupType,
                     stack, written, total, next, outDirs, outFiles>>
  BY DEF OpenFile, AtEntry, container, unpacking
<1>2. /\ p \in Paths /\ p \notin Archived /\ p # Root /\ Archivable(p) /\ kind[p] = "file"
      /\ Parent(p) \in (DirsIn \cup {Root}) \ Pending
  BY <1>1, EntryFacts
<1>3. /\ archive' \in Seq(Entries) /\ Len(archive') = Len(archive) + 1
      /\ Archived' = Archived \cup {p} /\ FilesIn' = FilesIn \cup {p}
      /\ DirsIn' = DirsIn /\ TreeFits'
  BY <1>1, <1>2, AddedFacts DEF IInv
<1>4. Pending' = Pending /\ p \notin FilesIn /\ p # NoPath /\ Size[p] \in Nat
  BY <1>1, <1>2, PathIsSeq, SizeAssumption DEF Pending, FilesIn, Archived
<1>5. TypeOK'
  BY <1>1, <1>2, <1>3, <1>4 DEF IInv, TypeOK, Entries
<1>6. StatusFits'
  BY <1>1 DEF StatusFits, BeforeTheWalk, AfterTheWalk
<1>7. StackFits' /\ TodoFits'
  BY <1>1, <1>2, <1>3, <1>4 DEF IInv, StackFits, TodoFits
<1>8. StableFits'
  BY <1>1, <1>2, <1>3, <1>4, AddedCovers
<1>9. ReadFits'
  <2>1. \A q \in Paths : WrittenOf(q)' = WrittenOf(q)
    BY <1>1, <1>3, <1>4, PathIsSeq DEF WrittenOf
  <2> QED
    BY <1>1, <1>3, <1>4, <2>1 DEF IInv, ReadFits
<1>10. UnpackFits'
  <2>1. next = 1 /\ outFiles = {} /\ outDirs = {}
    BY <1>1 DEF IInv, UnpackFits, Extraction
  <2>2. 1..(1 - 1) = {}
    OBVIOUS
  <2>3. Len(archive') \in Nat
    BY <1>3, LenProperties
  <2> QED
    BY <1>1, <2>1, <2>2, <2>3 DEF UnpackFits, Extraction
<1> QED
  BY <1>3, <1>5, <1>6, <1>7, <1>8, <1>9, <1>10 DEF IInv

LEMMA ReadStep ==
    ASSUME IInv, ReadData \/ ReadEnd
    PROVE  IInv'
<1>1. /\ status = "walk" /\ reading # NoPath
      /\ UNCHANGED <<kind, denied, present, stable, changes, status, backupType,
                     stack, todo, archive, next, outDirs, outFiles>>
  BY DEF ReadData, ReadEnd, container, unpacking
<1>2. reading \in FilesIn /\ reading \in Paths /\ left <= Size[reading] /\ Size[reading] \in Nat
  BY <1>1, SizeAssumption DEF IInv, TypeOK, ReadFits
<1>3. Archived' = Archived /\ FilesIn' = FilesIn /\ DirsIn' = DirsIn
  BY <1>1, TreeFrame
<1>4. TypeOK' /\ ReadFits'
  <2>1. CASE ReadData
    <3>1. /\ left > 0 /\ left' = left - 1 /\ total' = total + 1 /\ reading' = reading
          /\ written' = [written EXCEPT ![reading] = @ + 1]
      BY <2>1 DEF ReadData
    <3>2. TypeOK'
      BY <1>1, <1>2, <3>1 DEF IInv, TypeOK
    <3>3. left \in Nat /\ written = [q \in Paths |-> WrittenOf(q)]
      BY DEF IInv, TypeOK, ReadFits
    <3>4. \A q \in Paths : WrittenOf(q)' = IF q = reading THEN WrittenOf(q) + 1 ELSE WrittenOf(q)
      BY <1>2, <1>3, <3>1, <3>3 DEF WrittenOf
    <3>5. written' = [q \in Paths |-> WrittenOf(q)']
      BY <3>1, <3>3, <3>4
    <3> QED
      BY <1>2, <1>3, <3>1, <3>2, <3>3, <3>5 DEF ReadFits
  <2>2. CASE ReadEnd
    <3>1. left = 0 /\ reading' = NoPath /\ UNCHANGED <<left, written, total>>
      BY <2>2 DEF ReadEnd
    <3>2. TypeOK'
      BY <1>1, <3>1 DEF IInv, TypeOK
    <3>3. \A q \in Paths : WrittenOf(q)' = WrittenOf(q)
      BY <1>3, <3>1, PathIsSeq, SizeAssumption DEF WrittenOf
    <3> QED
      BY <3>1, <3>2, <3>3 DEF IInv, ReadFits
  <2> QED
    BY <2>1, <2>2
<1>5. StatusFits'
  BY <1>1 DEF StatusFits, BeforeTheWalk, AfterTheWalk
<1>6. StackFits' /\ TodoFits' /\ TreeFits'
  BY <1>1, WalkFrame DEF IInv
<1>7. StableFits'
  <2>1. stable \subseteq Paths
    BY DEF IInv, TypeOK
  <2> QED
    BY <1>1, <2>1, CoveredFrame DEF IInv, StableFits
<1>8. UnpackFits'
  BY <1>1, <1>3 DEF IInv, UnpackFits
<1> QED
  BY <1>4, <1>5, <1>6, <1>7, <1>8 DEF IInv

\* The steps of an extraction leave the archive alone.
LEMMA UnpackFrame ==
    ASSUME IInv, UNCHANGED <<kind, denied, present, stable, changes,
    backupType, stack,
                             todo, reading, left, archive, written, total>>,
           status \in AfterTheWalk, status' \in Extraction,
           next' \in Nat, outDirs' \subseteq Listed \cup {Root}, outFiles' \subseteq Paths
    PROVE  TypeOK' /\ StatusFits' /\ StackFits' /\ TodoFits' /\ TreeFits' /\ StableFits'
           /\ ReadFits'
<1>1. TypeOK' /\ StatusFits'
  BY DEF IInv, TypeOK, StatusFits, BeforeTheWalk, AfterTheWalk, Extraction
<1>2. StackFits' /\ TodoFits' /\ TreeFits'
  BY WalkFrame DEF IInv
<1>3. StableFits'
  BY DEF IInv, StableFits, Extraction
<1>4. ReadFits'
  BY ReadFrame DEF IInv
<1> QED
  BY <1>1, <1>2, <1>3, <1>4

LEMMA UnpackStep ==
    ASSUME IInv, StartUnpack \/ UnpackDir \/ UnpackFile
    PROVE  IInv'
<1>1. /\ UNCHANGED <<kind, denied, present, stable, changes, backupType, stack, todo,
                     reading, left, archive, written, total>>
      /\ status \in AfterTheWalk /\ status' = "unpack"
  BY DEF StartUnpack, UnpackDir, UnpackFile, AtZipEntry, container, walk,
     AfterTheWalk
<1>2. DirsIn' = DirsIn
  BY <1>1, TreeFrame
<1>3. archive \in Seq(Entries) /\ Len(archive) \in Nat
  BY LenProperties DEF IInv, TypeOK, Entries
<1>4. Paths \subseteq Listed /\ DirsIn \subseteq Paths
  BY ArchiveFacts DEF IInv, TreeFits, Listed
<1>5. CASE StartUnpack
  <2>1. next = 1 /\ outFiles = {} /\ UNCHANGED <<next, outFiles>> /\ outDirs' = {Root}
    BY <1>5 DEF IInv, UnpackFits, StartUnpack, Extraction
  <2>2. 1..(1 - 1) = {}
    OBVIOUS
  <2>3. UnpackFits'
    BY <1>1, <1>3, <2>1, <2>2 DEF UnpackFits, Extraction
  <2> QED
    BY <1>1, <2>1, <2>3, UnpackFrame DEF IInv, Extraction
<1>6. CASE UnpackDir \/ UnpackFile
  <2> DEFINE p == archive[next].path
             Done(n) == {archive[i].path : i \in {j \in 1..n : ~archive[j].isDir}}
  <2>1. /\ next \in 1..Len(archive) /\ next' = next + 1
        /\ outFiles = Done(next - 1)
        /\ (\A q \in outFiles : Ancestors(q) \subseteq outDirs)
        /\ outDirs \subseteq DirsIn \cup {Root}
    BY <1>3, <1>6 DEF UnpackDir, UnpackFile, AtZipEntry, IInv, UnpackFits
  <2>2. p \in Archived /\ p \in Paths /\ archive[next].isDir = (kind[p] = "dir")
    <3>1. next \in DOMAIN archive /\ EntryFits(next)
      BY <1>3, <2>1, LenProperties, TreeByEntry DEF IInv, TreeFits
    <3> QED
      BY <2>1, <3>1, ArchiveFacts DEF EntryFits, IInv, TreeFits
  <2>3. Ancestors(p) \subseteq DirsIn \cup {Root}
    BY <2>2 DEF IInv, TreeFits
  <2>4. 1..next = 1..(next - 1) \cup {next} /\ next' - 1 = next
        /\ next' \in 1..(Len(archive) + 1) /\ next' \in Nat
    BY <1>3, <2>1
  <2>5. CASE UnpackDir
    <3>1. archive[next].isDir /\ outFiles' = outFiles
          /\ outDirs' \in {outDirs, outDirs \cup {p} \cup Ancestors(p)}
      BY <2>5 DEF UnpackDir, AtZipEntry
    <3>2. p \in DirsIn
      BY <2>2, <3>1, ArchiveFacts DEF IInv, TreeFits
    <3>3. outDirs \subseteq outDirs' /\ outDirs' \subseteq DirsIn \cup {Root}
      BY <2>1, <2>3, <3>1, <3>2
    <3>4. Done(next) = Done(next - 1)
      BY <2>4, <3>1
    <3>5. outFiles' = {archive'[i].path : i \in {j \in 1..(next' - 1) : ~archive'[j].isDir}}
      BY <1>1, <2>1, <2>4, <3>1, <3>4
    <3>6. \A q \in outFiles' : Ancestors(q) \subseteq outDirs'
      BY <2>1, <3>1, <3>3
    <3>7. UnpackFits'
      BY <1>1, <1>2, <2>4, <3>3, <3>5, <3>6 DEF UnpackFits, Extraction
    <3>8. outDirs' \subseteq Listed \cup {Root} /\ outFiles' \subseteq Paths
      BY <1>4, <3>1, <3>3 DEF IInv, TypeOK
    <3> QED
      BY <1>1, <2>4, <3>7, <3>8, UnpackFrame DEF IInv, Extraction
  <2>6. CASE UnpackFile
    <3>1. ~archive[next].isDir /\ outFiles' = outFiles \cup {p}
          /\ outDirs' = outDirs \cup Ancestors(p)
      BY <2>6 DEF UnpackFile, AtZipEntry
    <3>2. outDirs' \subseteq DirsIn \cup {Root}
      BY <2>1, <2>3, <3>1
    <3>3. Done(next) = Done(next - 1) \cup {p}
      BY <2>4, <3>1
    <3>4. outFiles' = {archive'[i].path : i \in {j \in 1..(next' - 1) : ~archive'[j].isDir}}
      BY <1>1, <2>1, <2>4, <3>1, <3>3
    <3>5. \A q \in outFiles' : Ancestors(q) \subseteq outDirs'
      BY <2>1, <3>1
    <3>6. UnpackFits'
      BY <1>1, <1>2, <2>4, <3>2, <3>4, <3>5 DEF UnpackFits, Extraction
    <3>7. outDirs' \subseteq Listed \cup {Root} /\ outFiles' \subseteq Paths
      BY <1>4, <2>2, <3>1, <3>2 DEF IInv, TypeOK
    <3> QED
      BY <1>1, <2>4, <3>6, <3>7, UnpackFrame DEF IInv, Extraction
  <2> QED
    BY <1>6, <2>5, <2>6
<1> QED
  BY <1>5, <1>6

\* The application changes what is there, and what has been there all along
\* can only become less, with all that is below it.
LEMMA ApplicationStep ==
    ASSUME IInv, NEW p \in Paths, status = "walk", Creates(p) \/ Deletes(p)
    PROVE  IInv'
<1>1. UNCHANGED <<kind, denied, status, backupType, stack, todo, reading, left, archive,
                  written, total, next, outDirs, outFiles>>
  BY DEF Creates, Deletes, walk, unpacking
<1>2. changes' \in 0..MaxChanges
  BY BoundAssumption DEF IInv, TypeOK, Creates, Deletes
<1>3. /\ present' \subseteq Paths /\ stable' \subseteq present' /\ stable' \subseteq stable
      /\ \A q \in stable' : Ancestors(q) \subseteq stable' \cup {Root}
  <2>1. present \subseteq Paths /\ stable \subseteq present
        /\ \A q \in stable : Ancestors(q) \subseteq stable \cup {Root}
    BY DEF IInv, TypeOK, StableFits
  <2>2. CASE Creates(p)
    BY <2>1, <2>2 DEF Creates
  <2>3. CASE Deletes(p)
    <3>1. /\ present' = {q \in present : ~IsPrefix(p, q)}
          /\ stable' = stable \cap present'
      BY <2>3 DEF Deletes
    <3>2. ASSUME NEW q \in stable', NEW a \in Ancestors(q), a # Root
          PROVE  a \in stable'
      <4>1. q \in Paths /\ q \in stable /\ ~IsPrefix(p, q)
        BY <2>1, <3>1
      <4>2. a \in stable /\ ~IsPrefix(p, a)
        BY <2>1, <3>2, <4>1, PrefixOfAncestor
      <4> QED
        BY <2>1, <3>1, <4>2
    <3> QED
      BY <2>1, <3>1, <3>2
  <2> QED
    BY <2>2, <2>3
<1>4. TypeOK'
  BY <1>1, <1>2, <1>3 DEF IInv, TypeOK
<1>5. StatusFits'
  BY <1>1 DEF IInv, StatusFits
<1>6. StackFits' /\ TodoFits' /\ TreeFits'
  BY <1>1, WalkFrame DEF IInv
<1>7. StableFits'
  <2>1. stable \subseteq Paths
    BY DEF IInv, TypeOK
  <2> QED
    BY <1>1, <1>3, <2>1, CoveredFrame DEF IInv, StableFits
<1>8. ReadFits'
  BY <1>1, ReadFrame DEF IInv
<1>9. UnpackFits'
  <2>1. DirsIn' = DirsIn
    BY <1>1, TreeFrame
  <2> QED
    BY <1>1, <2>1 DEF IInv, UnpackFits
<1> QED
  BY <1>4, <1>5, <1>6, <1>7, <1>8, <1>9 DEF IInv

LEMMA NextIInv == IInv /\ [Next]_vars => IInv'
<1>1. ASSUME IInv, UNCHANGED vars
      PROVE  IInv'
  <2>1. UNCHANGED <<kind, denied, present, stable, changes, status, backupType, stack,
                    todo, reading, left, archive, written, total, next,
                    outDirs,
                    outFiles>>
    BY <1>1 DEF vars
  <2>2. TypeOK' /\ StatusFits'
    BY <1>1, <2>1 DEF IInv, TypeOK, StatusFits
  <2>3. StackFits' /\ TodoFits' /\ TreeFits'
    BY <1>1, <2>1, WalkFrame DEF IInv
  <2>4. StableFits'
    <3>1. stable \subseteq Paths
      BY <1>1 DEF IInv, TypeOK
    <3> QED
      BY <1>1, <2>1, <3>1, CoveredFrame DEF IInv, StableFits
  <2>5. ReadFits'
    BY <1>1, <2>1, ReadFrame DEF IInv
  <2>6. UnpackFits'
    <3>1. DirsIn' = DirsIn
      BY <2>1, TreeFrame
    <3> QED
      BY <1>1, <2>1, <3>1 DEF IInv, UnpackFits
  <2> QED
    BY <2>2, <2>3, <2>4, <2>5, <2>6 DEF IInv
<1> QED
  BY <1>1, StatusStep, CreateZipStep, ListDirStep, SkipEntryStep, AddDirStep,
     OpenFileStep, ReadStep, UnpackStep, ApplicationStep DEF Next, WalkStep

-----------------------------------------------------------------------------
(* The theorems *)

\* The inductive invariant: the archive, the stack, the current listing, what
\* has been there all along, the bytes and the extraction fit together
\* (backup.rs:44-169).
THEOREM Invariance == Spec => []IInv
BY InitIInv, NextIInv, PTL DEF Spec

\* The variables have their types; the walk never opens or stacks one of the
\* two extra entries of a listing (backup.rs:72-125).
THEOREM TypeCorrect == Spec => []TypeOK
<1>1. IInv => TypeOK
  BY DEF IInv
<1> QED
  BY <1>1, Invariance, PTL

\* The archive is a tree at every moment, whatever the application does to the
\* container and whatever the device refuses (backup.rs:68-125).
THEOREM ArchiveStaysATree == Spec => []ArchiveIsATree
<1>1. IInv => ArchiveIsATree
  BY DEF IInv, TreeFits
<1> QED
  BY <1>1, Invariance, PTL

\* What is left of the cover when nothing is left to do.
LEMMA StableIsMet == IInv => StableIsArchived
<1> SUFFICES ASSUME IInv, status = "success", NEW p \in stable, Archivable(p)
             PROVE  p \in Archived
  BY DEF StableIsArchived
<1>1. Covered(p)
  BY DEF IInv, StableFits
<1>2. stack = <<>> /\ todo = {}
  BY DEF IInv, StatusFits, AfterTheWalk
<1>3. Pending = {}
  BY <1>2 DEF Pending, ToSet
<1> QED
  BY <1>1, <1>2, <1>3 DEF Covered

\* A backup that reports success has archived all that was there from the
\* beginning to the end and that the device let it read (backup.rs:68-130).
THEOREM NothingStableIsMissed == Spec => []StableIsArchived
BY StableIsMet, Invariance, PTL

\* Nothing is being read when success is reported.
LEMMA FilesAreMet == IInv => FilesAreComplete
<1> SUFFICES ASSUME IInv, status = "success"
             PROVE  written = [p \in Paths |-> IF p \in FilesIn THEN Size[p] ELSE 0]
  BY DEF FilesAreComplete
<1>1. reading = NoPath
  BY DEF IInv, StatusFits, AfterTheWalk
<1>2. \A p \in Paths : WrittenOf(p) = IF p \in FilesIn THEN Size[p] ELSE 0
  BY <1>1, PathIsSeq DEF WrittenOf
<1> QED
  BY <1>2 DEF IInv, ReadFits

\* At success every file of the archive has all its pieces, and nothing else
\* was written (backup.rs:104-123).
THEOREM ArchivedFilesAreComplete == Spec => []FilesAreComplete
BY FilesAreMet, Invariance, PTL

\* total_bytes is the number of pieces written, of which there are finitely
\* many: the files of the container need not be.
PiecesAreCounted == IsFiniteSet(Pieces) /\ total = Cardinality(Pieces)

LEMMA PiecesInit == Init => PiecesAreCounted
<1> SUFFICES ASSUME Init PROVE PiecesAreCounted
  OBVIOUS
<1>1. \A p \in Paths : 1..written[p] = {}
  BY DEF Init
<1>2. Pieces = {} /\ total = 0
  BY <1>1 DEF Pieces, Init
<1> QED
  BY <1>2, FS_EmptySet DEF PiecesAreCounted

\* Reading is the only step that writes, and it writes the next piece.
LEMMA PiecesNext ==
    ASSUME TypeOK, PiecesAreCounted, [Next]_vars
    PROVE  PiecesAreCounted'
<1>1. CASE ReadData
  <2> DEFINE piece == <<reading, written[reading] + 1>>
  <2>1. /\ reading \in Paths /\ written \in [Paths -> Nat]
        /\ written' = [written EXCEPT ![reading] = @ + 1]
        /\ total' = total + 1
    BY <1>1 DEF ReadData, TypeOK
  <2>2. \A p \in Paths :
           {p} \X (1..written'[p]) =
             IF p = reading THEN ({p} \X (1..written[p])) \cup {piece}
             ELSE {p} \X (1..written[p])
    <3>1. 1..(written[reading] + 1) = 1..written[reading] \cup {written[reading] + 1}
      BY <2>1
    <3> QED
      BY <2>1, <3>1
  <2>3. Pieces' = Pieces \cup {piece}
    BY <2>1, <2>2 DEF Pieces
  <2>4. piece \notin Pieces
    BY <2>1 DEF Pieces
  <2> HIDE DEF piece
  <2> QED
    BY <2>1, <2>3, <2>4, FS_AddElement DEF PiecesAreCounted
<1>2. CASE UNCHANGED <<written, total>>
  BY <1>2 DEF PiecesAreCounted, Pieces
<1>3. ReadData \/ UNCHANGED <<written, total>>
  BY DEF Next, WalkStep, vars, walk, Connect, VendContainer, ContainerRefused,
     Reconnect, VendDocuments, Advance, CreateZip, ListDir, SkipEntry, AddDir,
     OpenFile, ReadEnd, Finish, PathIsGone, BackupFails, EndInError,
     StartUnpack, UnpackDir, UnpackFile, UnpackEnd, UnpackFails, Creates,
     Deletes
<1> QED
  BY <1>1, <1>2, <1>3

\* The bytes that a backup reports are those it wrote, and at success those of
\* its files (backup.rs:104-130).
THEOREM TotalIsTheArchive == Spec => []SizesAddUp
<1>1. PiecesAreCounted /\ FilesAreComplete => SizesAddUp
  BY DEF PiecesAreCounted, SizesAddUp
<1> QED
  BY <1>1, PiecesInit, PiecesNext, TypeCorrect, ArchivedFilesAreComplete, PTL
     DEF Spec

\* All entries are unpacked when success is reported.
LEMMA UnpackedIsMet == IInv => UnpackedIsTheArchive
<1> SUFFICES ASSUME IInv, status = "unpacked"
             PROVE  /\ outFiles = FilesIn
                    /\ UNION {Ancestors(p) : p \in outFiles} \subseteq outDirs
                    /\ outDirs \subseteq DirsIn \cup {Root}
  BY DEF UnpackedIsTheArchive
<1>1. archive \in Seq(Entries) /\ Len(archive) \in Nat
  BY LenProperties DEF IInv, TypeOK, Entries
<1>2. next - 1 = Len(archive)
  BY <1>1 DEF IInv, UnpackFits
<1>3. outFiles = {archive[i].path : i \in {j \in 1..Len(archive) : ~archive[j].isDir}}
  BY <1>2 DEF IInv, UnpackFits
<1>4. ToSet(archive) = {archive[i] : i \in 1..Len(archive)}
  BY <1>1, ToSetFacts
<1>5. FilesIn = outFiles
  BY <1>3, <1>4 DEF FilesIn
<1> QED
  BY <1>5 DEF IInv, UnpackFits

\* An extraction that reports success has made exactly the files of the
\* archive, in their directories (backup.rs:137-169).
THEOREM ExtractionIsTheArchive == Spec => []UnpackedIsTheArchive
BY UnpackedIsMet, Invariance, PTL

-----------------------------------------------------------------------------
(* The walk implements ArchiveJob *)

\* What the device says of the paths does not change.
LEMMA PromisedFrame ==
    ASSUME UNCHANGED <<kind, denied>>
    PROVE  Promised' = Promised
BY DEF Promised, Archivable, Reachable

\* What of the job follows from the status.
LEMMA PhaseFacts ==
    ASSUME TypeOK
    PROVE  /\ status \in BeforeTheWalk \cup {"walk"} => Phase = "running" /\ ~HasArchive
           /\ status = "error" => Phase = "failed" /\ ~HasArchive
           /\ status \in {"success", "unpack"} => Phase = "archived" /\ HasArchive
           /\ status = "unpacked" => Phase = "unpacked" /\ HasArchive
           /\ status = "unpackError" => Phase = "unpackFailed" /\ HasArchive
BY DEF Phase, HasArchive, BeforeTheWalk

LEMMA JobInit == Init => Job!Init
<1> SUFFICES ASSUME Init PROVE Job!Init
  OBVIOUS
<1>1. TypeOK
  BY InitIInv DEF IInv
<1>2. Phase = "running" /\ ~HasArchive
  BY <1>1, PhaseFacts DEF Init, BeforeTheWalk
<1>3. stable \subseteq Paths /\ kind \in [Paths -> {"dir", "file", "other"}]
  BY <1>1 DEF TypeOK
<1>4. Promised \subseteq {p \in Paths : kind[p] \in {"dir", "file"}}
  BY DEF Promised, Archivable
<1> QED
  BY <1>2, <1>3, <1>4 DEF Job!Init

\* A step inside the walk or inside the extraction is not seen.
LEMMA UnseenByJob ==
    ASSUME UNCHANGED <<kind, denied, stable, archive, written>>,
           Phase' = Phase, Phase # "unpacked"
    PROVE  UNCHANGED Job!vars
<1>1. Promised' = Promised /\ Archived' = Archived /\ HasArchive' = HasArchive
  BY PromisedFrame DEF Archived, HasArchive
<1> QED
  BY <1>1 DEF Job!vars

\* Nor is one before success is reported, but for what is deleted.
LEMMA RunningJob ==
    ASSUME UNCHANGED <<kind, denied>>, stable' \subseteq stable,
           Phase = "running", Phase' = "running"
    PROVE  Job!Lose
<1>1. Promised' = Promised /\ ~HasArchive /\ ~HasArchive'
  BY PromisedFrame DEF HasArchive
<1>2. stable' \cap Promised' \subseteq stable \cap Promised
  BY <1>1
<1> QED
  BY <1>1, <1>2 DEF Job!Lose

\* Failing leaves all but the phase alone.
LEMMA FailedJob ==
    ASSUME TypeOK, TypeOK', UNCHANGED <<kind, denied, stable, archive, written>>
    PROVE  /\ status \in BeforeTheWalk \cup {"walk"} /\ status' = "error" => Job!Fail
           /\ status = "unpack" /\ status' = "unpackError" => Job!FailToUnpack
<1>1. Promised' = Promised /\ Archived' = Archived
  BY PromisedFrame DEF Archived
<1>2. ASSUME status \in BeforeTheWalk \cup {"walk"}, status' = "error"
      PROVE  Job!Fail
  <2>1. Phase = "running" /\ Phase' = "failed" /\ ~HasArchive /\ ~HasArchive'
    BY <1>2, PhaseFacts DEF Phase, HasArchive
  <2> QED
    BY <1>1, <2>1 DEF Job!Fail
<1>3. ASSUME status = "unpack", status' = "unpackError"
      PROVE  Job!FailToUnpack
  <2>1. Phase = "archived" /\ Phase' = "unpackFailed" /\ HasArchive /\ HasArchive'
    BY <1>3, PhaseFacts DEF Phase, HasArchive
  <2> QED
    BY <1>1, <2>1 DEF Job!FailToUnpack
<1> QED
  BY <1>2, <1>3

\* In a tree all that is archived is promised, as what it is, with the
\* directories it is in.
LEMMA ArchivedIsPromised ==
    ASSUME IInv
    PROVE  /\ Archived \subseteq Promised
           /\ FilesIn = {p \in Archived : kind[p] = "file"}
           /\ DirsIn = {p \in Archived : kind[p] = "dir"}
           /\ \A p \in Archived : Ancestors(p) \ {Root} \subseteq DirsIn
<1>1. /\ Archived \subseteq Paths /\ (\A p \in Archived : Archivable(p))
      /\ FilesIn = {p \in Archived : kind[p] # "dir"}
      /\ DirsIn = {p \in Archived : kind[p] = "dir"}
  BY ArchiveFacts DEF IInv, TreeFits
<1>2. \A p \in Archived : kind[p] \in {"dir", "file"}
  BY <1>1 DEF Archivable
<1>3. \A p \in Archived : Ancestors(p) \ {Root} \subseteq DirsIn
  BY DEF IInv, TreeFits
<1> QED
  BY <1>1, <1>2, <1>3 DEF Promised

\* Success is reported for an archive that has all it must have.
LEMMA FinishSucceeds ==
    ASSUME IInv, StableIsArchived', FilesAreComplete', Finish
    PROVE  Job!Succeed
<1>1. /\ status = "walk" /\ status' = "success"
      /\ UNCHANGED <<kind, denied, stable, archive, written, outFiles, outDirs>>
  BY DEF Finish, container, walk, unpacking
<1>2. Phase = "running" /\ ~HasArchive /\ Phase' = "archived" /\ HasArchive'
  BY <1>1, PhaseFacts DEF IInv, Phase, HasArchive
<1>3. Promised' = Promised /\ Archived' = Archived /\ FilesIn' = FilesIn
  BY <1>1, PromisedFrame DEF Archived, FilesIn
<1>4. stable \cap Promised \subseteq Archived
  <2>1. {p \in stable : Archivable(p)'} \subseteq Archived
    BY <1>1, <1>3 DEF StableIsArchived
  <2> QED
    BY <1>1, <2>1, TreeFrame DEF Promised
<1>5. written' = [p \in Paths |-> IF p \in FilesIn THEN Size[p] ELSE 0]
  BY <1>1, <1>3 DEF FilesAreComplete
<1>6. Archived \subseteq Promised /\ \A p \in Archived : kind[p] \in {"dir", "file"}
  BY ArchivedIsPromised DEF Promised, Archivable
<1>7. Archived \subseteq {p \in Promised : kind[p] = "dir"} \cup {p \in Promised : kind[p] = "file"}
  BY <1>6
<1>8. \A p \in Archived : [q \in Paths |-> Ancestors(q) \ {Root}][p]
                            \subseteq Archived \cap {q \in Promised : kind[q] = "dir"}
  BY <1>6, ArchivedIsPromised DEF Promised
<1>9. FilesIn = Archived \cap {p \in Promised : kind[p] = "file"}
  BY <1>6, ArchivedIsPromised
<1> QED
  BY <1>1, <1>2, <1>3, <1>4, <1>5, <1>7, <1>8, <1>9 DEF Job!Succeed

\* The last step of an extraction makes what was unpacked the copy.
LEMMA UnpackEndUnpacks ==
    ASSUME IInv, UnpackedIsTheArchive', UnpackEnd
    PROVE  Job!Unpack
<1>1. /\ status = "unpack" /\ status' = "unpacked"
      /\ UNCHANGED <<kind, denied, stable, archive, written, outFiles, outDirs>>
  BY DEF UnpackEnd, container, walk, unpacking
<1>2. Phase = "archived" /\ HasArchive /\ Phase' = "unpacked" /\ HasArchive'
  BY <1>1, PhaseFacts DEF IInv, Phase, HasArchive
<1>3. Promised' = Promised /\ Archived' = Archived /\ FilesIn' = FilesIn /\ DirsIn' = DirsIn
  BY <1>1, PromisedFrame, TreeFrame
<1>4. /\ outFiles = FilesIn /\ outDirs \subseteq DirsIn \cup {Root}
      /\ \A p \in outFiles : Ancestors(p) \subseteq outDirs
  BY <1>1, <1>3 DEF UnpackedIsTheArchive
<1> DEFINE made == outFiles \cup (outDirs \ {Root})
           file == {p \in Promised : kind[p] = "file"}
<1>5. FilesIn = Archived \cap file /\ DirsIn \cap file = {} /\ DirsIn \subseteq Archived
  BY ArchivedIsPromised
<1>6. made \subseteq Archived /\ made \cap file = Archived \cap file
  BY <1>4, <1>5
<1>7. \A p \in made \cap file : [q \in Paths |-> Ancestors(q) \ {Root}][p] \subseteq made
  BY <1>4, <1>5, <1>6 DEF Promised
<1> QED
  BY <1>1, <1>2, <1>3, <1>6, <1>7 DEF Job!Unpack

LEMMA JobStep ==
    ASSUME IInv, IInv', StableIsArchived', FilesAreComplete',
           UnpackedIsTheArchive', [Next]_vars
    PROVE  [Job!Next]_(Job!vars)
<1>1. TypeOK /\ TypeOK'
  BY DEF IInv
<1>2. CASE UNCHANGED vars
  BY <1>2 DEF vars, Job!vars, Promised, Archivable, Reachable, Phase,
     HasArchive, Archived
<1>3. CASE Connect \/ VendContainer \/ ContainerRefused \/ Reconnect \/ VendDocuments
           \/ CreateZip
  <2>1. /\ status \in BeforeTheWalk /\ status' \in BeforeTheWalk \cup {"walk"}
        /\ UNCHANGED <<kind, denied, stable>>
    BY <1>3 DEF Connect, VendContainer, ContainerRefused, Reconnect,
       VendDocuments, Advance, CreateZip, BeforeTheWalk, container
  <2>2. Phase = "running" /\ Phase' = "running"
    BY <1>1, <2>1, PhaseFacts DEF Phase, BeforeTheWalk
  <2> QED
    BY <2>1, <2>2, RunningJob DEF Job!Next
<1>4. CASE ListDir \/ (\E p \in todo : SkipEntry(p) \/ AddDir(p) \/ OpenFile(p))
           \/ ReadData \/ ReadEnd
  <2>1. status = "walk" /\ UNCHANGED <<kind, denied, stable, status>>
    BY <1>4 DEF ListDir, SkipEntry, AddDir, OpenFile, AtEntry, ReadData,
       ReadEnd, container
  <2>2. Phase = "running" /\ Phase' = "running"
    BY <2>1 DEF Phase
  <2> QED
    BY <2>1, <2>2, RunningJob DEF Job!Next
<1>5. CASE Finish
  BY <1>5, FinishSucceeds DEF Job!Next
<1>6. CASE PathIsGone \/ BackupFails
  <2>1. /\ status \in BeforeTheWalk \cup {"walk"} /\ status' = "error"
        /\ UNCHANGED <<kind, denied, stable, archive, written>>
    BY <1>6 DEF PathIsGone, BackupFails, EndInError, BeforeTheWalk, container,
       walk
  <2> QED
    BY <1>1, <2>1, FailedJob DEF Job!Next
<1>7. CASE StartUnpack \/ UnpackDir \/ UnpackFile
  <2>1. /\ status \in {"success", "unpack"} /\ status' = "unpack"
        /\ UNCHANGED <<kind, denied, stable, archive, written>>
    BY <1>7 DEF StartUnpack, UnpackDir, UnpackFile, AtZipEntry, container,
       walk
  <2>2. Phase = "archived" /\ Phase' = "archived"
    BY <2>1 DEF Phase
  <2> QED
    BY <2>1, <2>2, UnseenByJob
<1>8. CASE UnpackEnd
  BY <1>8, UnpackEndUnpacks DEF Job!Next
<1>9. CASE UnpackFails
  <2>1. /\ status = "unpack" /\ status' = "unpackError"
        /\ UNCHANGED <<kind, denied, stable, archive, written>>
    BY <1>9 DEF UnpackFails, container, walk
  <2> QED
    BY <1>1, <2>1, FailedJob DEF Job!Next
<1>10. CASE \E p \in Paths : status = "walk" /\ (Creates(p) \/ Deletes(p))
  <2>1. /\ status = "walk" /\ UNCHANGED <<kind, denied, status>>
        /\ stable' \subseteq stable
    BY <1>10 DEF Creates, Deletes
  <2>2. Phase = "running" /\ Phase' = "running"
    BY <2>1 DEF Phase
  <2> QED
    BY <2>1, <2>2, RunningJob DEF Job!Next
<1> QED
  BY <1>2, <1>3, <1>4, <1>5, <1>6, <1>7, <1>8, <1>9, <1>10 DEF Next, WalkStep

\* The walk keeps the promise of ArchiveJob: a backup fails or has, in one
\* step, what was there all along, and its extraction fails or is the archive
\* (backup.rs:44-169).
THEOREM ImplementsArchiveJob == Spec => KeepsTheJob
BY JobInit, JobStep, Invariance, NothingStableIsMissed,
   ArchivedFilesAreComplete, ExtractionIsTheArchive, PTL
   DEF Spec, KeepsTheJob, Job!Spec

=============================================================================
