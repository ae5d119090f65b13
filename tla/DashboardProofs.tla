-------------------------- MODULE DashboardProofs --------------------------
(***************************************************************************)
(* Theorems about Dashboard, for any pairing files and any number of       *)
(* engine tests.                                                           *)
(***************************************************************************)
EXTENDS Dashboard, SequenceTheorems, TLAPS

Blocks == [do : PairingBlocks, of : Files \cup {None}]
            \cup [do : TestBlocks, of : Tests]
Waits(do) == \E i \in DOMAIN mainQ : mainQ[i].do = do

-----------------------------------------------------------------------------
(* The pairing: what is published and what still waits in the main queue   *)

\* Which blocks of PairingManager may wait behind which.
Follows(first, then) ==
    \/ first \in {"host", "unreadable"} /\ then = "paired"
    \/ first = "unpaired" /\ then = "unpaired"

InOrder(q) ==
    \A i, j \in DOMAIN q :
        i < j /\ q[i].do \in PairingBlocks /\ q[j].do \in PairingBlocks =>
            Follows(q[i].do, q[j].do)

\* A block that waits is about the file that is on the disk now.
BlockFits(i) ==
    /\ mainQ[i].do = "host" => file # None /\ mainQ[i].of = file /\ ~isPaired
    /\ mainQ[i].do = "unreadable" =>
           file # None /\ ~Content[file].parses /\ ~isPaired
    /\ mainQ[i].do = "paired" => file # None
    /\ mainQ[i].do \in {"unpaired", "error"} => file = None
BlocksFit == \A i \in DOMAIN mainQ : BlockFits(i)

\* What no waiting block will set is right already.
HostIsRight ==
    /\ hostID = HostIDOf(file)
    /\ hasMissingKeys => file # None /\ (~Content[file].parses \/ Missing(file))
PublishedFits ==
    /\ ~Waits("unpaired") /\ ~Waits("host") => HostIsRight
    /\ ~Waits("unpaired") => (isPaired <=> file # None /\ ~Waits("paired"))

PairingInv == InOrder(mainQ) /\ BlocksFit /\ PublishedFits

-----------------------------------------------------------------------------
(* The tests: while none has been started beside another there is one *)

Ends == {"teardown", "stop"}
Running == {"engine", "fetch", "timer"}

OneTest == \A t, u \in Tests : pc[t] \in UnderWay /\ pc[u] \in UnderWay => t = u

BeginsFit ==
    \A i \in DOMAIN mainQ : mainQ[i].do = "begin" =>
        /\ pc[mainQ[i].of] = "starting"
        /\ \A j \in DOMAIN mainQ : mainQ[j].do = "begin" => i = j
ListsFit ==
    \A i \in DOMAIN mainQ : mainQ[i].do = "apps" =>
        isTesting /\ mainQ[i].of = latest
\* What ends a test comes after everything else of it.
EndsFit ==
    \A i \in DOMAIN mainQ : mainQ[i].do \in Ends =>
        /\ isTesting
        /\ \A t \in Tests : pc[t] \notin UnderWay
        /\ \A j \in DOMAIN mainQ : mainQ[j].do \in Ends => i = j
        /\ \A j \in DOMAIN mainQ : mainQ[j].do = "apps" => j < i
ThreadsFit ==
    \A t \in Tests :
        /\ pc[t] = "starting" => ~isTesting
        /\ pc[t] \in Running => isTesting /\ latest = t

TestInv ==
    ~overlapped =>
        /\ OneTest /\ BeginsFit /\ ListsFit /\ EndsFit /\ ThreadsFit
        /\ showAppList => apps = latest

\* The inductive invariant.
IInv == TypeOK /\ PairingInv /\ TestInv

-----------------------------------------------------------------------------
(* The main queue *)

LEMMA Joined ==
    ASSUME NEW S, NEW q \in Seq(S), NEW s \in Seq(S)
    PROVE  /\ q \o s \in Seq(S)
           /\ \A i \in DOMAIN (q \o s) :
                 \/ i \in DOMAIN q /\ (q \o s)[i] = q[i]
                 \/ i - Len(q) \in DOMAIN s /\ (q \o s)[i] = s[i - Len(q)]
           /\ \A i \in DOMAIN q : i \in DOMAIN (q \o s) /\ (q \o s)[i] = q[i]
           /\ \A i \in DOMAIN s : Len(q) + i \in DOMAIN (q \o s)
                                 /\ (q \o s)[Len(q) + i] = s[i]
           /\ \A i \in DOMAIN q, j \in DOMAIN (q \o s) \ DOMAIN q : i < j
<1>1. /\ DOMAIN q = 1..Len(q) /\ DOMAIN s = 1..Len(s)
      /\ Len(q) \in Nat /\ Len(s) \in Nat
  BY LenProperties
<1>2. /\ q \o s \in Seq(S) /\ Len(q \o s) = Len(q) + Len(s)
      /\ \A i \in 1..(Len(q) + Len(s)) :
             (q \o s)[i] = IF i <= Len(q) THEN q[i] ELSE s[i - Len(q)]
  BY ConcatProperties
<1>3. DOMAIN (q \o s) = 1..(Len(q) + Len(s))
  BY <1>2, LenProperties
<1> QED
  BY <1>1, <1>2, <1>3

LEMMA Popped ==
    ASSUME NEW S, NEW q \in Seq(S), q # <<>>
    PROVE  /\ Head(q) = q[1] /\ 1 \in DOMAIN q /\ Head(q) \in S
           /\ Tail(q) \in Seq(S)
           /\ \A i \in DOMAIN Tail(q) : /\ i \in Nat /\ 1 < i + 1
                                        /\ i + 1 \in DOMAIN q
                                        /\ Tail(q)[i] = q[i + 1]
           /\ \A i \in DOMAIN q \ {1} : /\ i - 1 \in DOMAIN Tail(q)
                                        /\ Tail(q)[i - 1] = q[i]
<1>1. /\ DOMAIN q = 1..Len(q) /\ Len(q) \in Nat \ {0}
      /\ Tail(q) \in Seq(S) /\ Len(Tail(q)) = Len(q) - 1
      /\ Head(q) \in S
      /\ \A i \in 1..Len(Tail(q)) : Tail(q)[i] = q[i + 1]
  BY LenProperties, EmptySeq, HeadTailProperties
<1>2. DOMAIN Tail(q) = 1..(Len(q) - 1)
  BY <1>1, LenProperties
<1>3. Head(q) = q[1]
  OBVIOUS
<1> QED
  BY <1>1, <1>2, <1>3

LEMMA OneBlock ==
    ASSUME NEW do, NEW of
    PROVE  /\ DOMAIN Block(do, of) = {1}
           /\ Block(do, of)[1] = [do |-> do, of |-> of]
BY DEF Block

LEMMA OneBlockType ==
    ASSUME NEW do, NEW of,
           \/ do \in PairingBlocks /\ of \in Files \cup {None}
           \/ do \in TestBlocks /\ of \in Tests
    PROVE  Block(do, of) \in Seq(Blocks)
<1>1. [do |-> do, of |-> of] \in Blocks
  BY DEF Blocks
<1> QED
  BY <1>1 DEF Block

LEMMA TwoBlocks ==
    ASSUME NEW a \in PairingBlocks, NEW b \in PairingBlocks,
           NEW f \in Files \cup {None}
    PROVE  LET s == Block(a, f) \o Block(b, f)
           IN  /\ s \in Seq(Blocks) /\ DOMAIN s = {1, 2}
               /\ s[1] = [do |-> a, of |-> f] /\ s[2] = [do |-> b, of |-> f]
<1> DEFINE q == Block(a, f)
           r == Block(b, f)
           s == q \o r
<1>1. /\ q \in Seq(Blocks) /\ DOMAIN q = {1} /\ q[1] = [do |-> a, of |-> f]
      /\ r \in Seq(Blocks) /\ DOMAIN r = {1} /\ r[1] = [do |-> b, of |-> f]
  BY OneBlock, OneBlockType
<1>2. Len(q) = 1 /\ Len(r) = 1
  BY DEF Block
<1> HIDE DEF q, r
<1>3. /\ s \in Seq(Blocks) /\ Len(s) = 2
      /\ \A i \in 1..2 : s[i] = IF i <= 1 THEN q[i] ELSE r[i - 1]
  <2>1. /\ s \in Seq(Blocks) /\ Len(s) = Len(q) + Len(r)
        /\ \A i \in 1..(Len(q) + Len(r)) :
               s[i] = IF i <= Len(q) THEN q[i] ELSE r[i - Len(q)]
    BY <1>1, ConcatProperties
  <2> HIDE DEF s
  <2> QED
    BY <1>2, <2>1
<1>4. DOMAIN s = 1..2
  BY <1>3, LenProperties
<1> QED
  BY <1>1, <1>3, <1>4 DEF q, r

\* The blocks of the kinds K are still those that waited, moved by k places.
Shifted(k, K) ==
    \A i \in DOMAIN mainQ' : mainQ'[i].do \in K =>
        i \in Nat /\ i + k \in DOMAIN mainQ /\ mainQ'[i] = mainQ[i + k]
Kept(K) ==
    \A i \in DOMAIN mainQ : mainQ[i].do \in K =>
        \E j \in DOMAIN mainQ' : mainQ'[j] = mainQ[i]

LEMMA TakenMoves ==
    ASSUME mainQ \in Seq(Blocks), NEW do, Runs(do)
    PROVE  /\ mainQ' \in Seq(Blocks)
           /\ \A K : Shifted(1, K)
           /\ \A K : do \notin K => Kept(K)
           /\ 1 \in DOMAIN mainQ /\ mainQ[1] = Head(mainQ)
           /\ mainQ[1].do = do /\ mainQ[1] \in Blocks
           /\ \A i \in DOMAIN mainQ' : 1 < i + 1
<1>1. mainQ # <<>> /\ mainQ' = Tail(mainQ) /\ Head(mainQ).do = do
  BY DEF Runs
<1> QED
  BY <1>1, Popped DEF Shifted, Kept

LEMMA PutMoves ==
    ASSUME mainQ \in Seq(Blocks), NEW s \in Seq(Blocks), mainQ' = mainQ \o s
    PROVE  /\ mainQ' \in Seq(Blocks)
           /\ \A K : (\A i \in DOMAIN s : s[i].do \notin K) => Shifted(0, K)
           /\ \A K : Kept(K)
<1>1. \A i \in DOMAIN mainQ : i \in Nat
  BY LenProperties
<1> QED
  BY <1>1, Joined DEF Shifted, Kept

LEMMA NoBlock ==
    ASSUME mainQ \in Seq(Blocks), mainQ' = mainQ \o <<>>
    PROVE  mainQ' = mainQ
BY ConcatEmptySeq

-----------------------------------------------------------------------------
(* What leaves the pairing, or the tests, alone *)

LEMMA PairingAlone ==
    ASSUME PairingInv, UNCHANGED pairing, NEW k \in Nat,
           Shifted(k, PairingBlocks), Kept(PairingBlocks)
    PROVE  PairingInv'
<1>1. InOrder(mainQ)'
  BY DEF PairingInv, InOrder, Shifted
<1>2. BlocksFit'
  <2> SUFFICES ASSUME NEW i \in DOMAIN mainQ'
               PROVE  BlockFits(i)'
    BY DEF BlocksFit
  <2>1. CASE mainQ'[i].do \in PairingBlocks
    BY <2>1 DEF PairingInv, BlocksFit, BlockFits, Shifted, pairing
  <2>2. CASE mainQ'[i].do \notin PairingBlocks
    BY <2>2 DEF PairingBlocks, BlockFits
  <2> QED
    BY <2>1, <2>2
<1>3. PublishedFits'
  <2>1. \A do \in PairingBlocks : Waits(do)' <=> Waits(do)
    BY DEF Waits, Shifted, Kept
  <2>2. /\ Waits("unpaired")' <=> Waits("unpaired")
        /\ Waits("host")' <=> Waits("host")
        /\ Waits("paired")' <=> Waits("paired")
    BY <2>1 DEF PairingBlocks
  <2> QED
    BY <2>2 DEF PairingInv, PublishedFits, HostIsRight, pairing
<1> QED
  BY <1>1, <1>2, <1>3 DEF PairingInv

LEMMA TestsAlone ==
    ASSUME TestInv, UNCHANGED <<pc, screen, history>>, NEW k \in Nat,
           Shifted(k, TestBlocks)
    PROVE  TestInv'
<1> SUFFICES ASSUME ~overlapped'
             PROVE  TestInv'
  BY DEF TestInv
<1>1. UNCHANGED <<pc, isTesting, showAppList, apps, overlapped, latest>>
  BY DEF screen, history
<1>2. /\ OneTest /\ BeginsFit /\ ListsFit /\ EndsFit /\ ThreadsFit
      /\ showAppList => apps = latest
  BY <1>1 DEF TestInv
<1>3. \A i \in DOMAIN mainQ' :
          mainQ'[i].do \in {"begin", "apps", "teardown", "stop"} =>
              i \in Nat /\ i + k \in DOMAIN mainQ /\ mainQ'[i] = mainQ[i + k]
  BY DEF Shifted, TestBlocks
<1>4. OneTest' /\ ThreadsFit'
  BY <1>1, <1>2 DEF OneTest, ThreadsFit
<1>5. BeginsFit'
  BY <1>1, <1>2, <1>3 DEF BeginsFit
<1>6. ListsFit'
  BY <1>1, <1>2, <1>3 DEF ListsFit
<1>7. EndsFit'
  BY <1>1, <1>2, <1>3 DEF EndsFit, Ends
<1> QED
  BY <1>1, <1>2, <1>4, <1>5, <1>6, <1>7 DEF TestInv

-----------------------------------------------------------------------------
(* The actions of PairingManager *)

\* What checkAndLoadFile puts into the main queue.
LEMMA LoadBlocks ==
    ASSUME NEW f \in Files \cup {None}, NEW s, s = CheckAndLoadFile(f)
    PROVE  /\ s \in Seq(Blocks) /\ InOrder(s)
           /\ \A i \in DOMAIN s :
                /\ s[i].do \in {"host", "unreadable", "paired", "unpaired"}
                /\ s[i].do = "host" => f # None /\ s[i].of = f
                /\ s[i].do = "unreadable" => f # None /\ ~Content[f].parses
                /\ s[i].do = "paired" => f # None
                /\ s[i].do = "unpaired" => f = None
           /\ f = None => \E i \in DOMAIN s : s[i].do = "unpaired"
           /\ f # None => \E i \in DOMAIN s : s[i].do = "paired"
           /\ f # None /\ Content[f].hostID => \E i \in DOMAIN s : s[i].do = "host"
<1>1. CASE f = None
  <2>1. s = Block("unpaired", None)
    BY <1>1 DEF CheckAndLoadFile
  <2>2. s \in Seq(Blocks)
    BY <2>1, OneBlockType DEF PairingBlocks
  <2>3. DOMAIN s = {1} /\ s[1] = [do |-> "unpaired", of |-> None]
    BY <2>1, OneBlock
  <2> QED
    BY <1>1, <2>2, <2>3 DEF InOrder
<1>2. CASE f # None /\ Content[f].dict
  <2>1. Content[f].parses
    BY <1>2, ContentAssumption
  <2>2. s = Block("host", f) \o Block("paired", f)
    BY <1>2, <2>1 DEF CheckAndLoadFile, ParseFile
  <2>3. /\ s \in Seq(Blocks) /\ DOMAIN s = {1, 2}
        /\ s[1] = [do |-> "host", of |-> f]
        /\ s[2] = [do |-> "paired", of |-> f]
    <3>1. "host" \in PairingBlocks /\ "paired" \in PairingBlocks
      BY DEF PairingBlocks
    <3> QED
      BY <2>2, <3>1, TwoBlocks
  <2> QED
    BY <1>2, <2>3 DEF InOrder, Follows
<1>3. CASE f # None /\ ~Content[f].parses
  <2>2. s = Block("unreadable", f) \o Block("paired", f)
    BY <1>3 DEF CheckAndLoadFile, ParseFile
  <2>3. /\ s \in Seq(Blocks) /\ DOMAIN s = {1, 2}
        /\ s[1] = [do |-> "unreadable", of |-> f]
        /\ s[2] = [do |-> "paired", of |-> f]
    <3>1. "unreadable" \in PairingBlocks /\ "paired" \in PairingBlocks
      BY DEF PairingBlocks
    <3> QED
      BY <2>2, <3>1, TwoBlocks
  <2>4. ~Content[f].hostID
    BY <1>3, ContentAssumption
  <2> QED
    BY <1>3, <2>3, <2>4 DEF InOrder, Follows
<1>4. CASE f # None /\ Content[f].parses /\ ~Content[f].dict
  <2>1. s = <<>> \o Block("paired", f)
    BY <1>4 DEF CheckAndLoadFile, ParseFile
  <2>2. Block("paired", f) \in Seq(Blocks)
    BY OneBlockType DEF PairingBlocks
  <2>3. s = Block("paired", f)
    BY <2>1, <2>2, ConcatEmptySeq
  <2>4. ~Content[f].hostID
    BY <1>4, ContentAssumption
  <2>5. DOMAIN s = {1} /\ s[1] = [do |-> "paired", of |-> f]
    BY <2>3, OneBlock
  <2> QED
    BY <1>4, <2>2, <2>3, <2>4, <2>5 DEF InOrder
<1> QED
  BY <1>1, <1>2, <1>3, <1>4

LEMMA ImportPairing ==
    ASSUME TypeOK, PairingInv, NEW f \in Files, Import(f)
    PROVE  PairingInv' /\ mainQ' \in Seq(Blocks) /\ Shifted(0, TestBlocks)
           /\ file' \in Files \cup {None}
<1>1. /\ mainQ \in Seq(Blocks) /\ isPaired = FALSE
      /\ UNCHANGED <<isPaired, hostID, hasMissingKeys>>
      /\ \A i \in DOMAIN mainQ : mainQ[i].do \notin PairingBlocks
  BY DEF Import, PicksOne, TypeOK, Blocks
<1>2. ~Waits("unpaired") /\ ~Waits("host") /\ ~Waits("paired")
  BY <1>1 DEF Waits, PairingBlocks
<1>3. file = None /\ hostID = None /\ hasMissingKeys = FALSE
  BY <1>1, <1>2 DEF PairingInv, PublishedFits, HostIsRight, HostIDOf, TypeOK
<1>4. CASE file' = f /\ mainQ' = mainQ \o CheckAndLoadFile(f)
  <2> DEFINE s == CheckAndLoadFile(f)
  <2>1. /\ s \in Seq(Blocks) /\ InOrder(s)
        /\ \A i \in DOMAIN s :
             /\ s[i].do \in {"host", "unreadable", "paired", "unpaired"}
             /\ s[i].do = "host" => s[i].of = f
             /\ s[i].do = "unreadable" => ~Content[f].parses
             /\ s[i].do # "unpaired"
        /\ \E i \in DOMAIN s : s[i].do = "paired"
        /\ Content[f].hostID => \E i \in DOMAIN s : s[i].do = "host"
        /\ f # None
    BY LoadBlocks, NoneAssumption
  <2> HIDE DEF s
  <2>2. mainQ' \in Seq(Blocks) /\ Shifted(0, TestBlocks)
    <3>1. \A i \in DOMAIN s : s[i].do \notin TestBlocks
      BY <2>1 DEF TestBlocks
    <3>2. mainQ' = mainQ \o s
      BY <1>4 DEF s
    <3> QED
      BY <1>1, <2>1, <3>1, <3>2, PutMoves
  <2>3. /\ \A i \in DOMAIN mainQ' : mainQ'[i].do \in PairingBlocks =>
               i \in Nat /\ i - Len(mainQ) \in DOMAIN s /\ mainQ'[i] = s[i - Len(mainQ)]
        /\ \A i \in DOMAIN s : Len(mainQ) + i \in DOMAIN mainQ'
                               /\ mainQ'[Len(mainQ) + i] = s[i]
    <3>1. \A i \in DOMAIN mainQ' : i \in Nat
      BY <2>2, LenProperties
    <3> QED
      BY <1>1, <1>4, <2>1, <3>1, Joined DEF s
  <2>4. InOrder(mainQ)'
    <3>1. Len(mainQ) \in Nat /\ \A i \in DOMAIN s : i \in Nat
      BY <1>1, <2>1, LenProperties
    <3> SUFFICES ASSUME NEW i \in DOMAIN mainQ', NEW j \in DOMAIN mainQ', i < j,
                        mainQ'[i].do \in PairingBlocks,
                        mainQ'[j].do \in PairingBlocks
                 PROVE  Follows(mainQ'[i].do, mainQ'[j].do)
      BY DEF InOrder, Follows
    <3>2. /\ i - Len(mainQ) \in DOMAIN s /\ j - Len(mainQ) \in DOMAIN s
          /\ i - Len(mainQ) < j - Len(mainQ)
          /\ mainQ'[i] = s[i - Len(mainQ)] /\ mainQ'[j] = s[j - Len(mainQ)]
      BY <2>3, <3>1
    <3> QED
      BY <2>1, <3>2 DEF InOrder
  <2>5. BlocksFit'
    <3> SUFFICES ASSUME NEW i \in DOMAIN mainQ'
                 PROVE  BlockFits(i)'
      BY DEF BlocksFit
    <3>1. CASE mainQ'[i].do \notin PairingBlocks
      BY <3>1 DEF BlockFits, PairingBlocks
    <3>2. CASE mainQ'[i].do \in PairingBlocks
      BY <1>1, <1>4, <2>1, <2>3, <3>2 DEF BlockFits
    <3> QED
      BY <3>1, <3>2
  <2>6. Waits("paired")' /\ (Content[f].hostID => Waits("host")')
    BY <2>1, <2>3 DEF Waits
  <2>7. PublishedFits'
    BY <1>1, <1>3, <1>4, <2>1, <2>6 DEF PublishedFits, HostIsRight, HostIDOf
  <2> QED
    BY <1>4, <2>2, <2>4, <2>5, <2>7 DEF PairingInv
<1>5. CASE file' \in {file, None} /\ mainQ' = mainQ \o Block("error", None)
  <2> DEFINE s == Block("error", None)
  <2>1. /\ s \in Seq(Blocks) /\ DOMAIN s = {1}
        /\ s[1] = [do |-> "error", of |-> None]
    BY OneBlock, OneBlockType DEF PairingBlocks
  <2> HIDE DEF s
  <2>2. mainQ' \in Seq(Blocks) /\ Shifted(0, TestBlocks)
    BY <1>1, <1>5, <2>1, PutMoves DEF TestBlocks, s
  <2>3. \A i \in DOMAIN mainQ' : mainQ'[i].do \in PairingBlocks =>
            i = Len(mainQ) + 1 /\ i \in Nat /\ mainQ'[i].do = "error"
    <3>1. Len(mainQ) \in Nat /\ \A i \in DOMAIN mainQ' : i \in Nat
      BY <1>1, <2>2, LenProperties
    <3> QED
      BY <1>1, <1>5, <2>1, <3>1, Joined DEF s
  <2>4. InOrder(mainQ)'
    BY <2>3 DEF InOrder
  <2>5. file' = None
    BY <1>3, <1>5
  <2>6. BlocksFit'
    BY <2>3, <2>5 DEF BlocksFit, BlockFits, PairingBlocks
  <2>7. PublishedFits'
    BY <1>1, <1>3, <2>5 DEF PublishedFits, HostIsRight, HostIDOf
  <2> QED
    BY <2>2, <2>4, <2>5, <2>6, <2>7 DEF PairingInv
<1> QED
  BY <1>4, <1>5 DEF Import

LEMMA DeletePairing ==
    ASSUME TypeOK, PairingInv, DeleteFile
    PROVE  PairingInv' /\ mainQ' \in Seq(Blocks) /\ Shifted(0, TestBlocks)
           /\ file' = None
<1>1. /\ mainQ \in Seq(Blocks) /\ isPaired = TRUE
      /\ UNCHANGED <<isPaired, hostID, hasMissingKeys>>
      /\ file' = None /\ mainQ' = mainQ \o Block("unpaired", None)
  BY DEF DeleteFile, PicksOne, TypeOK, Blocks, CheckAndLoadFile
<1>2. \A i \in DOMAIN mainQ :
          mainQ[i].do \in PairingBlocks => mainQ[i].do = "unpaired"
  <2>1. CASE ~Waits("unpaired")
    <3>1. file # None /\ ~Waits("paired")
      BY <1>1, <2>1 DEF PairingInv, PublishedFits
    <3> QED
      BY <1>1, <3>1 DEF PairingInv, BlocksFit, BlockFits, Waits, PairingBlocks
  <2>2. CASE Waits("unpaired")
    <3>1. PICK j \in DOMAIN mainQ : mainQ[j].do = "unpaired"
      BY <2>2 DEF Waits
    <3>2. \A i \in DOMAIN mainQ : i \in Nat
      BY <1>1, LenProperties
    <3>3. ASSUME NEW i \in DOMAIN mainQ, mainQ[i].do \in PairingBlocks
          PROVE  mainQ[i].do = "unpaired"
      <4>1. CASE i < j
        BY <3>1, <3>3, <4>1 DEF PairingInv, InOrder, Follows, PairingBlocks
      <4>2. CASE j < i
        BY <3>1, <3>3, <4>2 DEF PairingInv, InOrder, Follows, PairingBlocks
      <4> QED
        BY <3>1, <3>2, <4>1, <4>2
    <3> QED
      BY <3>3
  <2> QED
    BY <2>1, <2>2
<1> DEFINE s == Block("unpaired", None)
<1>3. /\ s \in Seq(Blocks) /\ DOMAIN s = {1}
      /\ s[1] = [do |-> "unpaired", of |-> None]
  BY OneBlock, OneBlockType DEF PairingBlocks
<1> HIDE DEF s
<1>4. mainQ' = mainQ \o s
  BY <1>1 DEF s
<1>5. mainQ' \in Seq(Blocks) /\ Shifted(0, TestBlocks)
  <2>1. \A i \in DOMAIN s : s[i].do \notin TestBlocks
    BY <1>3 DEF TestBlocks
  <2> QED
    BY <1>1, <1>3, <1>4, <2>1, PutMoves
<1>6. ASSUME NEW i \in DOMAIN mainQ', mainQ'[i].do \in PairingBlocks
      PROVE  mainQ'[i].do = "unpaired"
  BY <1>1, <1>2, <1>3, <1>4, <1>6, Joined
<1>7. \E i \in DOMAIN mainQ' : mainQ'[i].do = "unpaired"
  <2>1. Len(mainQ) + 1 \in DOMAIN mainQ' /\ mainQ'[Len(mainQ) + 1] = s[1]
    BY <1>1, <1>3, <1>4, Joined
  <2> QED
    BY <1>3, <2>1
<1>8. InOrder(mainQ)'
  BY <1>6 DEF InOrder, Follows
<1>9. BlocksFit'
  BY <1>1, <1>6 DEF BlocksFit, BlockFits, PairingBlocks
<1>10. PublishedFits'
  BY <1>7 DEF PublishedFits, Waits
<1> QED
  BY <1>1, <1>5, <1>8, <1>9, <1>10 DEF PairingInv


\* A block of PairingManager runs.
LEMMA PairingRuns ==
    ASSUME TypeOK, PairingInv, NEW do \in PairingBlocks, Runs(do)
    PROVE  /\ mainQ' \in Seq(Blocks) /\ Shifted(1, TestBlocks) /\ InOrder(mainQ)'
           /\ \A K : do \notin K => Kept(K)
           /\ 1 \in DOMAIN mainQ /\ BlockFits(1) /\ mainQ[1].do = do
           /\ Of = mainQ[1].of /\ Of \in Files \cup {None}
           /\ \A i \in DOMAIN mainQ' : mainQ'[i].do \in PairingBlocks =>
                  /\ Follows(do, mainQ'[i].do)
                  /\ i + 1 \in DOMAIN mainQ /\ mainQ'[i] = mainQ[i + 1]
<1>1. mainQ \in Seq(Blocks)
  BY DEF TypeOK, Blocks
<1>2. /\ mainQ' \in Seq(Blocks)
      /\ \A K : Shifted(1, K)
      /\ \A K : do \notin K => Kept(K)
      /\ 1 \in DOMAIN mainQ /\ mainQ[1] = Head(mainQ)
      /\ mainQ[1].do = do /\ mainQ[1] \in Blocks
      /\ \A i \in DOMAIN mainQ' : 1 < i + 1
  BY <1>1, TakenMoves
<1>3. Shifted(1, TestBlocks) /\ Shifted(1, PairingBlocks)
  BY <1>2
<1>4. InOrder(mainQ)'
  BY <1>3 DEF PairingInv, InOrder, Shifted
<1>5. Of \in Files \cup {None}
  BY <1>2 DEF Of, Blocks, PairingBlocks, TestBlocks
<1>6. ASSUME NEW i \in DOMAIN mainQ', mainQ'[i].do \in PairingBlocks
      PROVE  /\ Follows(do, mainQ'[i].do)
             /\ i + 1 \in DOMAIN mainQ /\ mainQ'[i] = mainQ[i + 1]
  <2>1. i + 1 \in DOMAIN mainQ /\ mainQ'[i] = mainQ[i + 1] /\ 1 < i + 1
    BY <1>2, <1>3, <1>6 DEF Shifted
  <2> QED
    BY <1>2, <1>6, <2>1 DEF PairingInv, InOrder
<1> QED
  BY <1>2, <1>3, <1>4, <1>5, <1>6 DEF PairingInv, BlocksFit, Of

LEMMA SetHostPairing ==
    ASSUME TypeOK, PairingInv, SetHost
    PROVE  PairingInv'
<1>1. /\ Runs("host") /\ "host" \in PairingBlocks
      /\ hostID' = HostIDOf(Of) /\ hasMissingKeys' = Missing(Of)
      /\ UNCHANGED <<file, isPaired>>
  BY DEF SetHost, PairingBlocks
<1>2. /\ InOrder(mainQ)' /\ file # None /\ Of = file /\ ~isPaired
      /\ \A i \in DOMAIN mainQ' :
             mainQ'[i].do \in PairingBlocks => mainQ'[i].do = "paired"
      /\ Kept({"paired"})
  BY <1>1, PairingRuns DEF BlockFits, Follows
<1>3. Waits("paired")
  BY <1>2 DEF PairingInv, PublishedFits, BlocksFit, BlockFits, Waits
<1>4. Waits("paired")'
  BY <1>2, <1>3 DEF Waits, Kept
<1>5. BlocksFit'
  BY <1>1, <1>2 DEF BlocksFit, BlockFits, PairingBlocks
<1>6. PublishedFits'
  BY <1>1, <1>2, <1>4 DEF PublishedFits, HostIsRight
<1> QED
  BY <1>2, <1>5, <1>6 DEF PairingInv

LEMMA SetUnreadablePairing ==
    ASSUME TypeOK, PairingInv, SetUnreadable
    PROVE  PairingInv'
<1>1. /\ Runs("unreadable") /\ "unreadable" \in PairingBlocks
      /\ hasMissingKeys' = TRUE /\ UNCHANGED <<file, isPaired, hostID>>
  BY DEF SetUnreadable, PairingBlocks
<1>2. /\ InOrder(mainQ)' /\ file # None /\ ~Content[file].parses /\ ~isPaired
      /\ \A i \in DOMAIN mainQ' :
             mainQ'[i].do \in PairingBlocks => mainQ'[i].do = "paired"
      /\ Kept({"paired"}) /\ Kept({"host"})
  BY <1>1, PairingRuns DEF BlockFits, Follows
<1>3. Waits("paired") /\ ~Waits("unpaired")
  BY <1>2 DEF PairingInv, PublishedFits, BlocksFit, BlockFits, Waits
<1>4. Waits("paired")'
  BY <1>2, <1>3 DEF Waits, Kept
<1>5. ~Waits("host")'
  BY <1>2 DEF Waits, PairingBlocks
<1>6. ~Waits("host")
  BY <1>2, <1>5 DEF Waits, Kept
<1>7. BlocksFit'
  BY <1>1, <1>2 DEF BlocksFit, BlockFits, PairingBlocks
<1>8. PublishedFits'
  BY <1>1, <1>2, <1>3, <1>4, <1>6
     DEF PairingInv, PublishedFits, HostIsRight, HostIDOf
<1> QED
  BY <1>2, <1>7, <1>8 DEF PairingInv

LEMMA SetPairedPairing ==
    ASSUME TypeOK, PairingInv, SetPaired
    PROVE  PairingInv'
<1>1. /\ Runs("paired") /\ "paired" \in PairingBlocks
      /\ isPaired' = TRUE /\ UNCHANGED <<file, hostID, hasMissingKeys>>
  BY DEF SetPaired, PairingBlocks
<1>2. /\ InOrder(mainQ)' /\ file # None
      /\ \A i \in DOMAIN mainQ' : mainQ'[i].do \notin PairingBlocks
      /\ Kept({"host"}) /\ Kept({"unpaired"})
  BY <1>1, PairingRuns DEF BlockFits, Follows
<1>3. ~Waits("host") /\ ~Waits("unpaired")
  BY <1>2 DEF Waits, Kept, PairingBlocks
<1>4. ~Waits("paired")'
  BY <1>2 DEF Waits, PairingBlocks
<1>5. BlocksFit'
  BY <1>2 DEF BlocksFit, BlockFits, PairingBlocks
<1>6. PublishedFits'
  BY <1>1, <1>2, <1>3, <1>4
     DEF PairingInv, PublishedFits, HostIsRight, HostIDOf
<1> QED
  BY <1>2, <1>5, <1>6 DEF PairingInv

LEMMA SetUnpairedPairing ==
    ASSUME TypeOK, PairingInv, SetUnpaired
    PROVE  PairingInv'
<1>1. /\ Runs("unpaired") /\ "unpaired" \in PairingBlocks
      /\ isPaired' = FALSE /\ hostID' = None /\ hasMissingKeys' = FALSE
      /\ file' = file
  BY DEF SetUnpaired, PairingBlocks
<1>2. /\ InOrder(mainQ)' /\ file = None
      /\ \A i \in DOMAIN mainQ' :
             mainQ'[i].do \in PairingBlocks => mainQ'[i].do = "unpaired"
  BY <1>1, PairingRuns DEF BlockFits, Follows
<1>3. BlocksFit'
  BY <1>1, <1>2 DEF BlocksFit, BlockFits, PairingBlocks
<1>4. PublishedFits'
  BY <1>1, <1>2 DEF PublishedFits, HostIsRight, HostIDOf
<1> QED
  BY <1>2, <1>3, <1>4 DEF PairingInv

LEMMA SetErrorPairing ==
    ASSUME TypeOK, PairingInv, SetError
    PROVE  PairingInv'
<1>1. /\ Runs("error") /\ "error" \in PairingBlocks
      /\ UNCHANGED <<file, isPaired, hostID, hasMissingKeys>>
  BY DEF SetError, PairingBlocks
<1>2. /\ InOrder(mainQ)' /\ file = None
      /\ \A i \in DOMAIN mainQ' : mainQ'[i].do \notin PairingBlocks
      /\ Kept({"host"}) /\ Kept({"unpaired"})
  BY <1>1, PairingRuns DEF BlockFits, Follows
<1>3. ~Waits("host") /\ ~Waits("unpaired")
  BY <1>2 DEF Waits, Kept, PairingBlocks
<1>4. BlocksFit'
  BY <1>2 DEF BlocksFit, BlockFits, PairingBlocks
<1>5. PublishedFits'
  BY <1>1, <1>2, <1>3 DEF PairingInv, PublishedFits, HostIsRight, HostIDOf
<1> QED
  BY <1>2, <1>4, <1>5 DEF PairingInv

-----------------------------------------------------------------------------
(* The actions of the tests *)

LEMMA OnePut ==
    ASSUME mainQ \in Seq(Blocks), NEW do, NEW of, Block(do, of) \in Seq(Blocks),
           mainQ' = mainQ \o Block(do, of)
    PROVE  /\ mainQ' \in Seq(Blocks)
           /\ \A i \in DOMAIN mainQ : i < Len(mainQ) + 1
           /\ \A i \in DOMAIN mainQ' :
                 \/ i \in DOMAIN mainQ /\ mainQ'[i] = mainQ[i]
                 \/ /\ i = Len(mainQ) + 1
                    /\ mainQ'[i].do = do /\ mainQ'[i].of = of
<1> DEFINE s == Block(do, of)
<1>1. DOMAIN s = {1} /\ s[1] = [do |-> do, of |-> of]
  BY OneBlock
<1> HIDE DEF s
<1>2. mainQ' = mainQ \o s /\ s \in Seq(Blocks)
  BY DEF s
<1>3. mainQ' \in Seq(Blocks) /\ Len(mainQ) \in Nat /\ DOMAIN mainQ = 1..Len(mainQ)
  BY <1>2, Joined, LenProperties
<1>4. \A i \in DOMAIN mainQ' :
          \/ i \in DOMAIN mainQ /\ mainQ'[i] = mainQ[i]
          \/ i - Len(mainQ) \in DOMAIN s /\ mainQ'[i] = s[i - Len(mainQ)]
  BY <1>2, Joined
<1>5. \A i \in DOMAIN mainQ' : i \in Nat
  BY <1>3, LenProperties
<1> QED
  BY <1>1, <1>3, <1>4, <1>5

LEMMA OnePutPairing ==
    ASSUME TypeOK, PairingInv, NEW do \in TestBlocks, NEW t \in Tests,
           mainQ' = mainQ \o Block(do, t), UNCHANGED pairing
    PROVE  PairingInv' /\ mainQ' \in Seq(Blocks)
<1>1. Block(do, t) \in Seq(Blocks) /\ mainQ \in Seq(Blocks)
  BY OneBlockType DEF TypeOK, Blocks
<1>2. \A i \in DOMAIN Block(do, t) : Block(do, t)[i].do \notin PairingBlocks
  <2>1. DOMAIN Block(do, t) = {1} /\ Block(do, t)[1] = [do |-> do, of |-> t]
    BY OneBlock
  <2>2. do \notin PairingBlocks
    BY DEF TestBlocks, PairingBlocks
  <2> QED
    BY <2>1, <2>2
<1>3. mainQ' \in Seq(Blocks) /\ Shifted(0, PairingBlocks) /\ Kept(PairingBlocks)
  BY <1>1, <1>2, PutMoves
<1> QED
  BY <1>3, PairingAlone

LEMMA StartTestInv ==
    ASSUME IInv, NEW t \in Tests, StartTest(t)
    PROVE  IInv'
<1>1. TypeOK /\ PairingInv /\ mainQ \in Seq(Blocks)
  BY DEF IInv, TypeOK, Blocks
<1>2. /\ pc[t] = "new" /\ ~isTesting /\ pc' = [pc EXCEPT ![t] = "starting"]
      /\ mainQ' = mainQ \o Block("begin", t) /\ "begin" \in TestBlocks
      /\ UNCHANGED <<pairing, screen, latest>>
  BY DEF StartTest, TestBlocks
<1>3. PairingInv' /\ mainQ' \in Seq(Blocks)
  BY <1>1, <1>2, OnePutPairing
<1>4. TypeOK'
  BY <1>1, <1>2, <1>3 DEF TypeOK, StartTest, pairing, screen, Blocks
<1>5. ASSUME ~overlapped'
      PROVE  TestInv'
  <2>1. ~overlapped /\ \A u \in Tests : pc[u] \notin UnderWay
    BY <1>5 DEF StartTest
  <2>2. /\ BeginsFit /\ ListsFit /\ EndsFit /\ ThreadsFit
        /\ showAppList => apps = latest
    BY <2>1 DEF IInv, TestInv
  <2>3. \A i \in DOMAIN mainQ : mainQ[i].do \notin TestBlocks
    <3>1. \A i \in DOMAIN mainQ : mainQ[i] \in Blocks
      BY <1>1, ElementOfSeq, LenProperties
    <3>2. \A i \in DOMAIN mainQ : mainQ[i].do = "begin" => mainQ[i].of \in Tests
      BY <3>1 DEF Blocks, PairingBlocks
    <3>3. \A i \in DOMAIN mainQ : mainQ[i].do # "begin"
      BY <2>1, <2>2, <3>2 DEF BeginsFit, UnderWay
    <3> QED
      BY <1>2, <2>2, <3>3 DEF ListsFit, EndsFit, Ends, TestBlocks
  <2>4. Block("begin", t) \in Seq(Blocks)
    BY <1>2, OneBlockType
  <2>5. \A i \in DOMAIN mainQ' : mainQ'[i].do \in TestBlocks =>
            i = Len(mainQ) + 1 /\ mainQ'[i].do = "begin" /\ mainQ'[i].of = t
    <3>1. \A i \in DOMAIN mainQ' :
              \/ i \in DOMAIN mainQ /\ mainQ'[i] = mainQ[i]
              \/ /\ i = Len(mainQ) + 1
                 /\ mainQ'[i].do = "begin" /\ mainQ'[i].of = t
      BY <1>1, <1>2, <2>4, OnePut
    <3> QED
      BY <2>3, <3>1
  <2>6. pc'[t] = "starting" /\ \A u \in Tests \ {t} : pc'[u] = pc[u]
    BY <1>1, <1>2 DEF TypeOK
  <2>7. OneTest'
    BY <2>1, <2>6 DEF OneTest
  <2>8. BeginsFit'
    BY <2>5, <2>6 DEF BeginsFit, TestBlocks
  <2>9. ListsFit' /\ EndsFit'
    BY <2>5 DEF ListsFit, EndsFit, Ends, TestBlocks
  <2>10. ThreadsFit'
    BY <1>2, <2>1, <2>6 DEF ThreadsFit, screen, UnderWay, Running
  <2> QED
    BY <1>2, <2>2, <2>7, <2>8, <2>9, <2>10 DEF TestInv, screen
<1> QED
  BY <1>3, <1>4, <1>5 DEF IInv, TestInv

\* A thread goes on, and puts nothing into the main queue.
LEMMA ThreadQuiet ==
    ASSUME IInv, NEW t \in Tests, NEW from \in Running, NEW to \in Running,
           Thread(t, from, to, <<>>)
    PROVE  IInv'
<1>1. TypeOK /\ PairingInv /\ mainQ \in Seq(Blocks)
  BY DEF IInv, TypeOK, Blocks
<1>2. /\ pc[t] = from /\ pc' = [pc EXCEPT ![t] = to]
      /\ mainQ' = mainQ /\ UNCHANGED <<pairing, screen, history>>
  BY <1>1, NoBlock DEF Thread
<1>3. TypeOK'
  BY <1>1, <1>2 DEF TypeOK, pairing, screen, history, Running
<1>4. PairingInv'
  <2>1. Shifted(0, PairingBlocks) /\ Kept(PairingBlocks)
    BY <1>1, <1>2, LenProperties DEF Shifted, Kept
  <2> QED
    BY <1>1, <1>2, <2>1, PairingAlone
<1>5. ASSUME ~overlapped'
      PROVE  TestInv'
  <2>1. /\ OneTest /\ BeginsFit /\ ListsFit /\ EndsFit /\ ThreadsFit
        /\ showAppList => apps = latest
    BY <1>2, <1>5 DEF IInv, TestInv, history
  <2>2. pc'[t] = to /\ \A u \in Tests \ {t} : pc'[u] = pc[u]
    BY <1>1, <1>2 DEF TypeOK
  <2>3. OneTest'
    BY <1>2, <2>1, <2>2 DEF OneTest, UnderWay, Running
  <2>4. BeginsFit'
    <3>1. \A i \in DOMAIN mainQ : mainQ[i].do = "begin" => mainQ[i].of \in Tests
      BY <1>1, ElementOfSeq, LenProperties DEF Blocks, PairingBlocks
    <3> QED
      BY <1>2, <2>1, <2>2, <3>1 DEF BeginsFit, Running
  <2>5. ListsFit' /\ EndsFit'
    BY <1>2, <2>1, <2>2 DEF ListsFit, EndsFit, screen, history, UnderWay,
       Running
  <2>6. ThreadsFit'
    BY <1>2, <2>1, <2>2 DEF ThreadsFit, screen, history, Running
  <2> QED
    BY <1>2, <2>1, <2>3, <2>4, <2>5, <2>6 DEF TestInv, screen, history
<1> QED
  BY <1>3, <1>4, <1>5 DEF IInv, TestInv

LEMMA AppsFoundInv ==
    ASSUME IInv, NEW t \in Tests, AppsFound(t)
    PROVE  IInv'
<1>1. TypeOK /\ PairingInv /\ mainQ \in Seq(Blocks)
  BY DEF IInv, TypeOK, Blocks
<1>2. /\ pc[t] = "fetch" /\ pc' = [pc EXCEPT ![t] = "timer"]
      /\ mainQ' = mainQ \o Block("apps", t) /\ "apps" \in TestBlocks
      /\ UNCHANGED <<pairing, screen, history>>
  BY DEF AppsFound, Thread, TestBlocks
<1>3. PairingInv' /\ mainQ' \in Seq(Blocks)
  BY <1>1, <1>2, OnePutPairing
<1>4. TypeOK'
  BY <1>1, <1>2, <1>3 DEF TypeOK, pairing, screen, history, Blocks
<1>5. ASSUME ~overlapped'
      PROVE  TestInv'
  <2>1. /\ OneTest /\ BeginsFit /\ ListsFit /\ EndsFit /\ ThreadsFit
        /\ showAppList => apps = latest
    BY <1>2, <1>5 DEF IInv, TestInv, history
  <2>2. pc'[t] = "timer" /\ \A u \in Tests \ {t} : pc'[u] = pc[u]
    BY <1>1, <1>2 DEF TypeOK
  <2>3. isTesting /\ latest = t
    BY <1>2, <2>1 DEF ThreadsFit, Running
  <2>4. /\ \A i \in DOMAIN mainQ : mainQ[i].do \notin Ends
        /\ \A u \in Tests : pc[u] # "starting"
    BY <1>2, <2>1, <2>3 DEF EndsFit, UnderWay, ThreadsFit
  <2>5. \A i \in DOMAIN mainQ' :
            \/ i \in DOMAIN mainQ /\ mainQ'[i] = mainQ[i]
            \/ mainQ'[i].do = "apps" /\ mainQ'[i].of = t
    <3>1. Block("apps", t) \in Seq(Blocks)
      BY <1>2, OneBlockType
    <3> QED
      BY <1>1, <1>2, <3>1, OnePut
  <2>6. OneTest'
    BY <1>2, <2>1, <2>2 DEF OneTest, UnderWay
  <2>7. BeginsFit'
    <3>1. \A i \in DOMAIN mainQ : mainQ[i].do = "begin" => mainQ[i].of \in Tests
      BY <1>1, ElementOfSeq, LenProperties DEF Blocks, PairingBlocks
    <3> QED
      BY <2>1, <2>4, <2>5, <3>1 DEF BeginsFit
  <2>8. ListsFit'
    BY <1>2, <2>1, <2>3, <2>5 DEF ListsFit, screen, history
  <2>9. EndsFit'
    BY <2>4, <2>5 DEF EndsFit, Ends
  <2>10. ThreadsFit'
    BY <1>2, <2>1, <2>2 DEF ThreadsFit, screen, history, Running
  <2> QED
    BY <1>2, <2>1, <2>6, <2>7, <2>8, <2>9, <2>10 DEF TestInv, screen, history
<1> QED
  BY <1>3, <1>4, <1>5 DEF IInv, TestInv

LEMMA TimerInv ==
    ASSUME IInv, NEW t \in Tests, Timer(t)
    PROVE  IInv'
<1>1. TypeOK /\ PairingInv /\ mainQ \in Seq(Blocks)
  BY DEF IInv, TypeOK, Blocks
<1>2. /\ pc[t] = "timer" /\ pc' = [pc EXCEPT ![t] = "done"]
      /\ mainQ' = mainQ \o Block("teardown", t) /\ "teardown" \in TestBlocks
      /\ UNCHANGED <<pairing, screen, history>>
  BY DEF Timer, Thread, TestBlocks
<1>3. PairingInv' /\ mainQ' \in Seq(Blocks)
  BY <1>1, <1>2, OnePutPairing
<1>4. TypeOK'
  BY <1>1, <1>2, <1>3 DEF TypeOK, pairing, screen, history, Blocks
<1>5. ASSUME ~overlapped'
      PROVE  TestInv'
  <2>1. /\ OneTest /\ BeginsFit /\ ListsFit /\ EndsFit /\ ThreadsFit
        /\ showAppList => apps = latest
    BY <1>2, <1>5 DEF IInv, TestInv, history
  <2>2. pc'[t] = "done" /\ \A u \in Tests \ {t} : pc'[u] = pc[u]
    BY <1>1, <1>2 DEF TypeOK
  <2>3. isTesting
    BY <1>2, <2>1 DEF ThreadsFit, Running
  <2>4. /\ \A i \in DOMAIN mainQ : mainQ[i].do \notin Ends
        /\ \A u \in Tests : pc[u] # "starting"
    BY <1>2, <2>1, <2>3 DEF EndsFit, UnderWay, ThreadsFit
  <2>5. \A u \in Tests : pc'[u] \notin UnderWay
    BY <1>2, <2>1, <2>2 DEF OneTest, UnderWay
  <2>6. /\ \A i \in DOMAIN mainQ' :
             \/ i \in DOMAIN mainQ /\ mainQ'[i] = mainQ[i]
             \/ i = Len(mainQ) + 1 /\ mainQ'[i].do = "teardown"
        /\ \A i \in DOMAIN mainQ : i < Len(mainQ) + 1
    BY <1>1, <1>2, OneBlockType, OnePut
  <2>7. OneTest' /\ ThreadsFit'
    BY <2>5 DEF OneTest, ThreadsFit, UnderWay, Running
  <2>8. BeginsFit'
    <3>1. \A i \in DOMAIN mainQ : mainQ[i].do = "begin" => mainQ[i].of \in Tests
      BY <1>1, ElementOfSeq, LenProperties DEF Blocks, PairingBlocks
    <3> QED
      BY <2>1, <2>4, <2>6, <3>1 DEF BeginsFit
  <2>9. ListsFit'
    BY <1>2, <2>1, <2>6 DEF ListsFit, screen, history
  <2>10. EndsFit'
    BY <1>2, <2>3, <2>4, <2>5, <2>6 DEF EndsFit, Ends, screen
  <2> QED
    BY <1>2, <2>1, <2>7, <2>8, <2>9, <2>10 DEF TestInv, screen, history
<1> QED
  BY <1>3, <1>4, <1>5 DEF IInv, TestInv

\* A block of a test runs.
LEMMA TestRuns ==
    ASSUME TypeOK, PairingInv, NEW do \in TestBlocks, Runs(do), UNCHANGED pairing
    PROVE  /\ PairingInv' /\ mainQ' \in Seq(Blocks)
           /\ 1 \in DOMAIN mainQ /\ mainQ[1].do = do
           /\ Of = mainQ[1].of /\ Of \in Tests
           /\ \A i \in DOMAIN mainQ' : /\ i \in Nat /\ 1 < i + 1
                                      /\ i + 1 \in DOMAIN mainQ
                                      /\ mainQ'[i] = mainQ[i + 1]
<1>1. mainQ \in Seq(Blocks) /\ do \notin PairingBlocks
  BY DEF TypeOK, Blocks, TestBlocks, PairingBlocks
<1>2. /\ mainQ' \in Seq(Blocks)
      /\ \A K : Shifted(1, K)
      /\ Kept(PairingBlocks)
      /\ 1 \in DOMAIN mainQ /\ mainQ[1] = Head(mainQ)
      /\ mainQ[1].do = do /\ mainQ[1] \in Blocks
  BY <1>1, TakenMoves
<1>3. Of \in Tests
  BY <1>1, <1>2 DEF Of, Blocks
<1>4. PairingInv'
  BY <1>2, PairingAlone
<1>5. mainQ # <<>> /\ mainQ' = Tail(mainQ)
  BY DEF Runs
<1> QED
  BY <1>1, <1>2, <1>3, <1>4, <1>5, Popped DEF Of

LEMMA BeginInv ==
    ASSUME IInv, Begin
    PROVE  IInv'
<1>1. TypeOK /\ PairingInv /\ mainQ \in Seq(Blocks)
  BY DEF IInv, TypeOK, Blocks
<1>2. /\ Runs("begin") /\ "begin" \in TestBlocks
      /\ isTesting' = TRUE /\ showAppList' = FALSE /\ latest' = Of
      /\ pc' = [pc EXCEPT ![Of] = "engine"]
      /\ UNCHANGED <<pairing, apps, overlapped>>
  BY DEF Begin, TestBlocks
<1>3. /\ PairingInv' /\ mainQ' \in Seq(Blocks)
      /\ 1 \in DOMAIN mainQ /\ mainQ[1].do = "begin"
      /\ Of = mainQ[1].of /\ Of \in Tests
      /\ \A i \in DOMAIN mainQ' : /\ i \in Nat /\ 1 < i + 1
                                 /\ i + 1 \in DOMAIN mainQ
                                 /\ mainQ'[i] = mainQ[i + 1]
  BY <1>1, <1>2, TestRuns
<1>4. TypeOK'
  BY <1>1, <1>2, <1>3 DEF TypeOK, pairing, Blocks
<1>5. ASSUME ~overlapped'
      PROVE  TestInv'
  <2>1. /\ OneTest /\ BeginsFit /\ ListsFit /\ EndsFit /\ ThreadsFit
        /\ showAppList => apps = latest
    BY <1>2, <1>5 DEF IInv, TestInv
  <2>2. pc[Of] = "starting" /\ ~isTesting
    BY <1>3, <2>1 DEF BeginsFit, ThreadsFit
  <2>3. pc'[Of] = "engine" /\ \A u \in Tests \ {Of} : pc'[u] = pc[u]
    BY <1>1, <1>2, <1>3 DEF TypeOK
  <2>4. \A i \in DOMAIN mainQ' : mainQ'[i].do \notin TestBlocks
    <3>1. \A i \in DOMAIN mainQ : mainQ[i].do \in TestBlocks => i = 1
      BY <1>3, <2>1, <2>2 DEF BeginsFit, ListsFit, EndsFit, Ends, TestBlocks
    <3> QED
      BY <1>3, <3>1
  <2>5. OneTest'
    BY <2>1, <2>2, <2>3 DEF OneTest, UnderWay
  <2>6. BeginsFit' /\ ListsFit' /\ EndsFit'
    BY <2>4 DEF BeginsFit, ListsFit, EndsFit, Ends, TestBlocks
  <2>7. ThreadsFit'
    BY <1>2, <1>3, <2>1, <2>2, <2>3 DEF OneTest, ThreadsFit, UnderWay, Running
  <2> QED
    BY <1>2, <2>5, <2>6, <2>7 DEF TestInv
<1> QED
  BY <1>3, <1>4, <1>5 DEF IInv, TestInv

LEMMA SetAppsInv ==
    ASSUME IInv, SetApps
    PROVE  IInv'
<1>1. TypeOK /\ PairingInv /\ mainQ \in Seq(Blocks)
  BY DEF IInv, TypeOK, Blocks
<1>2. /\ Runs("apps") /\ "apps" \in TestBlocks
      /\ apps' = Of /\ showAppList' = TRUE
      /\ UNCHANGED <<pairing, pc, isTesting, overlapped, latest>>
  BY DEF SetApps, TestBlocks, history
<1>3. /\ PairingInv' /\ mainQ' \in Seq(Blocks)
      /\ 1 \in DOMAIN mainQ /\ mainQ[1].do = "apps"
      /\ Of = mainQ[1].of /\ Of \in Tests
      /\ \A i \in DOMAIN mainQ' : /\ i \in Nat /\ i + 1 \in DOMAIN mainQ
                                 /\ mainQ'[i] = mainQ[i + 1]
  BY <1>1, <1>2, TestRuns
<1>4. TypeOK'
  BY <1>1, <1>2, <1>3 DEF TypeOK, pairing, Blocks
<1>5. ASSUME ~overlapped'
      PROVE  TestInv'
  <2>1. OneTest /\ BeginsFit /\ ListsFit /\ EndsFit /\ ThreadsFit
    BY <1>2, <1>5 DEF IInv, TestInv
  <2>2. apps' = latest'
    BY <1>2, <1>3, <2>1 DEF ListsFit
  <2>3. OneTest' /\ ThreadsFit'
    BY <1>2, <2>1 DEF OneTest, ThreadsFit
  <2>4. BeginsFit'
    BY <1>2, <1>3, <2>1 DEF BeginsFit
  <2>5. ListsFit'
    BY <1>2, <1>3, <2>1 DEF ListsFit
  <2>6. EndsFit'
    BY <1>2, <1>3, <2>1 DEF EndsFit
  <2> QED
    BY <2>2, <2>3, <2>4, <2>5, <2>6 DEF TestInv
<1> QED
  BY <1>3, <1>4, <1>5 DEF IInv, TestInv

LEMMA StopInv ==
    ASSUME IInv, Stop
    PROVE  IInv'
<1>1. TypeOK /\ PairingInv /\ mainQ \in Seq(Blocks)
  BY DEF IInv, TypeOK, Blocks
<1>2. /\ Runs("stop") /\ "stop" \in TestBlocks
      /\ isTesting' = FALSE
      /\ UNCHANGED <<pairing, pc, showAppList, apps, overlapped, latest>>
  BY DEF Stop, TestBlocks, history
<1>3. /\ PairingInv' /\ mainQ' \in Seq(Blocks)
      /\ 1 \in DOMAIN mainQ /\ mainQ[1].do = "stop"
      /\ \A i \in DOMAIN mainQ' : /\ i \in Nat /\ 1 < i + 1
                                 /\ i + 1 \in DOMAIN mainQ
                                 /\ mainQ'[i] = mainQ[i + 1]
  BY <1>1, <1>2, TestRuns
<1>4. TypeOK'
  BY <1>1, <1>2, <1>3 DEF TypeOK, pairing, Blocks
<1>5. ASSUME ~overlapped'
      PROVE  TestInv'
  <2>1. /\ OneTest /\ BeginsFit /\ ListsFit /\ EndsFit /\ ThreadsFit
        /\ showAppList => apps = latest
    BY <1>2, <1>5 DEF IInv, TestInv
  <2>2. /\ \A u \in Tests : pc[u] \notin UnderWay
        /\ \A i \in DOMAIN mainQ : mainQ[i].do \in Ends => i = 1
        /\ \A i \in DOMAIN mainQ : mainQ[i].do = "apps" => i < 1
    BY <1>3, <2>1 DEF EndsFit, Ends
  <2>3. \A i \in DOMAIN mainQ' :
            mainQ'[i].do \notin Ends /\ mainQ'[i].do # "apps"
    BY <1>3, <2>2
  <2>4. OneTest' /\ ThreadsFit'
    BY <1>2, <2>1, <2>2 DEF OneTest, ThreadsFit, UnderWay, Running
  <2>5. BeginsFit'
    BY <1>2, <1>3, <2>1 DEF BeginsFit
  <2>6. ListsFit' /\ EndsFit'
    BY <2>3 DEF ListsFit, EndsFit
  <2> QED
    BY <1>2, <2>1, <2>4, <2>5, <2>6 DEF TestInv
<1> QED
  BY <1>3, <1>4, <1>5 DEF IInv, TestInv

LEMMA TeardownInv ==
    ASSUME IInv, Teardown
    PROVE  IInv'
<1>1. TypeOK /\ PairingInv /\ mainQ \in Seq(Blocks)
  BY DEF IInv, TypeOK, Blocks
<1> DEFINE m == Tail(mainQ)
           n == Len(m) + 1
           b == Block("stop", Of)
<1>2. /\ mainQ # <<>> /\ Head(mainQ).do = "teardown" /\ mainQ' = m \o b
      /\ UNCHANGED <<pairing, pc, isTesting, showAppList, apps, overlapped, latest>>
  BY DEF Teardown, screen, history
<1>3. /\ Head(mainQ) = mainQ[1] /\ 1 \in DOMAIN mainQ /\ mainQ[1] \in Blocks
      /\ m \in Seq(Blocks)
      /\ \A i \in DOMAIN m : /\ i \in Nat /\ 1 < i + 1 /\ i + 1 \in DOMAIN mainQ
                            /\ m[i] = mainQ[i + 1]
      /\ \A i \in DOMAIN mainQ \ {1} : i - 1 \in DOMAIN m /\ m[i - 1] = mainQ[i]
  BY <1>1, <1>2, Popped
<1>4. Of \in Tests
  BY <1>2, <1>3 DEF Of, Blocks, PairingBlocks
<1>5. /\ b \in Seq(Blocks) /\ DOMAIN b = {1}
      /\ b[1] = [do |-> "stop", of |-> Of]
  <2>1. "stop" \in TestBlocks
    BY DEF TestBlocks
  <2> QED
    BY <1>4, <2>1, OneBlock, OneBlockType
<1> HIDE DEF m, b
<1>6. /\ mainQ' \in Seq(Blocks)
      /\ \A i \in DOMAIN m : i \in DOMAIN mainQ' /\ mainQ'[i] = m[i]
      /\ \A i \in DOMAIN mainQ' :
             \/ i \in DOMAIN m /\ mainQ'[i] = m[i]
             \/ i - Len(m) \in DOMAIN b /\ mainQ'[i] = b[i - Len(m)]
  BY <1>2, <1>3, <1>5, Joined
<1>7. /\ \A i \in DOMAIN mainQ' :
             \/ i \in DOMAIN m /\ mainQ'[i] = m[i]
             \/ i = n /\ mainQ'[i].do = "stop"
      /\ \A i \in DOMAIN m : i < n
  <2>1. /\ Len(m) \in Nat /\ DOMAIN m = 1..Len(m)
        /\ \A i \in DOMAIN mainQ' : i \in Nat
    BY <1>3, <1>6, LenProperties
  <2> QED
    BY <1>5, <1>6, <2>1
<1>8. TypeOK'
  BY <1>1, <1>2, <1>6 DEF TypeOK, pairing, Blocks
<1>9. PairingInv'
  <2>1. Shifted(1, PairingBlocks)
    BY <1>3, <1>7 DEF Shifted, PairingBlocks
  <2>2. Kept(PairingBlocks)
    BY <1>2, <1>3, <1>6 DEF Kept, PairingBlocks
  <2> QED
    BY <1>1, <1>2, <2>1, <2>2, PairingAlone
<1>10. ASSUME ~overlapped'
       PROVE  TestInv'
  <2>1. /\ OneTest /\ BeginsFit /\ ListsFit /\ EndsFit /\ ThreadsFit
        /\ showAppList => apps = latest
    BY <1>2, <1>10 DEF IInv, TestInv
  <2>2. /\ isTesting /\ \A u \in Tests : pc[u] \notin UnderWay
        /\ \A i \in DOMAIN mainQ : mainQ[i].do \in Ends => i = 1
        /\ \A i \in DOMAIN mainQ : mainQ[i].do = "apps" => i < 1
    BY <1>2, <1>3, <2>1 DEF EndsFit, Ends
  <2>3. /\ \A i \in DOMAIN mainQ' : mainQ'[i].do \in Ends => i = n
        /\ \A i \in DOMAIN mainQ' : mainQ'[i].do # "apps"
    BY <1>3, <1>7, <2>2
  <2>4. OneTest' /\ ThreadsFit'
    BY <1>2, <2>1 DEF OneTest, ThreadsFit
  <2>5. BeginsFit'
    BY <1>2, <1>3, <1>7, <2>1 DEF BeginsFit
  <2>6. ListsFit' /\ EndsFit'
    BY <1>2, <2>2, <2>3 DEF ListsFit, EndsFit
  <2> QED
    BY <1>2, <2>1, <2>4, <2>5, <2>6 DEF TestInv
<1> QED
  BY <1>8, <1>9, <1>10 DEF IInv, TestInv

-----------------------------------------------------------------------------
(* The theorems *)

LEMMA PairingActionInv ==
    ASSUME IInv, NEW k \in Nat, PairingInv', Shifted(k, TestBlocks),
           UNCHANGED <<pc, screen, history>>, TypeOK'
    PROVE  IInv'
BY TestsAlone DEF IInv

LEMMA InitIInv == Init => IInv
<1> SUFFICES ASSUME Init
             PROVE  IInv
  OBVIOUS
<1>1. /\ file \in Files \cup {None} /\ mainQ = CheckAndLoadFile(file)
      /\ isPaired = FALSE /\ hostID = None /\ hasMissingKeys = FALSE
  BY DEF Init
<1>2. /\ mainQ \in Seq(Blocks) /\ InOrder(mainQ)
      /\ \A i \in DOMAIN mainQ :
           /\ mainQ[i].do \in {"host", "unreadable", "paired", "unpaired"}
           /\ mainQ[i].do = "host" => file # None /\ mainQ[i].of = file
           /\ mainQ[i].do = "unreadable" => file # None /\ ~Content[file].parses
           /\ mainQ[i].do = "paired" => file # None
           /\ mainQ[i].do = "unpaired" => file = None
      /\ file = None => Waits("unpaired")
      /\ file # None => Waits("paired")
      /\ file # None /\ Content[file].hostID => Waits("host")
  BY <1>1, LoadBlocks DEF Waits
<1>3. TypeOK
  <2>1. mainQ \in Seq(Blocks) /\ 0 \in 0..MaxPicks
    BY <1>2, BoundAssumption
  <2>2. pc \in [Tests -> {"new", "starting", "engine", "fetch", "timer", "done"}]
    BY DEF Init
  <2>3. None \in Files \cup {None} /\ None \in Tests \cup {None}
    OBVIOUS
  <2> QED
    BY <1>1, <2>1, <2>2, <2>3 DEF Init, TypeOK, Blocks
<1>4. BlocksFit
  BY <1>1, <1>2 DEF BlocksFit, BlockFits
<1>5. PublishedFits
  BY <1>1, <1>2 DEF PublishedFits, HostIsRight, HostIDOf
<1>6. TestInv
  <2>1. \A i \in DOMAIN mainQ : mainQ[i].do \notin {"begin", "apps", "teardown", "stop"}
    BY <1>2
  <2>2. \A t \in Tests : pc[t] = "new"
    BY DEF Init
  <2>3. showAppList = FALSE
    BY DEF Init
  <2> QED
    BY <2>1, <2>2, <2>3 DEF TestInv, OneTest, BeginsFit, ListsFit, EndsFit,
       Ends,
                            ThreadsFit, UnderWay, Running
<1> QED
  BY <1>2, <1>3, <1>4, <1>5, <1>6 DEF IInv, PairingInv

LEMMA NextIInv == IInv /\ [Next]_vars => IInv'
<1> SUFFICES ASSUME IInv, [Next]_vars
             PROVE  IInv'
  OBVIOUS
<1>1. TypeOK /\ PairingInv
  BY DEF IInv
<1>2. ASSUME NEW f \in Files, Import(f)
      PROVE  IInv'
  <2>1. /\ PairingInv' /\ mainQ' \in Seq(Blocks) /\ Shifted(0, TestBlocks)
        /\ file' \in Files \cup {None}
    BY <1>1, <1>2, ImportPairing
  <2>2. TypeOK'
    BY <1>1, <1>2, <2>1, BoundAssumption
       DEF TypeOK, Import, PicksOne, screen, history, Blocks
  <2> QED
    BY <1>2, <2>1, <2>2, PairingActionInv DEF Import, PicksOne
<1>3. CASE DeleteFile
  <2>1. /\ PairingInv' /\ mainQ' \in Seq(Blocks) /\ Shifted(0, TestBlocks)
        /\ file' = None
    BY <1>1, <1>3, DeletePairing
  <2>2. TypeOK'
    BY <1>1, <1>3, <2>1, BoundAssumption
       DEF TypeOK, DeleteFile, PicksOne, screen, history, Blocks
  <2> QED
    BY <1>3, <2>1, <2>2, PairingActionInv DEF DeleteFile, PicksOne
<1>4. ASSUME NEW t \in Tests, ThreadStep(t)
      PROVE  IInv'
  <2>1. CASE EngineReturns(t) \/ EngineThrows(t) \/ NoApps(t)
    <3>1. PICK from \in Running, to \in Running : Thread(t, from, to, <<>>)
      BY <2>1 DEF EngineReturns, EngineThrows, NoApps, Running
    <3> QED
      BY <3>1, ThreadQuiet
  <2> QED
    BY <1>4, <2>1, AppsFoundInv, TimerInv DEF ThreadStep
<1>5. ASSUME NEW do \in PairingBlocks, Runs(do), PairingInv',
             UNCHANGED <<file, picks, pc, screen, history>>,
             isPaired' \in BOOLEAN, hasMissingKeys' \in BOOLEAN,
             errorMessage' \in BOOLEAN, hostID' \in Files \cup {None}
      PROVE  IInv'
  <2>1. mainQ' \in Seq(Blocks) /\ Shifted(1, TestBlocks)
    BY <1>1, <1>5, PairingRuns
  <2>2. TypeOK'
    BY <1>1, <1>5, <2>1 DEF TypeOK, screen, history, Blocks
  <2> QED
    BY <1>5, <2>1, <2>2, PairingActionInv
<1>6. CASE SetHost
  <2>1. "host" \in PairingBlocks
    BY DEF PairingBlocks
  <2>2. Of \in Files \cup {None}
    BY <1>1, <1>6, <2>1, PairingRuns DEF SetHost
  <2>3. hostID' \in Files \cup {None} /\ hasMissingKeys' \in BOOLEAN
    BY <1>6, <2>2 DEF SetHost, HostIDOf, Missing
  <2> QED
    BY <1>1, <1>5, <1>6, <2>1, <2>3, SetHostPairing DEF SetHost, TypeOK
<1>7. CASE SetUnreadable
  <2>1. "unreadable" \in PairingBlocks
    BY DEF PairingBlocks
  <2> QED
    BY <1>1, <1>5, <1>7, <2>1, SetUnreadablePairing DEF SetUnreadable, TypeOK
<1>8. CASE SetPaired
  <2>1. "paired" \in PairingBlocks
    BY DEF PairingBlocks
  <2> QED
    BY <1>1, <1>5, <1>8, <2>1, SetPairedPairing DEF SetPaired, TypeOK
<1>9. CASE SetUnpaired
  <2>1. "unpaired" \in PairingBlocks
    BY DEF PairingBlocks
  <2> QED
    BY <1>1, <1>5, <1>9, <2>1, SetUnpairedPairing DEF SetUnpaired, TypeOK
<1>10. CASE SetError
  <2>1. "error" \in PairingBlocks
    BY DEF PairingBlocks
  <2> QED
    BY <1>1, <1>5, <1>10, <2>1, SetErrorPairing DEF SetError, TypeOK
<1>11. CASE UNCHANGED vars
  <2>1. Shifted(0, PairingBlocks) /\ Kept(PairingBlocks) /\ Shifted(0, TestBlocks)
    <3>1. mainQ \in Seq(Blocks)
      BY <1>1 DEF TypeOK, Blocks
    <3> QED
      BY <1>11, <3>1, LenProperties DEF vars, Shifted, Kept
  <2>2. PairingInv'
    BY <1>1, <1>11, <2>1, PairingAlone DEF vars, pairing
  <2>3. TypeOK'
    BY <1>1, <1>11 DEF vars, TypeOK
  <2> QED
    BY <1>11, <2>1, <2>2, <2>3, PairingActionInv DEF vars, screen, history
<1> QED
  BY <1>2, <1>3, <1>4, <1>6, <1>7, <1>8, <1>9, <1>10, <1>11,
     StartTestInv, BeginInv, SetAppsInv, TeardownInv, StopInv DEF Next,
     MainThread

\* IInv holds in every state.
THEOREM Invariance == Spec => []IInv
BY InitIInv, NextIInv, PTL DEF Spec

\* The variables have their types: every block of the main queue is about a
\* pairing file or about a test, as its kind says (PairingManager.swift,
\* DashboardViewModel.swift).
THEOREM TypeCorrect == Spec => []TypeOK
<1>1. IInv => TypeOK
  BY DEF IInv
<1> QED
  BY <1>1, Invariance, PTL

\* Whenever none of its blocks waits, PairingManager publishes what is on the
\* disk, after any sequence of imports, failed ones too, and deletions
\* (PairingManager.swift).
THEOREM PublishedIsTheFile == Spec => []SettledIsTheFile
<1>1. IInv => SettledIsTheFile
  <2> SUFFICES ASSUME IInv, Settled
               PROVE  /\ isPaired = (file # None)
                      /\ hostID = HostIDOf(file)
                      /\ hasMissingKeys =>
                           file # None /\ (~Content[file].parses \/ Missing(file))
    BY DEF SettledIsTheFile
  <2>1. ~Waits("host") /\ ~Waits("paired") /\ ~Waits("unpaired")
    BY DEF Settled, Waits, PairingBlocks
  <2> QED
    BY <2>1 DEF IInv, TypeOK, PairingInv, PublishedFits, HostIsRight
<1> QED
  BY <1>1, Invariance, PTL

\* While no two tests were started at once, a button that is free again has no
\* test and no block of one behind it (DashboardViewModel.swift).
THEOREM ButtonIsIdle == Spec => []FreeButtonIsIdle
<1>1. IInv => FreeButtonIsIdle
  <2> SUFFICES ASSUME IInv, ~overlapped, ~isTesting
               PROVE  \A t \in Tests :
                        /\ pc[t] \in {"new", "starting", "done"}
                        /\ \A i \in DOMAIN mainQ :
                             mainQ[i].do \notin {"apps", "teardown", "stop"}
    BY DEF FreeButtonIsIdle
  <2> QED
    BY DEF IInv, TypeOK, TestInv, ListsFit, EndsFit, Ends, ThreadsFit, Running
<1> QED
  BY <1>1, Invariance, PTL

\* While no two tests were started at once, the list of applications on the
\* screen is that of the test started last (DashboardViewModel.swift).
THEOREM ListIsNew == Spec => []ListIsOfTheLatest
<1>1. IInv => ListIsOfTheLatest
  BY DEF IInv, TestInv, ListIsOfTheLatest
<1> QED
  BY <1>1, Invariance, PTL

=============================================================================
