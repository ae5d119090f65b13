--------------------------- MODULE RsdCacheProofs ---------------------------
(***************************************************************************)
(* Theorems about RsdCache, for any number of threads, files and tunnels.  *)
(***************************************************************************)
EXTENDS RsdCache, TLAPS

\* A thread carries a tunnel exactly between opening it and giving it away.
CarriesWhatItMade ==
    \A c \in Callers : made[c] # NoTunnel <=> pc[c] \in Carrying

\* The copy a tunnel is opened with is the process's file, which is set.
CloneIsTheFile ==
    \A c \in Callers :
        pc[c] = "create" => clone[c] = pairingFile /\ pairingFile # NoFile

\* An open tunnel was opened before.
OpenIsUsed == \A t \in open : status[t] # "unused"

\* The inductive invariant.
IInv ==
    /\ TypeOK
    /\ GuardOwnership
    /\ CellFilledBeforeUse
    /\ CarriesWhatItMade
    /\ OneConnection
    /\ CloneIsTheFile
    /\ OpenIsUsed
    /\ PairedWithTheFile

USE CallerAssumption, FileAssumption, TunnelAssumption, MaxCallsAssumption

-----------------------------------------------------------------------------
(* Type correctness *)

LEMMA InitTypeOK == Init => TypeOK
BY DEF Init, TypeOK, Points, Locked, Carrying

LEMMA StepTypeOK ==
    ASSUME TypeOK, NEW c \in Callers, Step(c), CellFilledBeforeUse
    PROVE  TypeOK'
<1> USE DEF TypeOK, Points, Locked, Carrying, shared, world, Goto,
            AnswerErr, AnswerOk
<1>1. CASE GetCached(c)
  BY <1>1 DEF GetCached
<1>2. CASE LockCached(c)
  BY <1>2 DEF LockCached
<1>3. CASE ProbeOk(c)
  BY <1>3 DEF ProbeOk
<1>4. CASE ProbeReconnect(c)
  BY <1>4 DEF ProbeReconnect
<1>5. CASE ProbeFail(c)
  BY <1>5 DEF ProbeFail
<1>6. CASE CloneFile(c)
  BY <1>6 DEF CloneFile
<1>7. ASSUME NEW t \in Tunnels, CreateOk(c, t)
      PROVE  TypeOK'
  BY <1>7 DEF CreateOk
<1>8. CASE CreateFail(c)
  BY <1>8 DEF CreateFail
<1>9. CASE GetAgain(c)
  BY <1>9 DEF GetAgain
<1>10. CASE SetOnce(c)
  BY <1>10 DEF SetOnce
<1>11. CASE LockSet(c)
  BY <1>11 DEF LockSet, UseNew
<1>12. CASE Swap(c)
  BY <1>12 DEF Swap, UseNew
<1>13. CASE ServeOk(c)
  BY <1>13 DEF ServeOk
<1>14. CASE ServeFail(c)
  BY <1>14 DEF ServeFail
<1>15. CASE Release(c)
  BY <1>15 DEF Release
<1> QED
  BY <1>1, <1>2, <1>3, <1>4, <1>5, <1>6, <1>7, <1>8, <1>9, <1>10, <1>11,
     <1>12, <1>13, <1>14, <1>15 DEF Step

LEMMA NextTypeOK == TypeOK /\ CellFilledBeforeUse /\ [Next]_vars => TypeOK'
<1> SUFFICES ASSUME TypeOK, CellFilledBeforeUse, [Next]_vars
             PROVE  TypeOK'
  OBVIOUS
<1>1. ASSUME NEW c \in Callers, NEW o \in {"connect", "borrow"}, Call(c, o)
      PROVE  TypeOK'
  BY <1>1 DEF Call, Goto, TypeOK, Points, shared, world
<1>2. ASSUME NEW c \in Callers, Step(c)
      PROVE  TypeOK'
  BY <1>2, StepTypeOK
<1>3. ASSUME NEW f \in Files, SetRpPairingFile(f)
      PROVE  TypeOK'
  BY <1>3 DEF SetRpPairingFile, TypeOK, world
<1>4. ASSUME NEW t \in Tunnels, TunnelDown(t)
      PROVE  TypeOK'
  BY <1>4 DEF TunnelDown, TypeOK, shared
<1>5. CASE UNCHANGED vars
  BY <1>5 DEF vars, TypeOK
<1> QED
  BY <1>1, <1>2, <1>3, <1>4, <1>5 DEF Next
-----------------------------------------------------------------------------
LEMMA StepGuardOwnership ==
    ASSUME IInv, NEW c \in Callers, Step(c)
    PROVE  GuardOwnership'
<1> USE DEF TypeOK, IInv, Locked, Carrying, shared, world, Goto,
            AnswerErr, AnswerOk, GuardOwnership
<1>1. CASE GetCached(c)
  BY <1>1 DEF GetCached
<1>2. CASE LockCached(c)
  BY <1>2 DEF LockCached
<1>3. CASE ProbeOk(c)
  BY <1>3 DEF ProbeOk
<1>4. CASE ProbeReconnect(c)
  BY <1>4 DEF ProbeReconnect
<1>5. CASE ProbeFail(c)
  BY <1>5 DEF ProbeFail
<1>6. CASE CloneFile(c)
  BY <1>6 DEF CloneFile
<1>7. ASSUME NEW t \in Tunnels, CreateOk(c, t)
      PROVE  GuardOwnership'
  BY <1>7 DEF CreateOk
<1>8. CASE CreateFail(c)
  BY <1>8 DEF CreateFail
<1>9. CASE GetAgain(c)
  BY <1>9 DEF GetAgain
<1>10. CASE SetOnce(c)
  BY <1>10 DEF SetOnce
<1>11. CASE LockSet(c)
  BY <1>11 DEF LockSet, UseNew
<1>12. CASE Swap(c)
  BY <1>12 DEF Swap, UseNew
<1>13. CASE ServeOk(c)
  BY <1>13 DEF ServeOk
<1>14. CASE ServeFail(c)
  BY <1>14 DEF ServeFail
<1>15. CASE Release(c)
  BY <1>15 DEF Release
<1> QED
  BY <1>1, <1>2, <1>3, <1>4, <1>5, <1>6, <1>7, <1>8,
     <1>9, <1>10, <1>11, <1>12, <1>13, <1>14, <1>15 DEF Step

LEMMA StepCellFilledBeforeUse ==
    ASSUME IInv, NEW c \in Callers, Step(c)
    PROVE  CellFilledBeforeUse'
<1> USE DEF TypeOK, IInv, Locked, Carrying, shared, world, Goto,
            AnswerErr, AnswerOk, CellFilledBeforeUse
<1>1. CASE GetCached(c)
  BY <1>1 DEF GetCached
<1>2. CASE LockCached(c)
  BY <1>2 DEF LockCached
<1>3. CASE ProbeOk(c)
  BY <1>3 DEF ProbeOk
<1>4. CASE ProbeReconnect(c)
  BY <1>4 DEF ProbeReconnect
<1>5. CASE ProbeFail(c)
  BY <1>5 DEF ProbeFail
<1>6. CASE CloneFile(c)
  BY <1>6 DEF CloneFile
<1>7. ASSUME NEW t \in Tunnels, CreateOk(c, t)
      PROVE  CellFilledBeforeUse'
  BY <1>7 DEF CreateOk
<1>8. CASE CreateFail(c)
  BY <1>8 DEF CreateFail
<1>9. CASE GetAgain(c)
  BY <1>9 DEF GetAgain
<1>10. CASE SetOnce(c)
  <2>1. made[c] \in Tunnels
    BY <1>10 DEF SetOnce, CarriesWhatItMade
  <2>2. slot' # NoTunnel
    BY <1>10, <2>1 DEF SetOnce
  <2> QED
    BY <2>2
<1>11. CASE LockSet(c)
  BY <1>11 DEF LockSet, UseNew
<1>12. CASE Swap(c)
  <2>1. made[c] \in Tunnels
    BY <1>12 DEF Swap, CarriesWhatItMade
  <2>2. slot' # NoTunnel
    BY <1>12, <2>1 DEF Swap
  <2> QED
    BY <2>2
<1>13. CASE ServeOk(c)
  BY <1>13 DEF ServeOk
<1>14. CASE ServeFail(c)
  BY <1>14 DEF ServeFail
<1>15. CASE Release(c)
  BY <1>15 DEF Release
<1> QED
  BY <1>1, <1>2, <1>3, <1>4, <1>5, <1>6, <1>7, <1>8,
     <1>9, <1>10, <1>11, <1>12, <1>13, <1>14, <1>15 DEF Step

LEMMA StepCarriesWhatItMade ==
    ASSUME IInv, NEW c \in Callers, Step(c)
    PROVE  CarriesWhatItMade'
<1> USE DEF TypeOK, IInv, Locked, Carrying, shared, world, Goto,
            AnswerErr, AnswerOk, CarriesWhatItMade
<1>1. CASE GetCached(c)
  BY <1>1 DEF GetCached
<1>2. CASE LockCached(c)
  BY <1>2 DEF LockCached
<1>3. CASE ProbeOk(c)
  BY <1>3 DEF ProbeOk
<1>4. CASE ProbeReconnect(c)
  BY <1>4 DEF ProbeReconnect
<1>5. CASE ProbeFail(c)
  BY <1>5 DEF ProbeFail
<1>6. CASE CloneFile(c)
  BY <1>6 DEF CloneFile
<1>7. ASSUME NEW t \in Tunnels, CreateOk(c, t)
      PROVE  CarriesWhatItMade'
  BY <1>7 DEF CreateOk
<1>8. CASE CreateFail(c)
  BY <1>8 DEF CreateFail
<1>9. CASE GetAgain(c)
  BY <1>9 DEF GetAgain
<1>10. CASE SetOnce(c)
  BY <1>10 DEF SetOnce
<1>11. CASE LockSet(c)
  BY <1>11 DEF LockSet, UseNew
<1>12. CASE Swap(c)
  BY <1>12 DEF Swap, UseNew
<1>13. CASE ServeOk(c)
  BY <1>13 DEF ServeOk
<1>14. CASE ServeFail(c)
  BY <1>14 DEF ServeFail
<1>15. CASE Release(c)
  BY <1>15 DEF Release
<1> QED
  BY <1>1, <1>2, <1>3, <1>4, <1>5, <1>6, <1>7, <1>8,
     <1>9, <1>10, <1>11, <1>12, <1>13, <1>14, <1>15 DEF Step

LEMMA StepOneConnection ==
    ASSUME IInv, NEW c \in Callers, Step(c)
    PROVE  OneConnection'
<1> USE DEF TypeOK, IInv, Locked, Carrying, shared, world, Goto,
            AnswerErr, AnswerOk, OneConnection
<1>1. CASE GetCached(c)
  BY <1>1 DEF GetCached
<1>2. CASE LockCached(c)
  BY <1>2 DEF LockCached
<1>3. CASE ProbeOk(c)
  BY <1>3 DEF ProbeOk
<1>4. CASE ProbeReconnect(c)
  BY <1>4 DEF ProbeReconnect
<1>5. CASE ProbeFail(c)
  BY <1>5 DEF ProbeFail
<1>6. CASE CloneFile(c)
  BY <1>6 DEF CloneFile
<1>7. ASSUME NEW t \in Tunnels, CreateOk(c, t)
      PROVE  OneConnection'
  <2>1. t \notin open /\ t # NoTunnel /\ made[c] = NoTunnel
    BY <1>7 DEF CreateOk, OpenIsUsed, CarriesWhatItMade
  <2>2. t # slot /\ \A d \in Callers : made[d] # t
    BY <2>1
  <2>3. /\ open' = open \cup {t}
        /\ made' = [made EXCEPT ![c] = t]
        /\ slot' = slot
    BY <1>7 DEF CreateOk
  <2> QED
    BY <2>1, <2>2, <2>3
<1>8. CASE CreateFail(c)
  BY <1>8 DEF CreateFail
<1>9. CASE GetAgain(c)
  BY <1>9 DEF GetAgain
<1>10. CASE SetOnce(c)
  BY <1>10 DEF SetOnce
<1>11. CASE LockSet(c)
  BY <1>11 DEF LockSet, UseNew
<1>12. CASE Swap(c)
  BY <1>12 DEF Swap, UseNew
<1>13. CASE ServeOk(c)
  BY <1>13 DEF ServeOk
<1>14. CASE ServeFail(c)
  BY <1>14 DEF ServeFail
<1>15. CASE Release(c)
  BY <1>15 DEF Release
<1> QED
  BY <1>1, <1>2, <1>3, <1>4, <1>5, <1>6, <1>7, <1>8,
     <1>9, <1>10, <1>11, <1>12, <1>13, <1>14, <1>15 DEF Step

LEMMA StepCloneIsTheFile ==
    ASSUME IInv, NEW c \in Callers, Step(c)
    PROVE  CloneIsTheFile'
<1> USE DEF TypeOK, IInv, Locked, Carrying, shared, world, Goto,
            AnswerErr, AnswerOk, CloneIsTheFile
<1>1. CASE GetCached(c)
  BY <1>1 DEF GetCached
<1>2. CASE LockCached(c)
  BY <1>2 DEF LockCached
<1>3. CASE ProbeOk(c)
  BY <1>3 DEF ProbeOk
<1>4. CASE ProbeReconnect(c)
  BY <1>4 DEF ProbeReconnect
<1>5. CASE ProbeFail(c)
  BY <1>5 DEF ProbeFail
<1>6. CASE CloneFile(c)
  BY <1>6 DEF CloneFile
<1>7. ASSUME NEW t \in Tunnels, CreateOk(c, t)
      PROVE  CloneIsTheFile'
  BY <1>7 DEF CreateOk
<1>8. CASE CreateFail(c)
  BY <1>8 DEF CreateFail
<1>9. CASE GetAgain(c)
  BY <1>9 DEF GetAgain
<1>10. CASE SetOnce(c)
  BY <1>10 DEF SetOnce
<1>11. CASE LockSet(c)
  BY <1>11 DEF LockSet, UseNew
<1>12. CASE Swap(c)
  BY <1>12 DEF Swap, UseNew
<1>13. CASE ServeOk(c)
  BY <1>13 DEF ServeOk
<1>14. CASE ServeFail(c)
  BY <1>14 DEF ServeFail
<1>15. CASE Release(c)
  BY <1>15 DEF Release
<1> QED
  BY <1>1, <1>2, <1>3, <1>4, <1>5, <1>6, <1>7, <1>8,
     <1>9, <1>10, <1>11, <1>12, <1>13, <1>14, <1>15 DEF Step

LEMMA StepOpenIsUsed ==
    ASSUME IInv, NEW c \in Callers, Step(c)
    PROVE  OpenIsUsed'
<1> USE DEF TypeOK, IInv, Locked, Carrying, shared, world, Goto,
            AnswerErr, AnswerOk, OpenIsUsed
<1>1. CASE GetCached(c)
  BY <1>1 DEF GetCached
<1>2. CASE LockCached(c)
  BY <1>2 DEF LockCached
<1>3. CASE ProbeOk(c)
  BY <1>3 DEF ProbeOk
<1>4. CASE ProbeReconnect(c)
  BY <1>4 DEF ProbeReconnect
<1>5. CASE ProbeFail(c)
  BY <1>5 DEF ProbeFail
<1>6. CASE CloneFile(c)
  BY <1>6 DEF CloneFile
<1>7. ASSUME NEW t \in Tunnels, CreateOk(c, t)
      PROVE  OpenIsUsed'
  BY <1>7 DEF CreateOk
<1>8. CASE CreateFail(c)
  BY <1>8 DEF CreateFail
<1>9. CASE GetAgain(c)
  BY <1>9 DEF GetAgain
<1>10. CASE SetOnce(c)
  BY <1>10 DEF SetOnce
<1>11. CASE LockSet(c)
  BY <1>11 DEF LockSet, UseNew
<1>12. CASE Swap(c)
  BY <1>12 DEF Swap, UseNew
<1>13. CASE ServeOk(c)
  BY <1>13 DEF ServeOk
<1>14. CASE ServeFail(c)
  BY <1>14 DEF ServeFail
<1>15. CASE Release(c)
  BY <1>15 DEF Release
<1> QED
  BY <1>1, <1>2, <1>3, <1>4, <1>5, <1>6, <1>7, <1>8,
     <1>9, <1>10, <1>11, <1>12, <1>13, <1>14, <1>15 DEF Step

LEMMA StepPairedWithTheFile ==
    ASSUME IInv, NEW c \in Callers, Step(c)
    PROVE  PairedWithTheFile'
<1> USE DEF TypeOK, IInv, Locked, Carrying, shared, world, Goto,
            AnswerErr, AnswerOk, PairedWithTheFile
<1>1. CASE GetCached(c)
  BY <1>1 DEF GetCached
<1>2. CASE LockCached(c)
  BY <1>2 DEF LockCached
<1>3. CASE ProbeOk(c)
  BY <1>3 DEF ProbeOk
<1>4. CASE ProbeReconnect(c)
  BY <1>4 DEF ProbeReconnect
<1>5. CASE ProbeFail(c)
  BY <1>5 DEF ProbeFail
<1>6. CASE CloneFile(c)
  BY <1>6 DEF CloneFile
<1>7. ASSUME NEW t \in Tunnels, CreateOk(c, t)
      PROVE  PairedWithTheFile'
  <2>1. clone[c] = pairingFile /\ pairingFile # NoFile
    BY <1>7 DEF CreateOk, CloneIsTheFile
  <2>2. /\ open' = open \cup {t}
        /\ pairedWith' = [pairedWith EXCEPT ![t] = clone[c]]
        /\ pairingFile' = pairingFile
    BY <1>7 DEF CreateOk
  <2> QED
    BY <2>1, <2>2
<1>8. CASE CreateFail(c)
  BY <1>8 DEF CreateFail
<1>9. CASE GetAgain(c)
  BY <1>9 DEF GetAgain
<1>10. CASE SetOnce(c)
  BY <1>10 DEF SetOnce
<1>11. CASE LockSet(c)
  BY <1>11 DEF LockSet, UseNew
<1>12. CASE Swap(c)
  BY <1>12 DEF Swap, UseNew
<1>13. CASE ServeOk(c)
  BY <1>13 DEF ServeOk
<1>14. CASE ServeFail(c)
  BY <1>14 DEF ServeFail
<1>15. CASE Release(c)
  BY <1>15 DEF Release
<1> QED
  BY <1>1, <1>2, <1>3, <1>4, <1>5, <1>6, <1>7, <1>8,
     <1>9, <1>10, <1>11, <1>12, <1>13, <1>14, <1>15 DEF Step

-----------------------------------------------------------------------------
(* The inductive invariant *)

LEMMA InitIInv == Init => IInv
BY DEF Init, IInv, TypeOK, Points, Locked, Carrying, GuardOwnership,
       CellFilledBeforeUse, CarriesWhatItMade, OneConnection, CloneIsTheFile,
       OpenIsUsed, PairedWithTheFile

\* Entering a call touches nothing but what belongs to the thread.
LEMMA CallIInv ==
    ASSUME IInv, TypeOK', NEW c \in Callers,
           NEW o \in {"connect", "borrow"}, Call(c, o)
    PROVE  IInv'
<1> USE DEF IInv, TypeOK, Call, Goto, shared, world, Locked, Carrying
<1>1. GuardOwnership'
  BY DEF GuardOwnership
<1>2. CellFilledBeforeUse'
  BY DEF CellFilledBeforeUse
<1>3. CarriesWhatItMade'
  BY DEF CarriesWhatItMade
<1>4. OneConnection'
  BY DEF OneConnection
<1>5. CloneIsTheFile' /\ OpenIsUsed' /\ PairedWithTheFile'
  BY DEF CloneIsTheFile, OpenIsUsed, PairedWithTheFile
<1> QED
  BY <1>1, <1>2, <1>3, <1>4, <1>5

\* Setting the file only matters the first time, and then nothing is open and
\* nobody holds a copy of it.
LEMMA SetIInv ==
    ASSUME IInv, TypeOK', NEW f \in Files, SetRpPairingFile(f)
    PROVE  IInv'
<1> USE DEF IInv, SetRpPairingFile, world
<1>1. GuardOwnership' /\ CellFilledBeforeUse' /\ CarriesWhatItMade'
  BY DEF GuardOwnership, CellFilledBeforeUse, CarriesWhatItMade
<1>2. OneConnection' /\ OpenIsUsed'
  BY DEF OneConnection, OpenIsUsed
<1>3. CloneIsTheFile'
  BY DEF CloneIsTheFile
<1>4. PairedWithTheFile'
  BY DEF PairedWithTheFile
<1> QED
  BY <1>1, <1>2, <1>3, <1>4

LEMMA DownIInv ==
    ASSUME IInv, TypeOK', NEW t \in Tunnels, TunnelDown(t)
    PROVE  IInv'
<1> USE DEF IInv, TunnelDown, shared
<1>1. GuardOwnership' /\ CellFilledBeforeUse' /\ CarriesWhatItMade'
  BY DEF GuardOwnership, CellFilledBeforeUse, CarriesWhatItMade
<1>2. OneConnection' /\ CloneIsTheFile' /\ PairedWithTheFile'
  BY DEF OneConnection, CloneIsTheFile, PairedWithTheFile
<1>3. OpenIsUsed'
  BY DEF OpenIsUsed, TypeOK
<1> QED
  BY <1>1, <1>2, <1>3

LEMMA NextIInv == IInv /\ [Next]_vars => IInv'
<1> SUFFICES ASSUME IInv, [Next]_vars
             PROVE  IInv'
  OBVIOUS
<1>t. TypeOK'
  BY NextTypeOK DEF IInv
<1>1. ASSUME NEW c \in Callers, NEW o \in {"connect", "borrow"}, Call(c, o)
      PROVE  IInv'
  BY <1>1, <1>t, CallIInv
<1>2. ASSUME NEW c \in Callers, Step(c)
      PROVE  IInv'
  BY <1>2, <1>t, StepGuardOwnership, StepCellFilledBeforeUse,
     StepCarriesWhatItMade, StepOneConnection, StepCloneIsTheFile,
     StepOpenIsUsed, StepPairedWithTheFile DEF IInv
<1>3. ASSUME NEW f \in Files, SetRpPairingFile(f)
      PROVE  IInv'
  BY <1>3, <1>t, SetIInv
<1>4. ASSUME NEW t \in Tunnels, TunnelDown(t)
      PROVE  IInv'
  BY <1>4, <1>t, DownIInv
<1>5. CASE UNCHANGED vars
  BY <1>5, <1>t DEF vars, IInv, GuardOwnership, CellFilledBeforeUse,
     CarriesWhatItMade, OneConnection, CloneIsTheFile, OpenIsUsed,
     PairedWithTheFile
<1> QED
  BY <1>1, <1>2, <1>3, <1>4, <1>5 DEF Next

\* IInv holds in every reachable state.
THEOREM Invariance == Spec => []IInv
<1>1. Init => IInv
  BY InitIInv
<1>2. IInv /\ [Next]_vars => IInv'
  BY NextIInv
<1> QED
  BY <1>1, <1>2, PTL DEF Spec

-----------------------------------------------------------------------------
(* What follows from it *)

\* Every variable keeps its type.
THEOREM TypeCorrect == Spec => []TypeOK
BY Invariance, PTL DEF IInv

\* The guard belongs to the calls between lock() and the end of its scope.
THEOREM GuardIsOwned == Spec => []GuardOwnership
BY Invariance, PTL DEF IInv

\* Two threads never have the guard at the same time (rsd.rs:38, 62, 67).
THEOREM MutualExclusion ==
    Spec => [](\A c, d \in Callers :
                   pc[c] \in Locked /\ pc[d] \in Locked => c = d)
<1> DEFINE Exclusive ==
      \A c, d \in Callers : pc[c] \in Locked /\ pc[d] \in Locked => c = d
<1>1. GuardOwnership => Exclusive
  BY DEF GuardOwnership
<1> QED
  BY <1>1, GuardIsOwned, PTL

\* get().unwrap() finds the cell set (rsd.rs:67, 104).
THEOREM UnwrapIsSafe == Spec => []CellFilledBeforeUse
BY Invariance, PTL DEF IInv

\* No tunnel is leaked and the cached one is never dropped.
THEOREM NoConnectionLeaks == Spec => []OneConnection
BY Invariance, PTL DEF IInv

\* Every open tunnel belongs to the pairing file of the process.
THEOREM TunnelsUseTheFile == Spec => []PairedWithTheFile
BY Invariance, PTL DEF IInv

\* Nobody exchanges the connection under a borrower.
THEOREM BorrowedConnectionIsStable == Spec => BorrowedIsStable
<1> DEFINE Stable ==
      \A c \in Callers : pc[c] = "borrowed" /\ pc'[c] = "borrowed"
                           => slot' = slot
<1>1. IInv /\ [Next]_vars => [Stable]_vars
  <2> SUFFICES ASSUME IInv, Next, NEW d \in Callers, pc[d] = "borrowed",
                      pc'[d] = "borrowed"
               PROVE  slot' = slot
    BY DEF vars
  <2>1. holder = d /\ d # NoCaller /\ slot # NoTunnel
    BY DEF IInv, GuardOwnership, CellFilledBeforeUse, Locked
  <2>2. ASSUME NEW c \in Callers, NEW o \in {"connect", "borrow"}, Call(c, o)
        PROVE  slot' = slot
    BY <2>2 DEF Call, shared
  <2>3. ASSUME NEW c \in Callers, Step(c)
        PROVE  slot' = slot
    <3>1. CASE Swap(c)
      BY <2>1, <3>1 DEF Swap, UseNew
    <3>2. CASE SetOnce(c)
      BY <2>1, <3>2 DEF SetOnce
    <3> QED
      BY <2>3, <3>1, <3>2 DEF Step, GetCached, LockCached, ProbeOk,
         ProbeReconnect, ProbeFail, CloneFile, CreateOk, CreateFail, GetAgain,
         LockSet, ServeOk, ServeFail, Release, shared
  <2>4. ASSUME NEW f \in Files, SetRpPairingFile(f)
        PROVE  slot' = slot
    BY <2>4 DEF SetRpPairingFile
  <2>5. ASSUME NEW t \in Tunnels, TunnelDown(t)
        PROVE  slot' = slot
    BY <2>5 DEF TunnelDown, shared
  <2> QED
    BY <2>2, <2>3, <2>4, <2>5 DEF Next
<1> QED
  BY <1>1, Invariance, PTL DEF Spec, BorrowedIsStable

-----------------------------------------------------------------------------
(* The cache implements ConnSlot *)

\* Each step of a thread is a step of ConnSlot or leaves it alone.
LEMMA StepRefines ==
    ASSUME IInv, NEW c \in Callers, Step(c)
    PROVE  [Promise!Next]_Promise!vars
<1> USE DEF Promise!vars
<1>1. CASE LockCached(c)
  <2>1. slot # NoTunnel
    BY <1>1 DEF IInv, CellFilledBeforeUse, LockCached
  <2>2. Promise!Acquire(c)
    BY <1>1, <2>1 DEF LockCached, Promise!Acquire
  <2> QED
    BY <2>2 DEF Promise!Next
<1>2. ASSUME \/ ProbeReconnect(c) \/ ProbeFail(c)
             \/ ServeOk(c) \/ ServeFail(c) \/ Release(c)
             \/ ProbeOk(c) /\ holder' = NoCaller
      PROVE  Promise!Next
  <2>1. holder = c
    BY <1>2 DEF IInv, GuardOwnership, Locked, ProbeReconnect, ProbeFail,
       ServeOk, ServeFail, Release, ProbeOk
  <2>2. Promise!Release(c)
    BY <1>2, <2>1 DEF Promise!Release, ProbeReconnect, ProbeFail,
       ServeOk, ServeFail, Release, ProbeOk
  <2> QED
    BY <2>2 DEF Promise!Next
<1>3. CASE ProbeOk(c) /\ holder' # NoCaller
  BY <1>3 DEF ProbeOk
<1>4. ASSUME NEW t \in Tunnels, CreateOk(c, t)
      PROVE  Promise!Next
  <2>1. t \notin open
    BY <1>4 DEF IInv, OpenIsUsed, CreateOk
  <2>2. Promise!Establish(t)
    BY <1>4, <2>1 DEF CreateOk, Promise!Establish
  <2> QED
    BY <2>2 DEF Promise!Next
<1>5. CASE SetOnce(c)
  <2>1. /\ made[c] \in Tunnels
        /\ made[c] \in open
        /\ slot # NoTunnel => made[c] # slot
    BY <1>5 DEF IInv, TypeOK, SetOnce, CarriesWhatItMade, Carrying,
       OneConnection
  <2>2. CASE slot = NoTunnel
    <3>1. Promise!Publish(made[c])
      BY <1>5, <2>1, <2>2 DEF SetOnce, Promise!Publish
    <3> QED
      BY <2>1, <3>1 DEF Promise!Next
  <2>3. CASE slot # NoTunnel
    <3>1. Promise!Discard(made[c])
      BY <1>5, <2>1, <2>3 DEF SetOnce, Promise!Discard
    <3> QED
      BY <2>1, <3>1 DEF Promise!Next
  <2> QED
    BY <2>2, <2>3
<1>6. CASE LockSet(c)
  <2>1. slot # NoTunnel
    BY <1>6 DEF IInv, CellFilledBeforeUse, LockSet
  <2>2. Promise!Acquire(c)
    BY <1>6, <2>1 DEF LockSet, UseNew, Promise!Acquire
  <2> QED
    BY <2>2 DEF Promise!Next
<1>7. CASE Swap(c)
  <2>1. /\ slot # NoTunnel
        /\ made[c] \in Tunnels
        /\ made[c] \in open
        /\ made[c] # slot
    BY <1>7 DEF IInv, TypeOK, Swap, CarriesWhatItMade, Carrying,
       OneConnection, CellFilledBeforeUse
  <2>2. Promise!AcquireAndReplace(c, made[c])
    BY <1>7, <2>1 DEF Swap, UseNew, Promise!AcquireAndReplace
  <2> QED
    BY <2>1, <2>2 DEF Promise!Next
<1>8. CASE GetCached(c) \/ CloneFile(c) \/ CreateFail(c) \/ GetAgain(c)
  BY <1>8 DEF GetCached, CloneFile, CreateFail, GetAgain, shared
<1> QED
  BY <1>1, <1>2, <1>3, <1>4, <1>5, <1>6, <1>7, <1>8 DEF Step

\* Every behaviour of the cache is one that ConnSlot allows.
THEOREM Refinement == Spec => KeepsPromise
<1>1. Init => Promise!Init
  BY DEF Init, Promise!Init
<1>2. IInv /\ [Next]_vars => [Promise!Next]_Promise!vars
  <2> SUFFICES ASSUME IInv, [Next]_vars
               PROVE  [Promise!Next]_Promise!vars
    OBVIOUS
  <2>1. ASSUME NEW c \in Callers, NEW o \in {"connect", "borrow"}, Call(c, o)
        PROVE  UNCHANGED Promise!vars
    BY <2>1 DEF Call, shared, Promise!vars
  <2>2. ASSUME NEW c \in Callers, Step(c)
        PROVE  [Promise!Next]_Promise!vars
    BY <2>2, StepRefines
  <2>3. ASSUME NEW f \in Files, SetRpPairingFile(f)
        PROVE  UNCHANGED Promise!vars
    BY <2>3 DEF SetRpPairingFile, Promise!vars
  <2>4. ASSUME NEW t \in Tunnels, TunnelDown(t)
        PROVE  UNCHANGED Promise!vars
    BY <2>4 DEF TunnelDown, shared, Promise!vars
  <2>5. CASE UNCHANGED vars
    BY <2>5 DEF vars, Promise!vars
  <2> QED
    BY <2>1, <2>2, <2>3, <2>4, <2>5 DEF Next
<1> QED
  BY <1>1, <1>2, Invariance, PTL DEF Spec, KeepsPromise, Promise!Spec
=============================================================================
