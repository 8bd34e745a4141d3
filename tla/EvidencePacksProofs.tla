------------------------ MODULE EvidencePacksProofs ------------------------
(***************************************************************************)
(* Proofs about the evidence packs, for any number of jobs and without the *)
(* bounds on faults.  The argument turns on the lock: it says who is       *)
(* inside, only the one inside writes the disk, and from its check to its  *)
(* publication the pack stays as the check found it, unless it decays.     *)
(***************************************************************************)
EXTENDS EvidencePacks, TLAPS

Publishing == {"inspect", "clear", "move", "drop", "publish"}
Delivered == {"return", "collect", "rest"}

\* The lock names the child that is inside, and nobody else is.
LockNamesTheOneInside == \A j \in Jobs : pc[j] \in Inside <=> lock = j

\* A child swaps only what it has extracted completely, of a document that allows it.
StagedIsComplete ==
    \A j \in Jobs : pc[j] \in Publishing => staging[j] = "good" /\ acceptable

\* A child that extracts has found no sound pack, and finds none until it publishes.
NoSoundPackIsSwapped ==
    decays = 0 => \A j \in Jobs : pc[j] \in Publishing \cup {"extract"} => pack # "good"

\* A child that returns, and its parent, find a pack that is sound while the disk is.
DeliveredIsThere == decays = 0 => \A j \in Jobs : pc[j] \in Delivered => pack = "good"
DeliveredIsAcceptable ==
    \A j \in Jobs : pc[j] \in Delivered \cup {"succeeded"} => acceptable

\* What a parent has read so far: nothing before it collects, whole files afterwards.
WhatWasRead ==
    \A j \in Jobs :
        /\ pc[j] \in Child \cup {"collect", "invalid"} => bundled[j] = {}
        /\ pc[j] \in {"rest", "succeeded"} => bundled[j] # {}
        /\ bundled[j] \subseteq IF decays = 0 THEN {"good"} ELSE {"good", "bad"}

\* A child that enters or returns has no staging directory, unless one was killed or
\* an operation of the system failed.
StagingIsRemoved ==
    kills = 0 /\ failures = 0 =>
        \A j \in Jobs : pc[j] \in {"check", "return"} => staging[j] = "none"

IInv ==
    /\ TypeOK
    /\ LockNamesTheOneInside
    /\ PackIsComplete
    /\ StagedIsComplete
    /\ NoSoundPackIsSwapped
    /\ DeliveredIsThere
    /\ DeliveredIsAcceptable
    /\ WhatWasRead
    /\ StagingIsRemoved
    /\ LeftoversHaveCauses

-----------------------------------------------------------------------------

LEMMA InitIInv == Init => IInv
<1> SUFFICES ASSUME Init PROVE IInv
  OBVIOUS
<1> USE DEF Init, Inside, Child
<1>1. TypeOK
  BY DEF TypeOK, Contents, Ended
<1>2. LockNamesTheOneInside
  BY NoOneIsFresh DEF LockNamesTheOneInside
<1>3. PackIsComplete
  BY DEF PackIsComplete
<1>4. StagedIsComplete /\ NoSoundPackIsSwapped
  BY DEF StagedIsComplete, NoSoundPackIsSwapped, Publishing
<1>5. DeliveredIsThere /\ DeliveredIsAcceptable
  BY DEF DeliveredIsThere, DeliveredIsAcceptable, Delivered
<1>6. WhatWasRead
  BY DEF WhatWasRead
<1>7. LeftoversHaveCauses /\ StagingIsRemoved
  BY DEF LeftoversHaveCauses, StagingIsRemoved
<1>8. QED
  BY <1>1, <1>2, <1>3, <1>4, <1>5, <1>6, <1>7 DEF IInv

\* Directories, lock and jobs keep their types.
LEMMA NextTypeOK == IInv /\ [Next]_vars => TypeOK'
<1> SUFFICES ASSUME IInv, [Next]_vars PROVE TypeOK'
  OBVIOUS
<1> USE NoOneIsFresh DEF IInv, Inside, Child, TypeOK, Contents, Ended, PackIsComplete
<1>1. CASE UNCHANGED vars
  BY <1>1 DEF vars, disk, faults
<1>2. ASSUME NEW j \in Jobs, Acquire(j) \/ GiveUp(j) \/ Reject(j) \/ Inspect(j) \/
      Clear(j) \/ DropAside(j) \/ Return(j) \/ Kill(j)
      PROVE  TypeOK'
  BY <1>2 DEF Acquire, GiveUp, Reject, Inspect, Clear, DropAside, Return, Kill, Goto,
     disk, faults
<1>3. ASSUME NEW j \in Jobs, Check(j) PROVE TypeOK'
  BY <1>3 DEF Check, Goto, disk, faults
<1>4. ASSUME NEW j \in Jobs, Extract(j) PROVE TypeOK'
  BY <1>4 DEF Extract, Goto, disk, faults
<1>5. ASSUME NEW j \in Jobs, MoveAside(j) PROVE TypeOK'
  BY <1>5 DEF MoveAside, Goto, disk, faults, Raise
<1>6. ASSUME NEW j \in Jobs, Publish(j) PROVE TypeOK'
  BY <1>6 DEF Publish, Goto, disk, faults, Raise
<1>7. ASSUME NEW j \in Jobs, Fail(j) PROVE TypeOK'
  BY <1>7 DEF Fail, Goto, disk, faults, Raise
<1>8. ASSUME NEW j \in Jobs, Collect(j) PROVE TypeOK'
  BY <1>8 DEF Collect, Goto, disk, faults
<1>9. CASE Decay
  BY <1>9 DEF Decay
<1>10. QED
  BY <1>1, <1>2, <1>3, <1>4, <1>5, <1>6, <1>7, <1>8, <1>9 DEF Next, Advance

\* Whoever enters takes the lock, and every way out gives it up.
LEMMA NextLockNamesTheOneInside == IInv /\ [Next]_vars => LockNamesTheOneInside'
<1> SUFFICES ASSUME IInv, [Next]_vars PROVE LockNamesTheOneInside'
  OBVIOUS
<1> USE NoOneIsFresh DEF IInv, Inside, Child, TypeOK, LockNamesTheOneInside
<1>1. CASE UNCHANGED vars
  BY <1>1 DEF vars, disk, faults
<1>2. ASSUME NEW j \in Jobs, GiveUp(j) \/ Check(j) \/ Extract(j) \/ Inspect(j) \/
      Clear(j) \/ DropAside(j) \/ Collect(j)
      PROVE  LockNamesTheOneInside'
  BY <1>2 DEF GiveUp, Check, Extract, Inspect, Clear, DropAside, Collect, Goto, disk, faults
<1>3. ASSUME NEW j \in Jobs, Acquire(j) PROVE LockNamesTheOneInside'
  BY <1>3 DEF Acquire, Goto, disk, faults
<1>4. ASSUME NEW j \in Jobs, Reject(j) PROVE LockNamesTheOneInside'
  BY <1>4 DEF Reject, Goto, disk, faults
<1>5. ASSUME NEW j \in Jobs, MoveAside(j) PROVE LockNamesTheOneInside'
  BY <1>5 DEF MoveAside, Goto, disk, faults, Raise
<1>6. ASSUME NEW j \in Jobs, Publish(j) PROVE LockNamesTheOneInside'
  BY <1>6 DEF Publish, Goto, disk, faults, Raise
<1>7. ASSUME NEW j \in Jobs, Fail(j) PROVE LockNamesTheOneInside'
  BY <1>7 DEF Fail, Goto, disk, faults, Raise
<1>8. ASSUME NEW j \in Jobs, Return(j) PROVE LockNamesTheOneInside'
  BY <1>8 DEF Return, Goto, disk, faults
<1>9. ASSUME NEW j \in Jobs, Kill(j) PROVE LockNamesTheOneInside'
  BY <1>9 DEF Kill, Goto, disk, faults
<1>10. CASE Decay
  BY <1>10 DEF Decay
<1>11. QED
  BY <1>1, <1>2, <1>3, <1>4, <1>5, <1>6, <1>7, <1>8, <1>9, <1>10 DEF Next, Advance

\* Only publication puts something under the pack's name.
LEMMA NextPackIsComplete == IInv /\ [Next]_vars => PackIsComplete'
<1> SUFFICES ASSUME IInv, [Next]_vars PROVE PackIsComplete'
  OBVIOUS
<1> USE NoOneIsFresh DEF IInv, Inside, Child, PackIsComplete, StagedIsComplete, Publishing
<1>1. CASE UNCHANGED vars
  BY <1>1 DEF vars, disk, faults
<1>2. ASSUME NEW j \in Jobs, Acquire(j) \/ GiveUp(j) \/ Check(j) \/ Extract(j) \/
      Reject(j) \/ Inspect(j) \/ Clear(j) \/ DropAside(j) \/ Fail(j) \/ Return(j) \/
      Kill(j) \/ Collect(j)
      PROVE  PackIsComplete'
  BY <1>2 DEF Acquire, GiveUp, Check, Extract, Reject, Inspect, Clear, DropAside, Fail,
     Return, Kill, Collect, Goto, disk, faults, Raise
<1>3. ASSUME NEW j \in Jobs, MoveAside(j) PROVE PackIsComplete'
  BY <1>3 DEF MoveAside, Goto, disk, faults, Raise
<1>4. ASSUME NEW j \in Jobs, Publish(j) PROVE PackIsComplete'
  BY <1>4 DEF Publish, Goto, disk, faults, Raise
<1>5. CASE Decay
  BY <1>5 DEF Decay
<1>6. QED
  BY <1>1, <1>2, <1>3, <1>4, <1>5 DEF Next, Advance

\* Between extraction and publication nobody else touches a staging directory.
LEMMA NextStagedIsComplete == IInv /\ [Next]_vars => StagedIsComplete'
<1> SUFFICES ASSUME IInv, [Next]_vars PROVE StagedIsComplete'
  OBVIOUS
<1> USE NoOneIsFresh DEF IInv, Inside, Child, TypeOK, StagedIsComplete, Publishing,
      LockNamesTheOneInside
<1>1. CASE UNCHANGED vars
  BY <1>1 DEF vars, disk, faults
<1>2. ASSUME NEW j \in Jobs, Acquire(j) \/ GiveUp(j) \/ Inspect(j) \/ Clear(j) \/
      DropAside(j) \/ Return(j) \/ Kill(j) \/ Collect(j)
      PROVE  StagedIsComplete'
  BY <1>2 DEF Acquire, GiveUp, Inspect, Clear, DropAside, Return, Kill, Collect, Goto,
     disk, faults
<1>3. ASSUME NEW j \in Jobs, Check(j) PROVE StagedIsComplete'
  BY <1>3 DEF Check, Goto, disk, faults
<1>4. ASSUME NEW j \in Jobs, Extract(j) PROVE StagedIsComplete'
  BY <1>4 DEF Extract, Goto, disk, faults
<1>5. ASSUME NEW j \in Jobs, Reject(j) PROVE StagedIsComplete'
  BY <1>5 DEF Reject, Goto, disk, faults
<1>6. ASSUME NEW j \in Jobs, MoveAside(j) PROVE StagedIsComplete'
  BY <1>6 DEF MoveAside, Goto, disk, faults, Raise
<1>7. ASSUME NEW j \in Jobs, Publish(j) PROVE StagedIsComplete'
  BY <1>7 DEF Publish, Goto, disk, faults, Raise
<1>8. ASSUME NEW j \in Jobs, Fail(j) PROVE StagedIsComplete'
  BY <1>8 DEF Fail, Goto, disk, faults, Raise
<1>9. CASE Decay
  BY <1>9 DEF Decay
<1>10. QED
  BY <1>1, <1>2, <1>3, <1>4, <1>5, <1>6, <1>7, <1>8, <1>9 DEF Next, Advance

\* Nobody else publishes while a child is inside.
LEMMA NextNoSoundPackIsSwapped == IInv /\ [Next]_vars => NoSoundPackIsSwapped'
<1> SUFFICES ASSUME IInv, [Next]_vars PROVE NoSoundPackIsSwapped'
  OBVIOUS
<1> USE NoOneIsFresh DEF IInv, Inside, Child, TypeOK, NoSoundPackIsSwapped, Publishing,
      LockNamesTheOneInside
<1>1. CASE UNCHANGED vars
  BY <1>1 DEF vars, disk, faults
<1>2. ASSUME NEW j \in Jobs, Acquire(j) \/ GiveUp(j) \/ Extract(j) \/ Reject(j) \/
      Inspect(j) \/ Clear(j) \/ DropAside(j) \/ Fail(j) \/ Return(j) \/ Kill(j) \/
      Collect(j)
      PROVE  NoSoundPackIsSwapped'
  BY <1>2 DEF Acquire, GiveUp, Extract, Reject, Inspect, Clear, DropAside, Fail, Return,
     Kill, Collect, Goto, disk, faults, Raise
<1>3. ASSUME NEW j \in Jobs, Check(j) PROVE NoSoundPackIsSwapped'
  BY <1>3 DEF Check, Goto, disk, faults
<1>4. ASSUME NEW j \in Jobs, MoveAside(j) PROVE NoSoundPackIsSwapped'
  BY <1>4 DEF MoveAside, Goto, disk, faults, Raise
<1>5. ASSUME NEW j \in Jobs, Publish(j) PROVE NoSoundPackIsSwapped'
  BY <1>5 DEF Publish, Goto, disk, faults, Raise
<1>6. CASE Decay
  BY <1>6 DEF Decay
<1>7. QED
  BY <1>1, <1>2, <1>3, <1>4, <1>5, <1>6 DEF Next, Advance

\* A pack that was delivered is not swapped while it is sound.
LEMMA NextDeliveredIsThere == IInv /\ [Next]_vars => DeliveredIsThere'
<1> SUFFICES ASSUME IInv, [Next]_vars PROVE DeliveredIsThere'
  OBVIOUS
<1> USE NoOneIsFresh DEF IInv, Inside, Child, TypeOK, DeliveredIsThere, Delivered,
      NoSoundPackIsSwapped, Publishing, StagedIsComplete, LockNamesTheOneInside
<1>1. CASE UNCHANGED vars
  BY <1>1 DEF vars, disk, faults
<1>2. ASSUME NEW j \in Jobs, Acquire(j) \/ GiveUp(j) \/ Extract(j) \/ Reject(j) \/
      Inspect(j) \/ Clear(j) \/ DropAside(j) \/ Fail(j) \/ Kill(j)
      PROVE  DeliveredIsThere'
  BY <1>2 DEF Acquire, GiveUp, Extract, Reject, Inspect, Clear, DropAside, Fail, Kill,
     Goto, disk, faults, Raise
<1>3. ASSUME NEW j \in Jobs, Check(j) PROVE DeliveredIsThere'
  BY <1>3 DEF Check, Goto, disk, faults
<1>4. ASSUME NEW j \in Jobs, MoveAside(j) PROVE DeliveredIsThere'
  BY <1>4 DEF MoveAside, Goto, disk, faults, Raise
<1>5. ASSUME NEW j \in Jobs, Publish(j) PROVE DeliveredIsThere'
  BY <1>5 DEF Publish, Goto, disk, faults, Raise
<1>6. ASSUME NEW j \in Jobs, Return(j) PROVE DeliveredIsThere'
  BY <1>6 DEF Return, Goto, disk, faults
<1>7. ASSUME NEW j \in Jobs, Collect(j) PROVE DeliveredIsThere'
  BY <1>7 DEF Collect, Goto, disk, faults
<1>8. CASE Decay
  BY <1>8 DEF Decay
<1>9. QED
  BY <1>1, <1>2, <1>3, <1>4, <1>5, <1>6, <1>7, <1>8 DEF Next, Advance

\* Packs of unacceptable documents are never published, hence never delivered.
LEMMA NextDeliveredIsAcceptable == IInv /\ [Next]_vars => DeliveredIsAcceptable'
<1> SUFFICES ASSUME IInv, [Next]_vars PROVE DeliveredIsAcceptable'
  OBVIOUS
<1> USE NoOneIsFresh DEF IInv, Inside, Child, TypeOK, DeliveredIsAcceptable, Delivered,
      PackIsComplete, StagedIsComplete, Publishing
<1>1. CASE UNCHANGED vars
  BY <1>1 DEF vars, disk, faults
<1>2. ASSUME NEW j \in Jobs, Acquire(j) \/ GiveUp(j) \/ Extract(j) \/ Reject(j) \/
      Inspect(j) \/ Clear(j) \/ MoveAside(j) \/ DropAside(j) \/ Fail(j) \/ Kill(j)
      PROVE  DeliveredIsAcceptable'
  BY <1>2 DEF Acquire, GiveUp, Extract, Reject, Inspect, Clear, MoveAside, DropAside,
     Fail, Kill, Goto, disk, faults, Raise
<1>3. ASSUME NEW j \in Jobs, Check(j) PROVE DeliveredIsAcceptable'
  BY <1>3 DEF Check, Goto, disk, faults
<1>4. ASSUME NEW j \in Jobs, Publish(j) PROVE DeliveredIsAcceptable'
  BY <1>4 DEF Publish, Goto, disk, faults, Raise
<1>5. ASSUME NEW j \in Jobs, Return(j) PROVE DeliveredIsAcceptable'
  BY <1>5 DEF Return, Goto, disk, faults
<1>6. ASSUME NEW j \in Jobs, Collect(j) PROVE DeliveredIsAcceptable'
  BY <1>6 DEF Collect, Goto, disk, faults
<1>7. CASE Decay
  BY <1>7 DEF Decay
<1>8. QED
  BY <1>1, <1>2, <1>3, <1>4, <1>5, <1>6, <1>7 DEF Next, Advance

\* A parent adds what stands under the pack's name to what it has read.
LEMMA NextWhatWasRead == IInv /\ [Next]_vars => WhatWasRead'
<1> SUFFICES ASSUME IInv, [Next]_vars PROVE WhatWasRead'
  OBVIOUS
<1> USE NoOneIsFresh DEF IInv, Inside, Child, TypeOK, WhatWasRead, DeliveredIsThere,
      Delivered, PackIsComplete
<1>1. CASE UNCHANGED vars
  BY <1>1 DEF vars, disk, faults
<1>2. ASSUME NEW j \in Jobs, Acquire(j) \/ GiveUp(j) \/ Check(j) \/ Extract(j) \/
      Reject(j) \/ Inspect(j) \/ Clear(j) \/ MoveAside(j) \/ DropAside(j) \/ Fail(j) \/
      Kill(j)
      PROVE  WhatWasRead'
  BY <1>2 DEF Acquire, GiveUp, Check, Extract, Reject, Inspect, Clear, MoveAside,
     DropAside, Fail, Kill, Goto, disk, faults, Raise
<1>3. ASSUME NEW j \in Jobs, Publish(j) PROVE WhatWasRead'
  BY <1>3 DEF Publish, Goto, disk, faults, Raise
<1>4. ASSUME NEW j \in Jobs, Return(j) PROVE WhatWasRead'
  BY <1>4 DEF Return, Goto, disk, faults
<1>5. ASSUME NEW j \in Jobs, Collect(j) PROVE WhatWasRead'
  BY <1>5 DEF Collect, Goto, disk, faults
<1>6. CASE Decay
  BY <1>6 DEF Decay
<1>7. QED
  BY <1>1, <1>2, <1>3, <1>4, <1>5, <1>6 DEF Next, Advance

\* Publication and a rejected document remove the staging directory.
LEMMA NextStagingIsRemoved == IInv /\ [Next]_vars => StagingIsRemoved'
<1> SUFFICES ASSUME IInv, [Next]_vars PROVE StagingIsRemoved'
  OBVIOUS
<1> USE NoOneIsFresh DEF IInv, Inside, Child, TypeOK, StagingIsRemoved,
      LeftoversHaveCauses, LockNamesTheOneInside
<1>1. CASE UNCHANGED vars
  BY <1>1 DEF vars, disk, faults
<1>2. ASSUME NEW j \in Jobs, GiveUp(j) \/ Extract(j) \/ Reject(j) \/ Inspect(j) \/
      Clear(j) \/ DropAside(j) \/ Return(j) \/ Kill(j) \/ Collect(j)
      PROVE  StagingIsRemoved'
  BY <1>2 DEF GiveUp, Extract, Reject, Inspect, Clear, DropAside, Return, Kill, Collect,
     Goto, disk, faults
<1>3. ASSUME NEW j \in Jobs, Acquire(j) PROVE StagingIsRemoved'
  BY <1>3 DEF Acquire, Goto, disk, faults
<1>4. ASSUME NEW j \in Jobs, Check(j) PROVE StagingIsRemoved'
  BY <1>4 DEF Check, Goto, disk, faults
<1>5. ASSUME NEW j \in Jobs, MoveAside(j) PROVE StagingIsRemoved'
  BY <1>5 DEF MoveAside, Goto, disk, faults, Raise
<1>6. ASSUME NEW j \in Jobs, Publish(j) PROVE StagingIsRemoved'
  BY <1>6 DEF Publish, Goto, disk, faults, Raise
<1>7. ASSUME NEW j \in Jobs, Fail(j) PROVE StagingIsRemoved'
  BY <1>7 DEF Fail, Goto, disk, faults, Raise
<1>8. CASE Decay
  BY <1>8 DEF Decay
<1>9. QED
  BY <1>1, <1>2, <1>3, <1>4, <1>5, <1>6, <1>7, <1>8 DEF Next, Advance

\* What is left over was left by a killed child or an error of the system.
LEMMA NextLeftoversHaveCauses == IInv /\ [Next]_vars => LeftoversHaveCauses'
<1> SUFFICES ASSUME IInv, [Next]_vars PROVE LeftoversHaveCauses'
  OBVIOUS
<1> USE NoOneIsFresh DEF IInv, Inside, Child, TypeOK, StagingIsRemoved,
      LeftoversHaveCauses, LockNamesTheOneInside
<1>1. CASE UNCHANGED vars
  BY <1>1 DEF vars, disk, faults
<1>2. ASSUME NEW j \in Jobs, Acquire(j) \/ GiveUp(j) \/ Extract(j) \/ Inspect(j) \/
      Clear(j) \/ Collect(j)
      PROVE  LeftoversHaveCauses'
  BY <1>2 DEF Acquire, GiveUp, Extract, Inspect, Clear, Collect, Goto, disk, faults
<1>3. ASSUME NEW j \in Jobs, Check(j) PROVE LeftoversHaveCauses'
  BY <1>3 DEF Check, Goto, disk, faults
<1>4. ASSUME NEW j \in Jobs, Reject(j) PROVE LeftoversHaveCauses'
  BY <1>4 DEF Reject, Goto, disk, faults
<1>5. ASSUME NEW j \in Jobs, MoveAside(j) PROVE LeftoversHaveCauses'
  BY <1>5 DEF MoveAside, Goto, disk, faults, Raise
<1>6. ASSUME NEW j \in Jobs, DropAside(j) PROVE LeftoversHaveCauses'
  BY <1>6 DEF DropAside, Goto, disk, faults
<1>7. ASSUME NEW j \in Jobs, Publish(j) PROVE LeftoversHaveCauses'
  BY <1>7 DEF Publish, Goto, disk, faults, Raise
<1>8. ASSUME NEW j \in Jobs, Fail(j) PROVE LeftoversHaveCauses'
  BY <1>8 DEF Fail, Goto, disk, faults, Raise
<1>9. ASSUME NEW j \in Jobs, Return(j) PROVE LeftoversHaveCauses'
  BY <1>9 DEF Return, Goto, disk, faults
<1>10. ASSUME NEW j \in Jobs, Kill(j) PROVE LeftoversHaveCauses'
  BY <1>10 DEF Kill, Goto, disk, faults
<1>11. CASE Decay
  BY <1>11 DEF Decay
<1>12. QED
  BY <1>1, <1>2, <1>3, <1>4, <1>5, <1>6, <1>7, <1>8, <1>9, <1>10, <1>11 DEF Next, Advance

LEMMA NextIInv == IInv /\ [Next]_vars => IInv'
BY NextTypeOK, NextLockNamesTheOneInside, NextPackIsComplete, NextStagedIsComplete,
   NextNoSoundPackIsSwapped, NextDeliveredIsThere, NextDeliveredIsAcceptable,
   NextWhatWasRead, NextStagingIsRemoved, NextLeftoversHaveCauses DEF IInv

-----------------------------------------------------------------------------

\* The strengthened invariant holds in every reachable state.
THEOREM Invariance == Spec => []IInv
BY InitIInv, NextIInv, PTL DEF Spec

\* Directories, lock and jobs keep their types.
THEOREM TypeCorrect == Spec => []TypeOK
<1>1. IInv => TypeOK
  BY DEF IInv
<1>2. QED
  BY <1>1, Invariance, PTL

\* The keyed lock of retrieve_symbol_evidence excludes, whoever is killed.
THEOREM ChildrenExclude == Spec => []OneChildInside
<1>1. IInv => OneChildInside
  BY DEF IInv, LockNamesTheOneInside, OneChildInside
<1>2. QED
  BY <1>1, Invariance, PTL

\* Publication by rename: no incomplete directory under the pack's name.
THEOREM PacksAreComplete == Spec => []PackIsComplete
<1>1. IInv => PackIsComplete
  BY DEF IInv
<1>2. QED
  BY <1>1, Invariance, PTL

\* The parent of run_pdf_job reads without the lock and still finds the pack.
THEOREM PacksOutliveTheLock == Spec => []PackOutlivesTheLock
<1>1. IInv => PackOutlivesTheLock
  BY DEF IInv, DeliveredIsThere, Delivered, PackOutlivesTheLock
<1>2. QED
  BY <1>1, Invariance, PTL

\* A bundle consists of whole files of published packs (_artifacts).
THEOREM BundlesAreWhole == Spec => []BundlesAreComplete
<1>1. IInv => BundlesAreComplete
  BY DEF IInv, WhatWasRead, DeliveredIsAcceptable, BundlesAreComplete
<1>2. QED
  BY <1>1, Invariance, PTL

\* Directories are left over only by killed children and errors of the system.
THEOREM LeftoversAreExplained == Spec => []LeftoversHaveCauses
<1>1. IInv => LeftoversHaveCauses
  BY DEF IInv
<1>2. QED
  BY <1>1, Invariance, PTL

\* All five at once.
THEOREM Soundness == Spec => []PacksAreSound
BY ChildrenExclude, PacksAreComplete, PacksOutliveTheLock, BundlesAreWhole,
   LeftoversAreExplained, PTL DEF PacksAreSound

=============================================================================
