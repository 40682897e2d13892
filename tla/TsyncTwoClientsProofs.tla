------------------------ MODULE TsyncTwoClientsProofs ------------------------
(***************************************************************************)
(* Two clients at once: ".tsync" stays consistent.  The argument is the    *)
(* one of TsyncStoreProofs, "One of several clients", instantiated for     *)
(* each of the two.  It works because ".tsync" is loaded once and written  *)
(* whole: what an operation is about to write is consistent by itself, and *)
(* does not depend on what the other client has written in the meantime.   *)
(* (The parts do depend on it: AnyVersionReconstructible is violated.)     *)
(***************************************************************************)
EXTENDS TsyncTwoClients, TLAPS

\* There is no restore here.
NoVersion == CHOOSE v : v \notin VersionIDs

PA == INSTANCE TsyncStoreProofs WITH op <- opA, rd <- <<>>
PB == INSTANCE TsyncStoreProofs WITH op <- opB, rd <- <<>>

\* ".tsync" is consistent, and so is what each client is about to write.
IInv == PA!SharedInv /\ PA!OwnInv /\ PB!OwnInv

\* What TsyncStoreProofs assumes of the constants.
LEMMA Assumptions ==
    /\ PA!TreeAssumption /\ PA!MaxRunsAssumption /\ PA!NoVersionAssumption
    /\ PB!TreeAssumption /\ PB!MaxRunsAssumption /\ PB!NoVersionAssumption
<1>1. NoVersion \notin VersionIDs
  BY NoSetContainsEverything DEF NoVersion
<1>2. QED
  BY <1>1, StoreAssumption
  DEF A!TreeAssumption, A!MaxRunsAssumption,
      PA!TreeAssumption, PA!MaxRunsAssumption, PA!NoVersionAssumption,
      PB!TreeAssumption, PB!MaxRunsAssumption, PB!NoVersionAssumption

\* A client of TsyncTwoClients takes the steps of TsyncStore: TsyncStoreProofs speaks of the
\* same actions under the names of its own instance.
LEMMA SameStepA ==
    ASSUME A!Next
    PROVE  PA!Next
<1>1. ASSUME NEW v \in VersionIDs, NEW r \in Hashes, NEW s \in BOOLEAN, A!StartBackup(v, r, s)
      PROVE  PA!StartBackup(v, r, s)
  BY <1>1
  DEF A!StartBackup, PA!StartBackup, A!NewMetadata, PA!NewMetadata,
      A!Begin, PA!Begin, A!NextPassword, PA!NextPassword, A!Content, PA!Content,
      A!Recorded, PA!Recorded, A!Absent, PA!Absent, A!KeysIn, PA!KeysIn,
      A!Nodes, PA!Nodes, A!Reach, PA!Reach, A!Closed, PA!Closed, A!Base, PA!Base,
      A!EmptyMetadata, PA!EmptyMetadata, A!RecordOf, PA!RecordOf,
      A!Dropped, PA!Dropped
<1>2. ASSUME NEW k \in Keys, A!UploadPart(k) \/ A!UploadFails(k)
      PROVE  PA!UploadPart(k) \/ PA!UploadFails(k)
  BY <1>2
  DEF A!UploadPart, PA!UploadPart, A!UploadFails, PA!UploadFails
<1>3. ASSUME NEW v \in VersionIDs, A!StartDelete(v)
      PROVE  PA!StartDelete(v)
  BY <1>3
  DEF A!StartDelete, PA!StartDelete, A!Prune, PA!Prune,
      A!WalkFails, PA!WalkFails, A!Visited, PA!Visited, A!Roots, PA!Roots,
      A!Live, PA!Live, A!Begin, PA!Begin, A!Dropped, PA!Dropped,
      A!Recorded, PA!Recorded, A!Absent, PA!Absent, A!KeysIn, PA!KeysIn,
      A!Reach, PA!Reach, A!Closed, PA!Closed
<1>4. ASSUME A!StartGC
      PROVE  PA!StartGC
  BY <1>4
  DEF A!StartGC, PA!StartGC, A!Prune, PA!Prune, A!WalkFails, PA!WalkFails,
      A!Visited, PA!Visited, A!Roots, PA!Roots, A!Live, PA!Live,
      A!Begin, PA!Begin, A!Dropped, PA!Dropped, A!Recorded, PA!Recorded,
      A!Absent, PA!Absent, A!KeysIn, PA!KeysIn, A!Reach, PA!Reach,
      A!Closed, PA!Closed
<1>5. ASSUME A!WriteMetadata \/ A!WriteMetadataFails
      PROVE  PA!WriteMetadata \/ PA!WriteMetadataFails
  BY <1>5
  DEF A!WriteMetadata, PA!WriteMetadata,
      A!WriteMetadataFails, PA!WriteMetadataFails,
      A!ReadyToWrite, PA!ReadyToWrite, A!Idle, PA!Idle,
      A!EmptyMetadata, PA!EmptyMetadata, A!Absent, PA!Absent
<1>6. ASSUME A!ListParts \/ A!Return \/ A!Stop
      PROVE  PA!ListParts \/ PA!Return \/ PA!Stop
  BY <1>6
  DEF A!ListParts, PA!ListParts, A!Return, PA!Return, A!Stop, PA!Stop,
      A!Recorded, PA!Recorded, A!Idle, PA!Idle,
      A!EmptyMetadata, PA!EmptyMetadata, A!Absent, PA!Absent
<1>7. ASSUME NEW k \in Keys, A!DeletePart(k) \/ A!DeletePartFails(k)
      PROVE  PA!DeletePart(k) \/ PA!DeletePartFails(k)
  BY <1>7
  DEF A!DeletePart, PA!DeletePart, A!DeletePartFails, PA!DeletePartFails,
      A!Absent, PA!Absent
<1>8. ASSUME NEW h \in Hashes, A!Damage(h)
      PROVE  PA!Damage(h)
  BY <1>8
  DEF A!Damage, PA!Damage
<1> QED
  BY <1>1, <1>2, <1>3, <1>4, <1>5, <1>6, <1>7, <1>8 DEF A!Next, PA!Next

\* The same for the other client.
LEMMA SameStepB ==
    ASSUME B!Next
    PROVE  PB!Next
<1>1. ASSUME NEW v \in VersionIDs, NEW r \in Hashes, NEW s \in BOOLEAN, B!StartBackup(v, r, s)
      PROVE  PB!StartBackup(v, r, s)
  BY <1>1
  DEF B!StartBackup, PB!StartBackup, B!NewMetadata, PB!NewMetadata,
      B!Begin, PB!Begin, B!NextPassword, PB!NextPassword, B!Content, PB!Content,
      B!Recorded, PB!Recorded, B!Absent, PB!Absent, B!KeysIn, PB!KeysIn,
      B!Nodes, PB!Nodes, B!Reach, PB!Reach, B!Closed, PB!Closed, B!Base, PB!Base,
      B!EmptyMetadata, PB!EmptyMetadata, B!RecordOf, PB!RecordOf,
      B!Dropped, PB!Dropped
<1>2. ASSUME NEW k \in Keys, B!UploadPart(k) \/ B!UploadFails(k)
      PROVE  PB!UploadPart(k) \/ PB!UploadFails(k)
  BY <1>2
  DEF B!UploadPart, PB!UploadPart, B!UploadFails, PB!UploadFails
<1>3. ASSUME NEW v \in VersionIDs, B!StartDelete(v)
      PROVE  PB!StartDelete(v)
  BY <1>3
  DEF B!StartDelete, PB!StartDelete, B!Prune, PB!Prune,
      B!WalkFails, PB!WalkFails, B!Visited, PB!Visited, B!Roots, PB!Roots,
      B!Live, PB!Live, B!Begin, PB!Begin, B!Dropped, PB!Dropped,
      B!Recorded, PB!Recorded, B!Absent, PB!Absent, B!KeysIn, PB!KeysIn,
      B!Reach, PB!Reach, B!Closed, PB!Closed
<1>4. ASSUME B!StartGC
      PROVE  PB!StartGC
  BY <1>4
  DEF B!StartGC, PB!StartGC, B!Prune, PB!Prune, B!WalkFails, PB!WalkFails,
      B!Visited, PB!Visited, B!Roots, PB!Roots, B!Live, PB!Live,
      B!Begin, PB!Begin, B!Dropped, PB!Dropped, B!Recorded, PB!Recorded,
      B!Absent, PB!Absent, B!KeysIn, PB!KeysIn, B!Reach, PB!Reach,
      B!Closed, PB!Closed
<1>5. ASSUME B!WriteMetadata \/ B!WriteMetadataFails
      PROVE  PB!WriteMetadata \/ PB!WriteMetadataFails
  BY <1>5
  DEF B!WriteMetadata, PB!WriteMetadata,
      B!WriteMetadataFails, PB!WriteMetadataFails,
      B!ReadyToWrite, PB!ReadyToWrite, B!Idle, PB!Idle,
      B!EmptyMetadata, PB!EmptyMetadata, B!Absent, PB!Absent
<1>6. ASSUME B!ListParts \/ B!Return \/ B!Stop
      PROVE  PB!ListParts \/ PB!Return \/ PB!Stop
  BY <1>6
  DEF B!ListParts, PB!ListParts, B!Return, PB!Return, B!Stop, PB!Stop,
      B!Recorded, PB!Recorded, B!Idle, PB!Idle,
      B!EmptyMetadata, PB!EmptyMetadata, B!Absent, PB!Absent
<1>7. ASSUME NEW k \in Keys, B!DeletePart(k) \/ B!DeletePartFails(k)
      PROVE  PB!DeletePart(k) \/ PB!DeletePartFails(k)
  BY <1>7
  DEF B!DeletePart, PB!DeletePart, B!DeletePartFails, PB!DeletePartFails,
      B!Absent, PB!Absent
<1>8. ASSUME NEW h \in Hashes, B!Damage(h)
      PROVE  PB!Damage(h)
  BY <1>8
  DEF B!Damage, PB!Damage
<1> QED
  BY <1>1, <1>2, <1>3, <1>4, <1>5, <1>6, <1>7, <1>8 DEF B!Next, PB!Next

\* What is shared does not mention the operation: both clients mean the same by it.
LEMMA SameShared == PA!SharedInv <=> PB!SharedInv
BY
DEF PA!SharedInv, PB!SharedInv, PA!Metadata, PB!Metadata,
    PA!Consistent, PB!Consistent, PA!Whole, PB!Whole, PA!Live, PB!Live,
    PA!Content, PB!Content, PA!Nodes, PB!Nodes, PA!Reach, PB!Reach,
    PA!Closed, PB!Closed, PA!KeysIn, PB!KeysIn, PA!Recorded, PB!Recorded,
    PA!Absent, PB!Absent

\* A client's operation in memory is its own: another client's step leaves it alone.
LEMMA OtherStepA ==
    ASSUME PA!OwnInv, UNCHANGED opA, damaged => damaged'
    PROVE  PA!OwnInv'
BY DEF PA!OwnInv, PA!Consistent, PA!Whole, PA!Live, PA!Recorded

\* The same for the other client.
LEMMA OtherStepB ==
    ASSUME PB!OwnInv, UNCHANGED opB, damaged => damaged'
    PROVE  PB!OwnInv'
BY DEF PB!OwnInv, PB!Consistent, PB!Whole, PB!Live, PB!Recorded

\* Both clients start on a store without versions.
LEMMA IInvInit == Init => IInv
<1> SUFFICES ASSUME Init
             PROVE  IInv
  OBVIOUS
<1>1. PA!Init
  BY DEF Init, A!Init, A!EmptyMetadata, A!Idle, A!Absent,
     PA!Init, PA!EmptyMetadata, PA!Idle, PA!Absent
<1>2. PB!Init
  BY DEF Init, B!Init, B!EmptyMetadata, B!Idle, B!Absent,
     PB!Init, PB!EmptyMetadata, PB!Idle, PB!Absent
<1> QED
  BY <1>1, <1>2, Assumptions, PA!ClientInit, PB!ClientInit DEF IInv

\* A step of either client keeps what both rely on.
LEMMA IInvNext == IInv /\ [Next]_vars => IInv'
<1> SUFFICES ASSUME IInv, [Next]_vars
             PROVE  IInv'
  OBVIOUS
<1>1. ASSUME A!Next, UNCHANGED opB
      PROVE  IInv'
  <2>1. PA!Next
    BY <1>1, SameStepA
  <2>2. PA!SharedInv' /\ PA!OwnInv' /\ (damaged => damaged')
    BY <2>1, Assumptions, PA!ClientStep DEF IInv
  <2> QED
    BY <1>1, <2>2, OtherStepB DEF IInv
<1>2. ASSUME B!Next, UNCHANGED opA
      PROVE  IInv'
  <2>1. PB!Next
    BY <1>2, SameStepB
  <2>2. PB!SharedInv' /\ PB!OwnInv' /\ (damaged => damaged')
    BY <2>1, Assumptions, PB!ClientStep, SameShared DEF IInv
  <2>3. PA!SharedInv'
    BY <2>2, SameShared, PTL
  <2> QED
    BY <1>2, <2>2, <2>3, OtherStepA DEF IInv
<1>3. ASSUME UNCHANGED vars
      PROVE  IInv'
  BY <1>3 DEF vars, IInv, PA!SharedInv, PA!OwnInv, PB!OwnInv,
     PA!Consistent, PA!Whole, PA!Live, PA!Recorded, PB!Consistent, PB!Whole, PB!Live, PB!Recorded
<1> QED
  BY <1>1, <1>2, <1>3 DEF Next

\* ".tsync" and what the clients are about to write are consistent at all times.
LEMMA IInvAlways == Spec => []IInv
BY IInvInit, IInvNext, PTL DEF Spec

\* Every file of every version in ".tsync" has a record, whatever RunBackup,
\* DeleteVersion and GC of two clients do to one store at once, failures and crashes
\* included: for every set of versions, keys and trees, and any number of runs.
THEOREM ContentsRecordedHolds == Spec => []ContentsRecorded
<1>1. IInv => ContentsRecorded
  BY
  DEF A!Content, PA!Content, A!KeysIn, PA!KeysIn, A!Nodes, PA!Nodes,
      A!Reach, PA!Reach, A!Closed, PA!Closed, A!Recorded, PA!Recorded,
      A!Live, PA!Live, A!Absent, PA!Absent,
      IInv, PA!SharedInv, PA!Consistent, ContentsRecorded, A!ContentsRecorded
<1> QED
  BY <1>1, IInvAlways, PTL

\* Every tree node of every version in ".tsync" is there, unless it was damaged: neither
\* client's walk drops a node that the version it keeps needs.
THEOREM TreesCompleteHolds == Spec => []TreesComplete
<1>1. IInv => TreesComplete
  BY
  DEF A!Nodes, PA!Nodes, A!Reach, PA!Reach, A!Closed, PA!Closed, A!Live, PA!Live,
      IInv, PA!SharedInv, PA!Whole, TreesComplete, A!TreesComplete
<1> QED
  BY <1>1, IInvAlways, PTL
=============================================================================
