------------------------- MODULE CardIterationsProofs -------------------------
(***************************************************************************)
(* Proofs about CardIterations for any number of iterations, attempts,     *)
(* model calls, keys and faults.                                           *)
(*                                                                         *)
(* The rows alone do not carry the properties: an attempt acts on what it  *)
(* read several steps earlier. The inductive invariant says what an        *)
(* attempt may still rely on when it acts: the archive it is about to      *)
(* insert is stored, the capabilities it read are the first version's, and *)
(* all the numbers below its own are taken. All three are stable because   *)
(* rows and objects are only ever added.                                   *)
(***************************************************************************)
EXTENDS CardIterations, TLAPS

WithBase == {"find", "number", "call", "upload", "insert", "examine", "renumber"}
WithNumber == {"call", "upload", "insert", "examine"}
Publishing == {"upload", "insert", "examine"}

\* Another iteration has the number.
TakenByOther(i, patch) ==
  \E row \in versions : row.patch = patch /\ row.version \in Iterations \ {i}

\* What the fields of attempt (i, a) still say when it acts on them.
StoredBeforeInsert(i, a) ==
  run[i][a].pc \in {"insert", "examine"} => Built(i, a) \in objects

BaseWasRead(i, a) ==
  run[i][a].pc \in WithBase =>
    run[i][a].capabilities = FirstCapabilities /\ run[i][a].key \in ArtifactKeys

NumbersBelowTaken(i, a) ==
  run[i][a].pc \in WithNumber =>
    /\ run[i][a].patch > 0
    /\ \A patch \in Patch : patch < run[i][a].patch => patch \in Patches

InsertWasRefused(i, a) ==
  run[i][a].pc = "examine" => i \in Published \/ run[i][a].patch \in Patches

RefusedWasTaken(i, a) ==
  \/ run[i][a].refused = {} /\ run[i][a].pc \notin {"renumber", "overtaken"}
  \/ \E patch \in Patch :
       /\ run[i][a].refused = {patch}
       /\ TakenByOther(i, patch)
       /\ \/ run[i][a].pc = "renumber"
          \/ run[i][a].pc \in Publishing /\ patch < run[i][a].patch
  \/ /\ run[i][a].pc = "overtaken"
     /\ \E row, other \in versions :
          /\ row.patch < other.patch
          /\ {row.version, other.version} \subseteq Iterations \ {i}
          /\ {row.patch, other.patch} = run[i][a].refused

AttemptInv(i, a) ==
  /\ StoredBeforeInsert(i, a)
  /\ BaseWasRead(i, a)
  /\ NumbersBelowTaken(i, a)
  /\ InsertWasRefused(i, a)
  /\ RefusedWasTaken(i, a)

RowsInv ==
  /\ ObjectsBehindRows
  /\ VersionsGapFree
  /\ CapabilitiesNeverWiden
  /\ \E row \in versions : row.version = First /\ row.patch = 0

IterationsIInv ==
  /\ IterationsTypeOK
  /\ RowsInv
  /\ \A i \in Iterations, a \in Attempts : AttemptInv(i, a)

------------------------------------------------------------------------------
(* Types.                                                                   *)

\* Each state an attempt goes to is one of AttemptState.
LEMMA GoesTyped ==
  ASSUME run \in [Iterations -> [Attempts -> AttemptState]],
         NEW i \in Iterations, NEW a \in Attempts, NEW state \in AttemptState,
         Goes(i, a, state)
  PROVE  run' \in [Iterations -> [Attempts -> AttemptState]]
BY DEF Goes

\* What an attempt is after it went on, and that the others stay.
LEMMA GoesTo ==
  ASSUME run \in [Iterations -> [Attempts -> AttemptState]],
         NEW i \in Iterations, NEW a \in Attempts, NEW state,
         Goes(i, a, state)
  PROVE  /\ run'[i][a] = state
         /\ \A j \in Iterations, b \in Attempts :
              (j # i \/ b # a) => run'[j][b] = run[j][b]
BY DEF Goes

LEMMA OverTyped ==
  ASSUME NEW pc \in {"finish", "done", "failed", "gone"}
  PROVE  /\ Over(pc) \in AttemptState
         /\ Over(pc).pc = pc
         /\ Over(pc).refused = {}
BY IterationAssumption DEF Over, NotBegun, AttemptState, Patch, Running, Finished

------------------------------------------------------------------------------
(* What every step shares.                                                  *)

\* Rows and objects are only added, so an attempt that does not move keeps
\* what it relies on.
LEMMA StandingKeeps ==
  ASSUME versions \subseteq versions', objects \subseteq objects',
         NEW i \in Iterations, NEW a \in Attempts,
         run'[i][a] = run[i][a], AttemptInv(i, a)
  PROVE  AttemptInv(i, a)'
<1>1. StoredBeforeInsert(i, a)'
  BY DEF AttemptInv, StoredBeforeInsert, Built
<1>2. BaseWasRead(i, a)'
  BY DEF AttemptInv, BaseWasRead
<1>3. NumbersBelowTaken(i, a)'
  BY DEF AttemptInv, NumbersBelowTaken, Patches
<1>4. InsertWasRefused(i, a)'
  BY DEF AttemptInv, InsertWasRefused, Patches, Published
<1>5. RefusedWasTaken(i, a)'
  BY DEF AttemptInv, RefusedWasTaken, TakenByOther
<1> QED
  BY <1>1, <1>2, <1>3, <1>4, <1>5 DEF AttemptInv

\* Rows that do not change keep what they have, whatever is uploaded.
LEMMA RowsKeep ==
  ASSUME RowsInv, versions' = versions, objects \subseteq objects'
  PROVE  RowsInv'
BY DEF RowsInv, ObjectsBehindRows, VersionsGapFree, CapabilitiesNeverWiden, Patches

\* A step of one attempt keeps the invariant if the rows and that attempt do.
LEMMA OneMoves ==
  ASSUME IterationsIInv,
         NEW i \in Iterations, NEW a \in Attempts, NEW state \in AttemptState,
         Goes(i, a, state),
         versions \subseteq versions', objects \subseteq objects',
         versions' \subseteq Archive, objects' \subseteq Archive,
         UNCHANGED base, signer' \in ArtifactKeys, disruptions' \in Nat,
         RowsInv', AttemptInv(i, a)'
  PROVE  IterationsIInv'
<1>1. IterationsTypeOK'
  BY GoesTyped DEF IterationsIInv, IterationsTypeOK
<1>2. \A j \in Iterations, b \in Attempts : AttemptInv(j, b)'
  <2> SUFFICES ASSUME NEW j \in Iterations, NEW b \in Attempts PROVE AttemptInv(j, b)'
    OBVIOUS
  <2>1. CASE j = i /\ b = a
    BY <2>1
  <2>2. CASE j # i \/ b # a
    <3>1. run'[j][b] = run[j][b]
      BY <2>2, GoesTo DEF IterationsIInv, IterationsTypeOK
    <3> QED
      BY <3>1, StandingKeeps DEF IterationsIInv
  <2> QED
    BY <2>1, <2>2
<1> QED
  BY <1>1, <1>2 DEF IterationsIInv

\* An attempt that is over relies on nothing.
LEMMA OverRelies ==
  ASSUME NEW i \in Iterations, NEW a \in Attempts,
         NEW pc \in {"finish", "done", "failed", "gone"},
         run'[i][a] = Over(pc)
  PROVE  AttemptInv(i, a)'
BY OverTyped
DEF AttemptInv, StoredBeforeInsert, BaseWasRead, NumbersBelowTaken, InsertWasRefused,
    RefusedWasTaken, WithBase, WithNumber

\* A step that ends an attempt keeps the invariant.
LEMMA OneEnds ==
  ASSUME IterationsIInv,
         NEW i \in Iterations, NEW a \in Attempts,
         NEW pc \in {"finish", "done", "failed", "gone"},
         Goes(i, a, Over(pc)),
         versions \subseteq versions', objects \subseteq objects',
         versions' \subseteq Archive, objects' \subseteq Archive,
         UNCHANGED base, signer' \in ArtifactKeys, disruptions' \in Nat,
         RowsInv'
  PROVE  IterationsIInv'
<1>1. run'[i][a] = Over(pc)
  BY OverTyped, GoesTo DEF IterationsIInv, IterationsTypeOK
<1>2. AttemptInv(i, a)'
  BY <1>1, OverRelies
<1> QED
  BY <1>2, OverTyped, OneMoves

------------------------------------------------------------------------------
(* The initial state and each action.                                       *)

LEMMA InitIterations == IterationsInit => IterationsIInv
<1> SUFFICES ASSUME IterationsInit PROVE IterationsIInv
  OBVIOUS
<1>1. NotBegun \in AttemptState
  BY IterationAssumption DEF NotBegun, AttemptState, Patch
<1>2. FirstArchive(signer) \in Archive
  BY IterationAssumption DEF IterationsInit, FirstArchive, Archive, Versions, Patch
<1>3. IterationsTypeOK
  BY <1>1, <1>2 DEF IterationsInit, IterationsTypeOK, Versions
<1>4. RowsInv
  BY DEF IterationsInit, FirstArchive, RowsInv, ObjectsBehindRows, VersionsGapFree,
         CapabilitiesNeverWiden, Patches
<1>5. \A i \in Iterations, a \in Attempts : AttemptInv(i, a)
  BY DEF IterationsInit, NotBegun, AttemptInv, StoredBeforeInsert, BaseWasRead,
         NumbersBelowTaken, InsertWasRefused, RefusedWasTaken, WithBase, WithNumber
<1> QED
  BY <1>3, <1>4, <1>5 DEF IterationsIInv

LEMMA ConfirmKeeps ==
  ASSUME IterationsIInv, NEW i \in Iterations, ConfirmIteration(i)
  PROVE  IterationsIInv'
<1> USE DEF ConfirmIteration, Undisrupted
<1>1. IterationsTypeOK'
  BY DEF IterationsIInv, IterationsTypeOK, Published, Archive
<1>2. RowsInv'
  BY RowsKeep DEF IterationsIInv
<1>3. \A j \in Iterations, a \in Attempts : AttemptInv(j, a)'
  BY StandingKeeps DEF IterationsIInv
<1> QED
  BY <1>1, <1>2, <1>3 DEF IterationsIInv

LEMMA BeginKeeps ==
  ASSUME IterationsIInv, NEW i \in Iterations, NEW a \in Attempts, BeginAttempt(i, a)
  PROVE  IterationsIInv'
<1> DEFINE state == [run[i][a] EXCEPT !.pc = "load", !.key = signer]
<1>1. /\ IterationsTypeOK
      /\ run[i][a] \in AttemptState
      /\ run[i][a].pc = "waiting"
      /\ AttemptInv(i, a)
  BY DEF IterationsIInv, IterationsTypeOK, BeginAttempt, InPhase
<1>2. state \in AttemptState /\ state.pc = "load" /\ state.refused = run[i][a].refused
  BY <1>1 DEF AttemptState, IterationsTypeOK, Running
<1>3. Goes(i, a, state) /\ UNCHANGED <<objects, versions, base, signer>>
      /\ disruptions' \in Nat
  BY <1>1 DEF BeginAttempt, IterationsTypeOK, Disrupt
<1>4. run'[i][a] = state
  BY <1>2, <1>3, GoesTo, <1>1 DEF IterationsTypeOK
<1>5. AttemptInv(i, a)'
  BY <1>1, <1>2, <1>4
  DEF AttemptInv, StoredBeforeInsert, BaseWasRead, NumbersBelowTaken, InsertWasRefused,
      RefusedWasTaken, WithBase, WithNumber, Publishing
<1>6. RowsInv'
  BY <1>3, RowsKeep DEF IterationsIInv
<1> QED
  BY <1>1, <1>2, <1>3, <1>5, <1>6, OneMoves DEF IterationsTypeOK

LEMMA LoadKeeps ==
  ASSUME IterationsIInv, NEW i \in Iterations, NEW a \in Attempts, LoadBase(i, a)
  PROVE  IterationsIInv'
<1>1. PICK archive \in versions :
        Goes(i, a, IF ParseBaseArtifact(i, a, archive)
                   THEN [run[i][a] EXCEPT !.pc = "find",
                                          !.capabilities = archive.capabilities]
                   ELSE Over("failed"))
  BY DEF LoadBase, LoadVersionArtifact
<1>2. /\ IterationsTypeOK
      /\ run[i][a] \in AttemptState
      /\ run[i][a].pc = "load"
      /\ AttemptInv(i, a)
      /\ archive \in Archive
      /\ archive.capabilities = FirstCapabilities
  BY DEF IterationsIInv, IterationsTypeOK, LoadBase, InPhase, RowsInv, CapabilitiesNeverWiden
<1>3. UNCHANGED <<objects, versions, base, signer, disruptions>>
  BY DEF LoadBase, Undisrupted
<1>4. RowsInv'
  BY <1>3, RowsKeep DEF IterationsIInv
<1>5. CASE ParseBaseArtifact(i, a, archive)
  <2> DEFINE state == [run[i][a] EXCEPT !.pc = "find",
                                        !.capabilities = archive.capabilities]
  <2>1. /\ state \in AttemptState /\ state.pc = "find"
        /\ state.refused = run[i][a].refused
        /\ state.capabilities = FirstCapabilities
        /\ state.key \in ArtifactKeys
    BY <1>2, <1>5 DEF AttemptState, Archive, Running, ParseBaseArtifact
  <2>2. Goes(i, a, state)
    BY <1>1, <1>5
  <2>3. run'[i][a] = state
    BY <2>1, <2>2, GoesTo, <1>2 DEF IterationsTypeOK
  <2>4. AttemptInv(i, a)'
    BY <1>2, <2>1, <2>3
    DEF AttemptInv, StoredBeforeInsert, BaseWasRead, NumbersBelowTaken, InsertWasRefused,
        RefusedWasTaken, WithBase, WithNumber, Publishing
  <2> QED
    BY <1>2, <1>3, <1>4, <2>1, <2>2, <2>4, OneMoves DEF IterationsTypeOK
<1>6. CASE ~ParseBaseArtifact(i, a, archive)
  <2>1. Goes(i, a, Over("failed"))
    BY <1>1, <1>6
  <2> QED
    BY <1>2, <1>3, <1>4, <2>1, OneEnds DEF IterationsTypeOK
<1> QED
  BY <1>5, <1>6

LEMMA FindKeeps ==
  ASSUME IterationsIInv, NEW i \in Iterations, NEW a \in Attempts, FindPublished(i, a)
  PROVE  IterationsIInv'
<1>1. /\ IterationsTypeOK
      /\ run[i][a] \in AttemptState
      /\ run[i][a].pc = "find"
      /\ AttemptInv(i, a)
  BY DEF IterationsIInv, IterationsTypeOK, FindPublished, InPhase
<1>2. UNCHANGED <<objects, versions, base, signer, disruptions>>
  BY DEF FindPublished, Undisrupted
<1>3. RowsInv'
  BY <1>2, RowsKeep DEF IterationsIInv
<1>4. CASE i \in Published
  <2>1. Goes(i, a, Over("finish"))
    BY <1>4 DEF FindPublished
  <2> QED
    BY <1>1, <1>2, <1>3, <2>1, OneEnds DEF IterationsTypeOK
<1>5. CASE i \notin Published
  <2> DEFINE state == [run[i][a] EXCEPT !.pc = "number"]
  <2>1. /\ state \in AttemptState /\ state.pc = "number"
        /\ state.refused = run[i][a].refused
        /\ state.capabilities = run[i][a].capabilities /\ state.key = run[i][a].key
    BY <1>1 DEF AttemptState, Running
  <2>2. Goes(i, a, state)
    BY <1>5 DEF FindPublished
  <2>3. run'[i][a] = state
    BY <2>1, <2>2, GoesTo, <1>1 DEF IterationsTypeOK
  <2>4. AttemptInv(i, a)'
    BY <1>1, <2>1, <2>3
    DEF AttemptInv, StoredBeforeInsert, BaseWasRead, NumbersBelowTaken, InsertWasRefused,
        RefusedWasTaken, WithBase, WithNumber, Publishing
  <2> QED
    BY <1>1, <1>2, <1>3, <2>1, <2>2, <2>4, OneMoves DEF IterationsTypeOK
<1> QED
  BY <1>4, <1>5

\* The next number is above every number taken, and all below it are taken.
LEMMA NextNumber ==
  ASSUME IterationsIInv, NEW highest \in Patches, Highest(highest), highest # MaxPatch
  PROVE  /\ highest + 1 \in Patch /\ highest + 1 > 0
         /\ \A patch \in Patch : patch < highest + 1 => patch \in Patches
         /\ \A patch \in Patches : patch < highest + 1
<1>1. Patches \subseteq Patch
  BY DEF IterationsIInv, IterationsTypeOK, Patches, Archive
<1>2. 0..highest \subseteq Patches
  BY DEF IterationsIInv, RowsInv, VersionsGapFree
<1>3. MaxPatch \in Nat
  BY IterationAssumption
<1> QED
  BY <1>1, <1>2, <1>3 DEF Patch, Highest

LEMMA NumberKeeps ==
  ASSUME IterationsIInv, NEW i \in Iterations, NEW a \in Attempts, NumberVersion(i, a)
  PROVE  IterationsIInv'
<1>1. PICK highest \in Patches :
        Highest(highest) /\ Goes(i, a, Numbered(run[i][a], "call", highest))
  BY DEF NumberVersion
<1>2. /\ IterationsTypeOK
      /\ run[i][a] \in AttemptState
      /\ run[i][a].pc = "number"
      /\ AttemptInv(i, a)
  BY DEF IterationsIInv, IterationsTypeOK, NumberVersion, InPhase
<1>3. UNCHANGED <<objects, versions, base, signer, disruptions>>
  BY DEF NumberVersion, Undisrupted
<1>4. RowsInv'
  BY <1>3, RowsKeep DEF IterationsIInv
<1>5. CASE highest = MaxPatch
  <2>1. Goes(i, a, Over("failed"))
    BY <1>1, <1>5 DEF Numbered
  <2> QED
    BY <1>2, <1>3, <1>4, <2>1, OneEnds DEF IterationsTypeOK
<1>6. CASE highest # MaxPatch
  <2> DEFINE state == [run[i][a] EXCEPT !.pc = "call", !.patch = highest + 1]
  <2>1. /\ highest + 1 \in Patch /\ highest + 1 > 0
        /\ \A patch \in Patch : patch < highest + 1 => patch \in Patches
    BY <1>1, <1>6, NextNumber
  <2>2. /\ state \in AttemptState /\ state.pc = "call" /\ state.patch = highest + 1
        /\ state.refused = run[i][a].refused
        /\ state.capabilities = run[i][a].capabilities /\ state.key = run[i][a].key
    BY <1>2, <2>1 DEF AttemptState, Running
  <2>3. Goes(i, a, state)
    BY <1>1, <1>6 DEF Numbered
  <2>4. run'[i][a] = state
    BY <2>2, <2>3, GoesTo, <1>2 DEF IterationsTypeOK
  <2>5. NumbersBelowTaken(i, a)'
    BY <1>3, <2>1, <2>2, <2>4 DEF NumbersBelowTaken, Patches
  <2>6. AttemptInv(i, a)'
    BY <1>2, <2>2, <2>4, <2>5
    DEF AttemptInv, StoredBeforeInsert, BaseWasRead, InsertWasRefused,
        RefusedWasTaken, WithBase, Publishing
  <2> QED
    BY <1>2, <1>3, <1>4, <2>2, <2>3, <2>6, OneMoves DEF IterationsTypeOK
<1> QED
  BY <1>5, <1>6

LEMMA DeclineKeeps ==
  ASSUME IterationsIInv, NEW i \in Iterations, NEW a \in Attempts, DeclineRequirement(i, a)
  PROVE  IterationsIInv'
<1>1. UNCHANGED <<objects, versions, base, signer, disruptions>>
      /\ Goes(i, a, Over("failed"))
  BY DEF DeclineRequirement, Undisrupted
<1>2. IterationsTypeOK /\ RowsInv'
  BY <1>1, RowsKeep DEF IterationsIInv
<1> QED
  BY <1>1, <1>2, OneEnds DEF IterationsTypeOK

LEMMA CallKeeps ==
  ASSUME IterationsIInv, NEW i \in Iterations, NEW a \in Attempts, CallModel(i, a)
  PROVE  IterationsIInv'
<1>1. /\ IterationsTypeOK
      /\ run[i][a] \in AttemptState
      /\ run[i][a].pc = "call"
      /\ run[i][a].calls < ModelAttempts
      /\ AttemptInv(i, a)
  BY DEF IterationsIInv, IterationsTypeOK, CallModel, InPhase
<1>2. UNCHANGED <<objects, versions, base, signer, disruptions>>
  BY DEF CallModel, Undisrupted
<1>3. RowsInv'
  BY <1>2, RowsKeep DEF IterationsIInv
<1>4. ASSUME NEW state \in AttemptState, Goes(i, a, state),
             state.pc \in {"call", "upload"}, state.refused = run[i][a].refused,
             state.capabilities = run[i][a].capabilities, state.key = run[i][a].key,
             state.patch = run[i][a].patch
      PROVE  IterationsIInv'
  <2>1. run'[i][a] = state
    BY <1>4, GoesTo, <1>1 DEF IterationsTypeOK
  <2>2. AttemptInv(i, a)'
    BY <1>1, <1>2, <1>4, <2>1
    DEF AttemptInv, StoredBeforeInsert, BaseWasRead, NumbersBelowTaken, InsertWasRefused,
        RefusedWasTaken, WithBase, WithNumber, Publishing, Patches
  <2> QED
    BY <1>1, <1>2, <1>3, <1>4, <2>2, OneMoves DEF IterationsTypeOK
<1>5. ASSUME NEW content \in IF Runtime = "native" THEN NativeContents ELSE WebContents,
             Goes(i, a, [run[i][a] EXCEPT !.pc = "upload", !.content = content,
                                          !.calls = 0])
      PROVE  IterationsIInv'
  <2>1. content \in SUBSET Capabilities /\ 0 \in 0..ModelAttempts
    BY <1>1, <1>5, IterationAssumption DEF NativeContents, WebContents
  <2> QED
    BY <1>1, <1>4, <1>5, <2>1 DEF AttemptState, Running
<1>6. CASE Goes(i, a, [run[i][a] EXCEPT !.calls = @ + 1])
  <2>1. run[i][a].calls + 1 \in 0..ModelAttempts
    BY <1>1, IterationAssumption DEF AttemptState
  <2> QED
    BY <1>1, <1>4, <1>6, <2>1 DEF AttemptState
<1>7. CASE Goes(i, a, Over("failed"))
  BY <1>1, <1>2, <1>3, <1>7, OneEnds DEF IterationsTypeOK
<1> QED
  BY <1>5, <1>6, <1>7 DEF CallModel

\* What an attempt builds is an archive.
LEMMA BuiltTyped ==
  ASSUME IterationsIInv, NEW i \in Iterations, NEW a \in Attempts,
         run[i][a].pc \in Publishing
  PROVE  /\ Built(i, a) \in Archive
         /\ Built(i, a).version = i
         /\ Built(i, a).patch = run[i][a].patch
         /\ Built(i, a).capabilities = FirstCapabilities
<1>1. run[i][a] \in AttemptState /\ BaseWasRead(i, a)
  BY DEF IterationsIInv, IterationsTypeOK, AttemptInv
<1> QED
  BY <1>1, IterationAssumption
  DEF Publishing, BaseWasRead, WithBase, Built, Archive, AttemptState, Versions

LEMMA UploadKeeps ==
  ASSUME IterationsIInv, NEW i \in Iterations, NEW a \in Attempts, UploadArchive(i, a)
  PROVE  IterationsIInv'
<1> DEFINE state == [run[i][a] EXCEPT !.pc = "insert"]
<1>1. /\ IterationsTypeOK
      /\ run[i][a] \in AttemptState
      /\ run[i][a].pc = "upload"
      /\ AttemptInv(i, a)
      /\ RowsInv
  BY DEF IterationsIInv, IterationsTypeOK, UploadArchive, InPhase
<1>2. UNCHANGED <<versions, base, signer, disruptions>>
      /\ objects' = objects \union {Built(i, a)} /\ Goes(i, a, state)
  BY DEF UploadArchive, Undisrupted
<1>3. RowsInv'
  BY <1>1, <1>2, RowsKeep
<1>4. objects' \subseteq Archive /\ versions' \subseteq Archive
  BY <1>1, <1>2, BuiltTyped DEF IterationsTypeOK, Publishing
<1>5. /\ state \in AttemptState /\ state.pc = "insert"
      /\ state.refused = run[i][a].refused /\ state.patch = run[i][a].patch
      /\ state.capabilities = run[i][a].capabilities /\ state.key = run[i][a].key
      /\ state.content = run[i][a].content
  BY <1>1 DEF AttemptState, Running
<1>6. run'[i][a] = state
  BY <1>1, <1>2, <1>5, GoesTo DEF IterationsTypeOK
<1>7. StoredBeforeInsert(i, a)'
  BY <1>2, <1>5, <1>6 DEF StoredBeforeInsert, Built
<1>8. RefusedWasTaken(i, a)'
  BY <1>1, <1>2, <1>5, <1>6 DEF AttemptInv, RefusedWasTaken, TakenByOther, Publishing
<1>9. AttemptInv(i, a)'
  BY <1>1, <1>2, <1>5, <1>6, <1>7, <1>8
  DEF AttemptInv, BaseWasRead, NumbersBelowTaken, InsertWasRefused, WithBase, WithNumber, Patches
<1> QED
  BY <1>1, <1>2, <1>3, <1>4, <1>5, <1>9, OneMoves DEF IterationsTypeOK

\* An insert that the catalog accepts keeps the rows in order.
LEMMA InsertedRows ==
  ASSUME IterationsIInv, NEW i \in Iterations, NEW a \in Attempts,
         InPhase(i, a, "insert"), Insertable(Built(i, a)),
         versions' = versions \union {Built(i, a)}, UNCHANGED objects
  PROVE  RowsInv' /\ versions' \subseteq Archive
<1> DEFINE new == Built(i, a)
<1>1. /\ new \in Archive /\ new.version = i /\ new.patch = run[i][a].patch
      /\ new.capabilities = FirstCapabilities
  BY BuiltTyped DEF InPhase, Publishing
<1>2. /\ IterationsTypeOK /\ RowsInv /\ new \in objects
      /\ \A patch \in Patch : patch < new.patch => patch \in Patches
  BY <1>1 DEF IterationsIInv, AttemptInv, StoredBeforeInsert, NumbersBelowTaken,
              WithNumber, InPhase
<1>3. new.version \notin Published /\ new.patch \notin Patches
  BY DEF Insertable
<1>4. versions' \subseteq Archive
  BY <1>1, <1>2 DEF IterationsTypeOK
<1>5. ObjectsBehindRows'
  BY <1>2 DEF RowsInv, ObjectsBehindRows
<1>6. CapabilitiesNeverWiden'
  BY <1>1, <1>2 DEF RowsInv, CapabilitiesNeverWiden
<1>7. Patches' = Patches \union {new.patch}
  BY DEF Patches
<1>8. \A patch \in Patches' : 0..patch \subseteq Patches'
  <2>1. \A patch \in Patches : 0..patch \subseteq Patches
    BY <1>2 DEF RowsInv, VersionsGapFree
  <2>2. 0..new.patch \subseteq Patches \union {new.patch}
    BY <1>1, <1>2, IterationAssumption DEF Archive, Patch
  <2> QED
    BY <1>7, <2>1, <2>2
<1>9. \A row, other \in versions' :
        (row.patch = other.patch \/ row.version = other.version) => row = other
  BY <1>2, <1>3 DEF RowsInv, VersionsGapFree, Published, Patches
<1> QED
  BY <1>2, <1>4, <1>5, <1>6, <1>8, <1>9 DEF RowsInv, VersionsGapFree

LEMMA InsertKeeps ==
  ASSUME IterationsIInv, NEW i \in Iterations, NEW a \in Attempts, InsertVersion(i, a)
  PROVE  IterationsIInv'
<1>1. /\ IterationsTypeOK
      /\ run[i][a] \in AttemptState
      /\ run[i][a].pc = "insert"
      /\ AttemptInv(i, a)
      /\ RowsInv
  BY DEF IterationsIInv, IterationsTypeOK, InsertVersion, InPhase
<1>2. UNCHANGED <<objects, base, signer, disruptions>>
  BY DEF InsertVersion, Undisrupted
<1>3. CASE Insertable(Built(i, a))
  <2>1. versions' = versions \union {Built(i, a)} /\ Goes(i, a, Over("finish"))
    BY <1>3 DEF InsertVersion
  <2>2. RowsInv' /\ versions' \subseteq Archive
    BY <1>2, <1>3, <2>1, InsertedRows DEF InsertVersion
  <2> QED
    BY <1>1, <1>2, <2>1, <2>2, OneEnds DEF IterationsTypeOK
<1>4. CASE ~Insertable(Built(i, a))
  <2> DEFINE state == [run[i][a] EXCEPT !.pc = "examine"]
  <2>1. UNCHANGED versions /\ Goes(i, a, state)
    BY <1>4 DEF InsertVersion
  <2>2. /\ state \in AttemptState /\ state.pc = "examine"
        /\ state.refused = run[i][a].refused /\ state.patch = run[i][a].patch
        /\ state.capabilities = run[i][a].capabilities /\ state.key = run[i][a].key
        /\ state.content = run[i][a].content
    BY <1>1 DEF AttemptState, Running
  <2>3. run'[i][a] = state
    BY <1>1, <2>1, <2>2, GoesTo DEF IterationsTypeOK
  <2>4. InsertWasRefused(i, a)'
    BY <1>4, <2>1, <2>2, <2>3 DEF InsertWasRefused, Insertable, Built, Published, Patches
  <2>5. StoredBeforeInsert(i, a)'
    BY <1>1, <1>2, <2>2, <2>3 DEF AttemptInv, StoredBeforeInsert, Built
  <2>6. RefusedWasTaken(i, a)'
    BY <1>1, <2>1, <2>2, <2>3 DEF AttemptInv, RefusedWasTaken, TakenByOther, Publishing
  <2>7. AttemptInv(i, a)'
    BY <1>1, <2>1, <2>2, <2>3, <2>4, <2>5, <2>6
    DEF AttemptInv, BaseWasRead, NumbersBelowTaken, WithBase, WithNumber, Patches
  <2>8. RowsInv'
    BY <1>1, <1>2, <2>1, RowsKeep
  <2> QED
    BY <1>1, <1>2, <2>1, <2>2, <2>7, <2>8, OneMoves DEF IterationsTypeOK
<1> QED
  BY <1>3, <1>4

\* A number that was refused, while the iteration itself has no row, belongs
\* to another iteration: it is not the first version's either.
LEMMA RefusedIsTaken ==
  ASSUME IterationsIInv, NEW i \in Iterations, NEW a \in Attempts,
         InPhase(i, a, "examine"), i \notin Published
  PROVE  TakenByOther(i, run[i][a].patch)
<1>1. /\ run[i][a].patch \in Patches /\ run[i][a].patch > 0
  BY DEF IterationsIInv, AttemptInv, InsertWasRefused, NumbersBelowTaken, WithNumber, InPhase
<1>2. PICK row \in versions : row.patch = run[i][a].patch
  BY <1>1 DEF Patches
<1>3. row \in Archive /\ row.version # i
  BY DEF IterationsIInv, IterationsTypeOK, Published
<1>4. row.version # First
  <2>1. PICK first \in versions : first.version = First /\ first.patch = 0
    BY DEF IterationsIInv, RowsInv
  <2>2. row # first
    BY <1>1, <1>2, <2>1
  <2> QED
    BY <2>1, <2>2 DEF IterationsIInv, RowsInv, VersionsGapFree
<1> QED
  BY <1>2, <1>3, <1>4 DEF TakenByOther, Archive, Versions

LEMMA ExamineKeeps ==
  ASSUME IterationsIInv, NEW i \in Iterations, NEW a \in Attempts, ExamineConflict(i, a)
  PROVE  IterationsIInv'
<1>1. /\ IterationsTypeOK
      /\ run[i][a] \in AttemptState
      /\ run[i][a].pc = "examine"
      /\ AttemptInv(i, a)
  BY DEF IterationsIInv, IterationsTypeOK, ExamineConflict, InPhase
<1>2. UNCHANGED <<objects, versions, base, signer, disruptions>>
  BY DEF ExamineConflict, Undisrupted
<1>3. RowsInv'
  BY <1>2, RowsKeep DEF IterationsIInv
<1>4. CASE i \in Published
  <2>1. \E pc \in {"finish", "failed"} : Goes(i, a, Over(pc))
    BY <1>4 DEF ExamineConflict
  <2> QED
    BY <1>1, <1>2, <1>3, <2>1, OneEnds DEF IterationsTypeOK
<1>5. CASE i \notin Published
  <2> DEFINE d == run[i][a].patch
             state == [run[i][a] EXCEPT
                         !.pc = IF run[i][a].refused = {} THEN "renumber" ELSE "overtaken",
                         !.refused = @ \union {run[i][a].patch}]
  <2>1. TakenByOther(i, d) /\ d \in Patch
    BY <1>1, <1>5, RefusedIsTaken DEF InPhase, AttemptState
  <2>2. /\ state \in AttemptState
        /\ state.pc = IF run[i][a].refused = {} THEN "renumber" ELSE "overtaken"
        /\ state.refused = run[i][a].refused \union {d}
        /\ state.capabilities = run[i][a].capabilities /\ state.key = run[i][a].key
    BY <1>1 DEF AttemptState, Running, Finished
  <2>3. Goes(i, a, state)
    BY <1>5 DEF ExamineConflict
  <2>4. run'[i][a] = state
    BY <1>1, <2>2, <2>3, GoesTo DEF IterationsTypeOK
  <2>5. RefusedWasTaken(i, a)'
    <3>1. CASE run[i][a].refused = {}
      <4>1. state.refused = {d} /\ state.pc = "renumber"
        BY <2>2, <3>1
      <4> QED
        BY <1>2, <2>1, <2>4, <4>1 DEF RefusedWasTaken, TakenByOther
    <3>2. CASE run[i][a].refused # {}
      <4>1. PICK e \in Patch : run[i][a].refused = {e} /\ TakenByOther(i, e) /\ e < d
        BY <1>1, <3>2 DEF AttemptInv, RefusedWasTaken
      <4>2. state.refused = {e, d} /\ state.pc = "overtaken"
        BY <2>2, <3>2, <4>1
      <4>3. PICK row \in versions : row.patch = e /\ row.version \in Iterations \ {i}
        BY <4>1 DEF TakenByOther
      <4>4. PICK other \in versions : other.patch = d /\ other.version \in Iterations \ {i}
        BY <2>1 DEF TakenByOther
      <4> QED
        BY <1>2, <2>4, <4>1, <4>2, <4>3, <4>4 DEF RefusedWasTaken
    <3> QED
      BY <3>1, <3>2
  <2>6. AttemptInv(i, a)'
    BY <1>1, <2>2, <2>4, <2>5
    DEF AttemptInv, StoredBeforeInsert, BaseWasRead, NumbersBelowTaken, InsertWasRefused,
        WithBase, WithNumber
  <2> QED
    BY <1>1, <1>2, <1>3, <2>2, <2>3, <2>6, OneMoves DEF IterationsTypeOK
<1> QED
  BY <1>4, <1>5

LEMMA RenumberKeeps ==
  ASSUME IterationsIInv, NEW i \in Iterations, NEW a \in Attempts, Renumber(i, a)
  PROVE  IterationsIInv'
<1>1. PICK highest \in Patches :
        Highest(highest) /\ Goes(i, a, Numbered(run[i][a], "upload", highest))
  BY DEF Renumber
<1>2. /\ IterationsTypeOK
      /\ run[i][a] \in AttemptState
      /\ run[i][a].pc = "renumber"
      /\ AttemptInv(i, a)
  BY DEF IterationsIInv, IterationsTypeOK, Renumber, InPhase
<1>3. UNCHANGED <<objects, versions, base, signer, disruptions>>
  BY DEF Renumber, Undisrupted
<1>4. RowsInv'
  BY <1>3, RowsKeep DEF IterationsIInv
<1>5. CASE highest = MaxPatch
  <2>1. Goes(i, a, Over("failed"))
    BY <1>1, <1>5 DEF Numbered
  <2> QED
    BY <1>2, <1>3, <1>4, <2>1, OneEnds DEF IterationsTypeOK
<1>6. CASE highest # MaxPatch
  <2> DEFINE state == [run[i][a] EXCEPT !.pc = "upload", !.patch = highest + 1]
  <2>1. /\ highest + 1 \in Patch /\ highest + 1 > 0
        /\ \A patch \in Patch : patch < highest + 1 => patch \in Patches
        /\ \A patch \in Patches : patch < highest + 1
    BY <1>1, <1>6, NextNumber
  <2>2. /\ state \in AttemptState /\ state.pc = "upload" /\ state.patch = highest + 1
        /\ state.refused = run[i][a].refused
        /\ state.capabilities = run[i][a].capabilities /\ state.key = run[i][a].key
    BY <1>2, <2>1 DEF AttemptState, Running
  <2>3. Goes(i, a, state)
    BY <1>1, <1>6 DEF Numbered
  <2>4. run'[i][a] = state
    BY <2>2, <2>3, GoesTo, <1>2 DEF IterationsTypeOK
  <2>5. NumbersBelowTaken(i, a)'
    BY <1>3, <2>1, <2>2, <2>4 DEF NumbersBelowTaken, Patches
  <2>6. RefusedWasTaken(i, a)'
    <3>1. PICK d \in Patch : run[i][a].refused = {d} /\ TakenByOther(i, d)
      BY <1>2 DEF AttemptInv, RefusedWasTaken
    <3>2. d \in Patches
      BY <3>1 DEF TakenByOther, Patches
    <3>3. d < highest + 1
      BY <2>1, <3>2
    <3> QED
      BY <1>3, <2>2, <2>4, <3>1, <3>3 DEF RefusedWasTaken, TakenByOther, Publishing
  <2>7. AttemptInv(i, a)'
    BY <1>2, <2>2, <2>4, <2>5, <2>6
    DEF AttemptInv, StoredBeforeInsert, BaseWasRead, InsertWasRefused, WithBase
  <2> QED
    BY <1>2, <1>3, <1>4, <2>2, <2>3, <2>7, OneMoves DEF IterationsTypeOK
<1> QED
  BY <1>5, <1>6

LEMMA FinishKeeps ==
  ASSUME IterationsIInv, NEW i \in Iterations, NEW a \in Attempts, FinishAttempt(i, a)
  PROVE  IterationsIInv'
<1>1. UNCHANGED <<objects, versions, base, signer, disruptions>>
      /\ Goes(i, a, Over("done"))
  BY DEF FinishAttempt, Undisrupted
<1>2. IterationsTypeOK /\ RowsInv'
  BY <1>1, RowsKeep DEF IterationsIInv
<1> QED
  BY <1>1, <1>2, OneEnds DEF IterationsTypeOK

LEMMA RefuseKeeps ==
  ASSUME IterationsIInv, NEW i \in Iterations, NEW a \in Attempts, RefuseSession(i, a)
  PROVE  IterationsIInv'
<1>1. UNCHANGED <<objects, versions, base, signer>> /\ Goes(i, a, Over("failed"))
  BY DEF RefuseSession, Disrupt
<1>2. IterationsTypeOK /\ RowsInv' /\ disruptions' \in Nat
  BY <1>1, RowsKeep DEF IterationsIInv, IterationsTypeOK, RefuseSession, Disrupt
<1> QED
  BY <1>1, <1>2, OneEnds DEF IterationsTypeOK

LEMMA FailCallKeeps ==
  ASSUME IterationsIInv, NEW i \in Iterations, NEW a \in Attempts, FailStoreCall(i, a)
  PROVE  IterationsIInv'
<1>1. UNCHANGED <<base, signer>>
      /\ \E pc \in {"gone", "failed"} : Goes(i, a, Over(pc))
  BY DEF FailStoreCall, Disrupt
<1>2. IterationsTypeOK /\ RowsInv /\ disruptions' \in Nat
  BY DEF IterationsIInv, IterationsTypeOK, FailStoreCall, Disrupt
<1>3. /\ versions \subseteq versions' /\ objects \subseteq objects'
      /\ versions' \subseteq Archive /\ objects' \subseteq Archive /\ RowsInv'
  <2>1. CASE /\ InPhase(i, a, "upload")
             /\ objects' = objects \union {Built(i, a)}
             /\ UNCHANGED versions
    BY <1>2, <2>1, BuiltTyped, RowsKeep DEF IterationsTypeOK, InPhase, Publishing
  <2>2. CASE /\ InPhase(i, a, "insert")
             /\ Insertable(Built(i, a))
             /\ versions' = versions \union {Built(i, a)}
             /\ UNCHANGED objects
    BY <1>2, <2>2, InsertedRows DEF IterationsTypeOK
  <2>3. CASE UNCHANGED <<objects, versions>>
    BY <1>2, <2>3, RowsKeep DEF IterationsTypeOK
  <2> QED
    BY <2>1, <2>2, <2>3 DEF FailStoreCall
<1> QED
  BY <1>1, <1>2, <1>3, OneEnds DEF IterationsTypeOK

LEMMA StopKeeps ==
  ASSUME IterationsIInv, NEW i \in Iterations, NEW a \in Attempts, StopAttempt(i, a)
  PROVE  IterationsIInv'
<1>1. UNCHANGED <<objects, versions, base, signer>> /\ Goes(i, a, Over("gone"))
  BY DEF StopAttempt, Disrupt
<1>2. IterationsTypeOK /\ RowsInv' /\ disruptions' \in Nat
  BY <1>1, RowsKeep DEF IterationsIInv, IterationsTypeOK, StopAttempt, Disrupt
<1> QED
  BY <1>1, <1>2, OneEnds DEF IterationsTypeOK

LEMMA RotateKeeps == IterationsIInv /\ RotateKey => IterationsIInv'
<1> SUFFICES ASSUME IterationsIInv, RotateKey PROVE IterationsIInv'
  OBVIOUS
<1> USE DEF RotateKey, Disrupt
<1>1. IterationsTypeOK'
  BY DEF IterationsIInv, IterationsTypeOK
<1>2. RowsInv'
  BY RowsKeep DEF IterationsIInv
<1>3. \A j \in Iterations, a \in Attempts : AttemptInv(j, a)'
  BY StandingKeeps DEF IterationsIInv
<1> QED
  BY <1>1, <1>2, <1>3 DEF IterationsIInv

LEMMA StutterKeeps == IterationsIInv /\ UNCHANGED iterationVars => IterationsIInv'
<1> SUFFICES ASSUME IterationsIInv, UNCHANGED iterationVars PROVE IterationsIInv'
  OBVIOUS
<1> USE DEF iterationVars
<1>1. IterationsTypeOK'
  BY DEF IterationsIInv, IterationsTypeOK
<1>2. RowsInv'
  BY RowsKeep DEF IterationsIInv
<1>3. \A j \in Iterations, a \in Attempts : AttemptInv(j, a)'
  BY StandingKeeps DEF IterationsIInv
<1> QED
  BY <1>1, <1>2, <1>3 DEF IterationsIInv

------------------------------------------------------------------------------
(* The theorems.                                                            *)

\* The inductive invariant holds in every reachable state.
THEOREM IterationsInvariant == IterationsSpec => []IterationsIInv
<1>1. IterationsInit => IterationsIInv
  BY InitIterations
<1>2. IterationsIInv /\ [IterationsNext]_iterationVars => IterationsIInv'
  <2> SUFFICES ASSUME IterationsIInv, [IterationsNext]_iterationVars PROVE IterationsIInv'
    OBVIOUS
  <2>1. CASE \E i \in Iterations : ConfirmIteration(i)
    BY <2>1, ConfirmKeeps
  <2>2. ASSUME NEW i \in Iterations, NEW a \in Attempts, AttemptStep(i, a)
        PROVE  IterationsIInv'
    BY <2>2, BeginKeeps, LoadKeeps, FindKeeps, NumberKeeps, DeclineKeeps, CallKeeps, UploadKeeps,
       InsertKeeps, ExamineKeeps, RenumberKeeps, FinishKeeps, RefuseKeeps, FailCallKeeps,
       StopKeeps
    DEF AttemptStep
  <2>3. CASE RotateKey
    BY <2>3, RotateKeeps
  <2>4. CASE UNCHANGED iterationVars
    BY <2>4, StutterKeeps
  <2> QED
    BY <2>1, <2>2, <2>3, <2>4 DEF IterationsNext
<1> QED
  BY <1>1, <1>2, PTL DEF IterationsSpec

\* Every row names an archive that was uploaded before it, for any number of
\* overlapping attempts, crashes and lost answers (Publish, publisher.go).
THEOREM RowsHaveObjects == IterationsSpec => []ObjectsBehindRows
<1>1. IterationsIInv => ObjectsBehindRows
  BY DEF IterationsIInv, RowsInv
<1> QED
  BY <1>1, IterationsInvariant, PTL

\* However many iterations race for the next number, a card's versions are
\* 0, 1, ..., n without a gap (NextDisplayVersion, publisher.go).
THEOREM NumbersHaveNoGap == IterationsSpec => []VersionsGapFree
<1>1. IterationsIInv => VersionsGapFree
  BY DEF IterationsIInv, RowsInv
<1> QED
  BY <1>1, IterationsInvariant, PTL

\* No chain of iterations widens the capabilities of the card (worker.go,
\* the definition inherited from the base).
THEOREM CapabilitiesStay == IterationsSpec => []CapabilitiesNeverWiden
<1>1. IterationsIInv => CapabilitiesNeverWiden
  BY DEF IterationsIInv, RowsInv
<1> QED
  BY <1>1, IterationsInvariant, PTL

\* An iteration that fails for its display version was overtaken by two others
\* (worker.go, the one recomputation).
THEOREM OneRecomputationSurvivesOne == IterationsSpec => []OvertakenTwice
<1>1. IterationsIInv => OvertakenTwice
  <2> SUFFICES ASSUME IterationsIInv, NEW i \in Iterations, NEW a \in Attempts,
                      InPhase(i, a, "overtaken")
               PROVE  \E row, other \in versions :
                        /\ row.patch < other.patch
                        /\ {row.version, other.version} \subseteq Iterations \ {i}
                        /\ {row.patch, other.patch} = run[i][a].refused
    BY DEF OvertakenTwice
  <2>1. RefusedWasTaken(i, a)
    BY DEF IterationsIInv, AttemptInv
  <2> QED
    BY <2>1 DEF RefusedWasTaken, InPhase, Publishing
<1> QED
  BY <1>1, IterationsInvariant, PTL

===============================================================================
