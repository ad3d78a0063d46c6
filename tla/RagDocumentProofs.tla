-------------------------- MODULE RagDocumentProofs --------------------------
(***************************************************************************)
(* For any number of uploads, readers and faults, and any expiry time that *)
(* is longer than a chat: the chunks in force never expire and all others  *)
(* do (OnlyCurrentIsKept), the file of the document in force is not        *)
(* deleted (CurrentKeepsFile), RagDocument implements DocumentRegister,    *)
(* and of the files and chunks that nobody serves each belongs to one      *)
(* upload under way or to one loss (LeftoversAreFaults).                   *)
(* For any length of a document and any size of chunk and overlap: the     *)
(* chunks cover it (ChunksCoverDocument).  For any similarities: a reader  *)
(* gets the best chunks in order (BestChunksFound).                        *)
(***************************************************************************)
EXTENDS RagDocument, FiniteSetTheorems, WellFoundedInduction, TLAPS

UploadPc ==
  {"new", "save", "rename", "replace", "undo", "activate", "cleanup", "accepted", "failed"}

Upload == [pc: UploadPc, size: Nat, mixed: BOOLEAN, runs: Nat, previous: Uploads \cup {NoVersion}]

\* Before its activation nobody knows an upload; the activation has run once it is over.
Early == {"new", "save", "rename", "replace", "undo"}

UploadInv ==
  /\ up \in [Uploads -> Upload]
  /\ current \in Uploads \cup {NoVersion}
  /\ ttl \in [Uploads -> 0..Forever]
  /\ \A u \in Uploads : /\ up[u].pc \in Early => up[u].runs = 0
                        /\ up[u].pc \in {"cleanup", "accepted"} => up[u].runs > 0
  /\ current # NoVersion => up[current].runs > 0
  /\ OnlyCurrentIsKept

\* The steps of an upload.
UploadStep(u) ==
  \/ Prepare(u) \/ CreateTemp(u) \/ Rename(u) \/ Replace(u) \/ Undo(u)
  \/ Activate(u) \/ Cleanup(u)

ReadStep(r) == ReadCurrent(r) \/ List(r) \/ Search(r) \/ ReadFails(r)

LEMMA Steps ==
  ASSUME [Next]_vars
  PROVE  \/ \E u \in Uploads : UploadStep(u)
         \/ \E r \in Readers : ReadStep(r)
         \/ Tick
         \/ Crash
         \/ UNCHANGED vars
BY DEF Next, UploadStep, ReadStep

\* Everything that an activation does, apart from where the upload goes on.
LEMMA SwitchIs ==
  ASSUME UploadInv, NEW u \in Uploads, NEW pc \in UploadPc, Switch(u), Switched(u, pc)
  PROVE  /\ up' \in [Uploads -> Upload]
         /\ up'[u].pc = pc /\ up'[u].runs = up[u].runs + 1 /\ up'[u].previous = current
         /\ \A v \in Uploads \ {u} : up'[v] = up[v]
         /\ current' = u
         /\ ttl' \in [Uploads -> 0..Forever]
         /\ \A v \in Uploads : ttl'[v] = Forever <=> v = u
BY RagAssumption DEF UploadInv, Upload, Switch, Switched, Forever, OnlyCurrentIsKept

LEMMA ActivateIs ==
  ASSUME NEW u \in Uploads, Activate(u)
  PROVE  /\ up[u].pc = "activate"
         /\ \/ \E pc \in {"cleanup", "activate", "failed"} : Switch(u) /\ Switched(u, pc)
            \/ UNCHANGED <<ttl, current>> /\ Goes(u, "failed")
         /\ UNCHANGED <<files, temps, read>>
BY DEF Activate

LEMMA GoesIs ==
  ASSUME UploadInv, NEW u \in Uploads, NEW pc \in UploadPc, Goes(u, pc)
  PROVE  /\ up' \in [Uploads -> Upload]
         /\ up'[u].pc = pc /\ up'[u].runs = up[u].runs /\ up'[u].previous = up[u].previous
         /\ \A v \in Uploads \ {u} : up'[v] = up[v]
BY DEF UploadInv, Upload, Goes

LEMMA PrepareIs ==
  ASSUME UploadInv, NEW u \in Uploads, Prepare(u)
  PROVE  /\ up[u].pc = "new" /\ UNCHANGED <<files, temps, ttl, current, read, lost>>
         /\ up' \in [Uploads -> Upload]
         /\ up'[u].pc \in {"save", "failed"}
         /\ up'[u].runs = up[u].runs /\ up'[u].previous = up[u].previous
         /\ \A v \in Uploads \ {u} : up'[v] = up[v]
PROOF
<1>1. CASE Goes(u, "failed")
  BY <1>1, GoesIs DEF Prepare, UploadPc
<1>2. CASE \E n \in Sizes, m \in BOOLEAN :
             up' = [up EXCEPT ![u].pc = "save", ![u].size = n, ![u].mixed = m]
  <2>1. PICK n \in Sizes, m \in BOOLEAN :
          up' = [up EXCEPT ![u].pc = "save", ![u].size = n, ![u].mixed = m]
    BY <1>2
  <2>2. up[u] \in Upload /\ n \in Nat /\ "save" \in UploadPc
    BY RagAssumption DEF UploadInv, UploadPc
  <2>3. [up[u] EXCEPT !.pc = "save", !.size = n, !.mixed = m] \in Upload
    BY <2>2 DEF Upload
  <2>4. up' = [up EXCEPT ![u] = [up[u] EXCEPT !.pc = "save", !.size = n, !.mixed = m]]
    BY <2>1 DEF UploadInv
  <2>5. up' \in [Uploads -> Upload]
    BY <2>3, <2>4 DEF UploadInv
  <2>6. /\ up'[u].pc = "save"
        /\ up'[u].runs = up[u].runs /\ up'[u].previous = up[u].previous
    BY <2>2, <2>4 DEF Upload, UploadInv
  <2>7. \A v \in Uploads \ {u} : up'[v] = up[v]
    BY <2>4 DEF UploadInv
  <2> QED
    BY <2>5, <2>6, <2>7 DEF Prepare
<1> QED
  BY <1>1, <1>2 DEF Prepare

LEMMA UploadKeepsInv ==
  ASSUME UploadInv, NEW u \in Uploads, UploadStep(u)
  PROVE  UploadInv'
PROOF
<1>1. CASE Prepare(u)
  BY <1>1, PrepareIs DEF UploadInv, Early, OnlyCurrentIsKept
<1>2. CASE CreateTemp(u) \/ Rename(u) \/ Undo(u) \/ Cleanup(u)
  <2>1. PICK pc \in {"rename", "replace", "failed", "accepted"} :
          Goes(u, pc) /\ UNCHANGED <<ttl, current>> /\ (pc # "failed" =>
            \/ up[u].pc \in {"save", "rename"} /\ pc \in {"rename", "replace"}
            \/ up[u].pc = "cleanup" /\ pc = "accepted")
    BY <1>2 DEF CreateTemp, Rename, Undo, Cleanup
  <2> QED
    BY <2>1, GoesIs DEF UploadInv, UploadPc, Early, OnlyCurrentIsKept
<1>3. CASE Replace(u)
  <2>1. up[u].pc = "replace" /\ UNCHANGED current /\ u # current
    BY <1>3, RagAssumption DEF Replace, UploadInv, Early
  <2>2. PICK pc \in {"activate", "undo"} : Goes(u, pc)
    BY <1>3 DEF Replace
  <2>3. /\ ttl' \in [Uploads -> 0..Forever]
        /\ \A v \in Uploads : ttl'[v] = Forever <=> ttl[v] = Forever
    BY <1>3, <2>1, RagAssumption
       DEF Replace, Stage, UploadInv, Forever, OnlyCurrentIsKept
  <2> QED
    BY <2>1, <2>2, <2>3, GoesIs DEF UploadInv, UploadPc, Early, OnlyCurrentIsKept
<1>4. CASE Activate(u)
  <2>1. CASE \E pc \in {"cleanup", "activate", "failed"} : Switch(u) /\ Switched(u, pc)
    BY <2>1, SwitchIs DEF UploadInv, UploadPc, Upload, Early, OnlyCurrentIsKept
  <2>2. CASE UNCHANGED <<ttl, current>> /\ Goes(u, "failed")
    BY <2>2, GoesIs DEF UploadInv, UploadPc, Early, OnlyCurrentIsKept
  <2> QED
    BY <1>4, <2>1, <2>2, ActivateIs
<1> QED
  BY <1>1, <1>2, <1>3, <1>4 DEF UploadStep

LEMMA InvStep == UploadInv /\ [Next]_vars => UploadInv'
PROOF
<1> SUFFICES ASSUME UploadInv, [Next]_vars PROVE UploadInv'
  OBVIOUS
<1>1. CASE Tick
  <2>1. /\ ttl' \in [Uploads -> 0..Forever]
        /\ \A v \in Uploads : ttl'[v] = Forever <=> ttl[v] = Forever
    BY <1>1, RagAssumption DEF Tick, UploadInv, Forever
  <2> QED
    BY <1>1, <2>1 DEF Tick, UploadInv, OnlyCurrentIsKept
<1>2. CASE Crash
  <2>1. /\ up' \in [Uploads -> Upload]
        /\ \A v \in Uploads : up'[v].runs = up[v].runs /\ up'[v].pc \in {up[v].pc, "failed"}
    BY <1>2 DEF Crash, UploadInv, Upload, UploadPc
  <2> QED
    BY <1>2, <2>1 DEF Crash, UploadInv, Early, OnlyCurrentIsKept
<1>3. ASSUME NEW r \in Readers, ReadStep(r) PROVE UploadInv'
  BY <1>3 DEF ReadStep, ReadCurrent, List, Search, ReadFails, UploadInv, OnlyCurrentIsKept
<1>4. CASE UNCHANGED vars
  BY <1>4 DEF vars, UploadInv, OnlyCurrentIsKept
<1> QED
  BY <1>1, <1>2, <1>3, <1>4, Steps, UploadKeepsInv

LEMMA InvInit == Init => UploadInv
BY RagAssumption DEF Init, NewUpload, UploadInv, Upload, UploadPc, Early, OnlyCurrentIsKept, Forever

\* Whatever uploads interleave, stop or run their activation again: the chunks in force
\* never expire, and all others do.
THEOREM CurrentIsKept == Spec => []OnlyCurrentIsKept
BY InvInit, InvStep, PTL DEF Spec, UploadInv

----------------------------------------------------------------------------
(* The file of the document in force                                       *)

\* An upload has its file until its activation ran.  The version it replaced is not in
\* force, unless that one's activation ran again.
FileInv ==
  /\ \A u \in Uploads : up[u].pc \in {"replace", "activate"} => up[u].runs > 0 \/ u \in files
  /\ \A u \in Uploads : LET p == up[u].previous IN
       p \notin {NoVersion, u} => up[p].runs > 1 \/ (up[p].runs = 1 /\ p # current)
  /\ CurrentKeepsFile

LEMMA FileStep ==
  ASSUME UploadInv, FileInv, [Next]_vars
  PROVE  FileInv'
PROOF
<1> USE DEF FileInv, CurrentKeepsFile
<1>1. CASE UNCHANGED <<files, current>>
           /\ \A v \in Uploads : /\ up'[v].pc \in {"replace", "activate"} => up'[v].pc = up[v].pc
                                 /\ up'[v].runs = up[v].runs /\ up'[v].previous = up[v].previous
  BY <1>1 DEF UploadInv, Upload
<1>2. ASSUME NEW u \in Uploads, UploadStep(u) PROVE FileInv'
  <2>1. CASE Prepare(u) \/ CreateTemp(u)
    <3>1. /\ UNCHANGED <<files, current>>
          /\ up'[u].pc \in {"save", "rename", "failed"}
          /\ up'[u].runs = up[u].runs /\ up'[u].previous = up[u].previous
          /\ \A v \in Uploads \ {u} : up'[v] = up[v]
      BY <2>1, PrepareIs, GoesIs DEF CreateTemp, UploadPc
    <3> QED
      BY <1>1, <3>1
  <2>2. CASE Rename(u)
    <3>1. PICK pc \in {"replace", "failed"} :
            Goes(u, pc) /\ UNCHANGED current /\ files \subseteq files' /\ (pc = "replace" => u \in files')
      BY <2>2 DEF Rename
    <3> QED
      BY <3>1, GoesIs DEF UploadInv, Upload, UploadPc
  <2>3. CASE Replace(u)
    <3>1. PICK pc \in {"activate", "undo"} :
            Goes(u, pc) /\ up[u].pc = "replace" /\ UNCHANGED <<files, current>>
      BY <2>3 DEF Replace
    <3> QED
      BY <3>1, GoesIs DEF UploadInv, Upload, UploadPc
  <2>4. CASE Undo(u)
    <3>1. up[u].pc = "undo" /\ Goes(u, "failed") /\ UNCHANGED current
          /\ files \ {u} \subseteq files'
      BY <2>4 DEF Undo, Delete
    <3>2. u # current
      BY <3>1, RagAssumption DEF UploadInv, Early
    <3> QED
      BY <3>1, <3>2, GoesIs DEF UploadInv, Upload, UploadPc
  <2>5. CASE Activate(u)
    <3>1. CASE \E pc \in {"cleanup", "activate", "failed"} : Switch(u) /\ Switched(u, pc)
      <4>1. PICK pc \in {"cleanup", "activate", "failed"} : Switch(u) /\ Switched(u, pc)
        BY <3>1
      <4>2. up[u].pc = "activate" /\ UNCHANGED files
        BY <2>5, ActivateIs
      <4>3. /\ up'[u].runs = up[u].runs + 1 /\ up'[u].previous = current
            /\ \A v \in Uploads \ {u} : up'[v] = up[v]
            /\ current' = u
        BY <4>1, SwitchIs DEF UploadPc
      <4>4. \A v \in Uploads : up[v].runs \in Nat
        BY DEF UploadInv, Upload
      <4>5. \A v \in Uploads : LET p == up[v].previous IN
              p \notin {NoVersion, v} => p \in Uploads /\ up[p].runs >= 1
        BY <4>4 DEF UploadInv, Upload
      <4>6. \A v \in Uploads : LET p == up'[v].previous IN
              p \notin {NoVersion, v} => up'[p].runs > 1 \/ (up'[p].runs = 1 /\ p # u)
        BY <4>3, <4>4, <4>5 DEF UploadInv
      <4> QED
        BY <4>2, <4>3, <4>4, <4>6
    <3>2. CASE UNCHANGED current /\ Goes(u, "failed")
      BY <1>1, <2>5, <3>2, ActivateIs, GoesIs DEF UploadPc
    <3> QED
      BY <2>5, <3>1, <3>2, ActivateIs
  <2>6. CASE Cleanup(u)
    <3>1. up[u].pc = "cleanup" /\ Goes(u, "accepted") /\ UNCHANGED current
      BY <2>6 DEF Cleanup
    <3>2. \/ UNCHANGED files
          \/ /\ up[u].previous \notin {NoVersion, u}
             /\ files \ {up[u].previous} \subseteq files'
      BY <2>6 DEF Cleanup, Delete
    <3> QED
      BY <3>1, <3>2, GoesIs DEF UploadInv, Upload, UploadPc
  <2> QED
    BY <1>2, <2>1, <2>2, <2>3, <2>4, <2>5, <2>6 DEF UploadStep
<1>3. ASSUME NEW r \in Readers, ReadStep(r) PROVE FileInv'
  BY <1>1, <1>3 DEF ReadStep, ReadCurrent, List, Search, ReadFails
<1>4. CASE Tick
  BY <1>1, <1>4 DEF Tick
<1>5. CASE Crash
  BY <1>1, <1>5 DEF Crash, UploadInv, Upload
<1>6. CASE UNCHANGED vars
  BY <1>1, <1>6 DEF vars
<1> QED
  BY <1>2, <1>3, <1>4, <1>5, <1>6, Steps

\* Uploads that clean up behind each other, at any pace, never delete the file of the
\* document in force, unless an activation ran twice.
THEOREM CurrentHasFile == Spec => []CurrentKeepsFile
PROOF
<1>1. Init => FileInv
  BY RagAssumption DEF Init, NewUpload, FileInv, CurrentKeepsFile
<1>2. FileInv => CurrentKeepsFile
  BY DEF FileInv
<1> QED
  BY <1>1, <1>2, InvInit, InvStep, FileStep, PTL DEF Spec

----------------------------------------------------------------------------
(* The abstract specification                                              *)

ReaderFields == {"pc", "version", "age", "score", "result"}

\* The chunks that a reader is about to read exist for as long as it may run.
ReadInv ==
  /\ DOMAIN read = Readers
  /\ \A r \in Readers :
       /\ DOMAIN read[r] = ReaderFields
       /\ read[r].pc = "current" => read[r].age = 0
       /\ read[r].pc \in {"list", "search"} =>
            /\ read[r].age \in 0..ReadTime
            /\ read[r].version \in Uploads
            /\ ttl[read[r].version] + read[r].age >= VersionTTL

LEMMA ListFinds ==
  ASSUME UploadInv, ReadInv, NEW r \in Readers, read[r].pc = "list"
  PROVE  ttl[read[r].version] # 0
BY RagAssumption DEF UploadInv, ReadInv, Forever

\* Where a reader goes in a step of its own.
LEMMA ReadIs ==
  ASSUME UploadInv, ReadInv, NEW r \in Readers, ReadStep(r)
  PROVE  /\ UNCHANGED <<up, files, temps, ttl, current, lost>>
         /\ DOMAIN read' = Readers /\ DOMAIN read'[r] = ReaderFields
         /\ \A x \in Readers \ {r} : read'[x] = read[x]
         /\ read'[r].age = read[r].age
         /\ \/ /\ read[r].pc = "current" /\ read'[r].version = current
               /\ read'[r].pc = IF current = NoVersion THEN "not_found" ELSE "list"
            \/ /\ read[r].pc = "list" /\ read'[r].pc = "search"
               /\ read'[r].version = read[r].version
            \/ /\ read[r].pc = "search" /\ read'[r].pc = "found"
               /\ read'[r].version = read[r].version
            \/ read[r].pc # "failed" /\ read'[r].pc = "failed"
PROOF
<1> USE DEF ReadInv, ReaderFields
<1>1. CASE ReadCurrent(r)
  BY <1>1 DEF ReadCurrent
<1>2. CASE List(r)
  BY <1>2, ListFinds DEF List
<1>3. CASE Search(r)
  BY <1>3 DEF Search
<1>4. CASE ReadFails(r)
  BY <1>4 DEF ReadFails
<1> QED
  BY <1>1, <1>2, <1>3, <1>4 DEF ReadStep

LEMMA UploadKeepsChunks ==
  ASSUME UploadInv, NEW u \in Uploads, UploadStep(u)
  PROVE  /\ UNCHANGED read
         /\ \A v \in Uploads : ttl'[v] >= ttl[v] \/ ttl'[v] >= VersionTTL
PROOF
<1>1. UNCHANGED read
  BY DEF UploadStep, Prepare, CreateTemp, Rename, Replace, Undo, Activate, Cleanup
<1>2. \A v \in Uploads : ttl[v] \in Int
  BY RagAssumption DEF UploadInv, Forever
<1>3. CASE Activate(u)
  BY <1>1, <1>3, RagAssumption DEF Activate, Switch, UploadInv, Forever
<1>4. CASE Replace(u)
  BY <1>1, <1>4, RagAssumption DEF Replace, Stage, UploadInv, Forever
<1>5. CASE UNCHANGED ttl
  BY <1>1, <1>2, <1>5
<1> QED
  BY <1>3, <1>4, <1>5 DEF UploadStep, Prepare, CreateTemp, Rename, Undo, Cleanup

LEMMA ReadInvStep ==
  ASSUME UploadInv, ReadInv, [Next]_vars
  PROVE  ReadInv'
PROOF
<1>1. ASSUME NEW u \in Uploads, UploadStep(u) PROVE ReadInv'
  BY <1>1, UploadKeepsChunks, InvStep, RagAssumption DEF ReadInv, UploadInv, Forever
<1>2. ASSUME NEW r \in Readers, ReadStep(r) PROVE ReadInv'
  <2>1. CASE read[r].pc = "current"
    BY <1>2, <2>1, ReadIs, RagAssumption DEF ReadInv, UploadInv, OnlyCurrentIsKept, Forever
  <2>2. CASE read[r].pc # "current"
    BY <1>2, <2>2, ReadIs DEF ReadInv
  <2> QED
    BY <2>1, <2>2
<1>3. CASE Tick
  <2>1. \A v \in Uploads : ttl'[v] + 1 >= ttl[v] /\ (ttl[v] = 0 => ttl'[v] = 0)
    BY <1>3, RagAssumption DEF Tick, UploadInv, Forever
  <2>2. /\ DOMAIN read' = Readers
        /\ \A r \in Readers \ Reading : read'[r] = read[r]
        /\ \A r \in Reading : /\ read[r].age < ReadTime
                              /\ DOMAIN read'[r] = ReaderFields
                              /\ read'[r].pc = read[r].pc
                              /\ read'[r].version = read[r].version
                              /\ read'[r].age = read[r].age + 1
    BY <1>3 DEF Tick, ReadInv, Reading, ReaderFields
  <2>3. \A v \in Uploads : ttl[v] \in Nat /\ ttl'[v] \in Nat
    BY InvStep, RagAssumption DEF UploadInv, Forever
  <2> QED
    BY <2>1, <2>2, <2>3, RagAssumption DEF ReadInv, Reading
<1>4. CASE Crash
  <2>1. /\ DOMAIN read' = Readers
        /\ \A r \in Readers \ Reading : read'[r] = read[r]
        /\ \A r \in Reading : DOMAIN read'[r] = ReaderFields /\ read'[r].pc = "failed"
    BY <1>4 DEF Crash, ReadInv, Reading, ReaderFields
  <2> QED
    BY <1>4, <2>1 DEF Crash, ReadInv, Reading
<1>5. CASE UNCHANGED vars
  BY <1>5 DEF vars, ReadInv
<1> QED
  BY <1>1, <1>2, <1>3, <1>4, <1>5, Steps

\* The variables of the register under the refinement mapping.
OutcomeOf(u) == IF up[u].pc \in {"accepted", "failed"} THEN up[u].pc
                ELSE IF up[u].pc = "undo" THEN "failed" ELSE "running"
AnswerOf(r) == CASE read[r].pc = "current" -> Asking
                 [] read[r].pc = "not_found" -> NoVersion
                 [] read[r].pc = "failed" -> Failed
                 [] OTHER -> read[r].version

LEMMA FailIsNext ==
  ASSUME NEW us \in SUBSET Uploads, NEW rs \in SUBSET Readers, Register!Fail(us),
         UNCHANGED <<current, {u \in Uploads : up[u].runs > 0}>>,
         \A r \in Readers : AnswerOf(r)' = IF r \in rs THEN Failed ELSE AnswerOf(r)
  PROVE  Register!Next
PROOF
<1>1. [r \in Readers |-> AnswerOf(r)]' =
        [r \in Readers |-> IF r \in rs THEN Failed ELSE [x \in Readers |-> AnswerOf(x)][r]]
  OBVIOUS
<1> QED
  BY <1>1, Zenon DEF Register!Next, AnswerOf

LEMMA UploadImplements ==
  ASSUME UploadInv, NEW u \in Uploads, UploadStep(u)
  PROVE  [Register!Next]_Register!vars
PROOF
<1>1. UNCHANGED read
  BY UploadKeepsChunks
<1>2. ASSUME Register!Fail({u}), UNCHANGED <<current, {x \in Uploads : up[x].runs > 0}>>
      PROVE  Register!Next
  <2> PICK us \in SUBSET Uploads, rs \in SUBSET Readers : us = {u} /\ rs = {}
    OBVIOUS
  <2>1. Register!Fail(us)
    BY <1>2
  <2>2. \A r \in Readers : AnswerOf(r)' = IF r \in rs THEN Failed ELSE AnswerOf(r)
    BY <1>1 DEF AnswerOf
  <2> QED
    BY <1>2, <2>1, <2>2, FailIsNext
<1>3. CASE Activate(u)
  <2>1. CASE \E pc \in {"cleanup", "activate", "failed"} : Switch(u) /\ Switched(u, pc)
    <3>1. PICK pc \in {"cleanup", "activate", "failed"} : Switch(u) /\ Switched(u, pc)
      BY <2>1
    <3>2. /\ up'[u].pc = pc /\ up'[u].runs = up[u].runs + 1
          /\ \A v \in Uploads \ {u} : up'[v] = up[v]
          /\ current' = u
          /\ up[u].pc = "activate" /\ up[u].runs \in Nat
      BY <1>3, <3>1, SwitchIs, ActivateIs DEF UploadPc, UploadInv, Upload
    <3>3. Register!Put(u) /\ (UNCHANGED [x \in Uploads |-> OutcomeOf(x)] \/ Register!Fail({u}))
      BY <1>1, <3>2 DEF Register!Put, Register!Fail, OutcomeOf
    <3> QED
      BY <3>3 DEF Register!Next, OutcomeOf
  <2>2. CASE UNCHANGED current /\ Goes(u, "failed")
    <3>1. Register!Fail({u})
      BY <1>3, <2>2, ActivateIs, GoesIs DEF Register!Fail, UploadPc
    <3>2. UNCHANGED {x \in Uploads : up[x].runs > 0}
      BY <2>2, GoesIs DEF UploadPc
    <3> QED
      BY <1>2, <2>2, <3>1, <3>2
  <2> QED
    BY <1>3, <2>1, <2>2, ActivateIs
<1>4. CASE ~Activate(u)
  <2>1. /\ UNCHANGED current
        /\ up'[u].runs = up[u].runs
        /\ \A v \in Uploads \ {u} : up'[v] = up[v]
        /\ \/ OutcomeOf(u) = "running" /\ up'[u].pc \in {"failed", "undo"}
           \/ UNCHANGED OutcomeOf(u)
           \/ up[u].pc = "cleanup" /\ up'[u].pc = "accepted"
    <3>1. CASE Prepare(u)
      BY <3>1, PrepareIs DEF OutcomeOf
    <3>2. CASE CreateTemp(u)
      BY <3>2, GoesIs DEF CreateTemp, OutcomeOf, UploadPc
    <3>3. CASE Rename(u)
      BY <3>3, GoesIs DEF Rename, OutcomeOf, UploadPc
    <3>4. CASE Replace(u)
      BY <3>4, GoesIs DEF Replace, OutcomeOf, UploadPc
    <3>5. CASE Undo(u)
      BY <3>5, GoesIs DEF Undo, OutcomeOf, UploadPc
    <3>6. CASE Cleanup(u)
      BY <3>6, GoesIs DEF Cleanup, OutcomeOf, UploadPc
    <3> QED
      BY <1>4, <3>1, <3>2, <3>3, <3>4, <3>5, <3>6 DEF UploadStep
  <2>2. UNCHANGED {x \in Uploads : up[x].runs > 0}
    BY <2>1
  <2>3. CASE OutcomeOf(u) = "running" /\ up'[u].pc \in {"failed", "undo"}
    <3>1. Register!Fail({u})
      BY <2>1, <2>3 DEF Register!Fail, OutcomeOf
    <3> QED
      BY <1>2, <2>1, <2>2, <3>1
  <2>4. CASE UNCHANGED OutcomeOf(u)
    BY <1>1, <2>1, <2>2, <2>4 DEF Register!vars, OutcomeOf
  <2>5. CASE up[u].pc = "cleanup" /\ up'[u].pc = "accepted"
    <3>1. Register!Accept(u)
      BY <1>1, <2>1, <2>2, <2>5 DEF Register!Accept, UploadInv
    <3> QED
      BY <3>1 DEF Register!Next
  <2> QED
    BY <2>1, <2>3, <2>4, <2>5
<1> QED
  BY <1>3, <1>4

LEMMA ReadImplements ==
  ASSUME UploadInv, ReadInv, NEW r \in Readers, ReadStep(r)
  PROVE  [Register!Next]_Register!vars
PROOF
<1>1. /\ UNCHANGED <<up, current>>
      /\ \A x \in Readers \ {r} : read'[x] = read[x]
  BY ReadIs
<1>2. CASE UNCHANGED AnswerOf(r)
  BY <1>1, <1>2 DEF Register!vars, AnswerOf
<1>3. CASE read[r].pc = "current" /\ AnswerOf(r)' = current
  <2>1. Register!Answer(r)
    BY <1>1, <1>3 DEF Register!Answer, AnswerOf
  <2> QED
    BY <2>1 DEF Register!Next
<1>4. CASE AnswerOf(r)' = Failed
  <2>1. Register!GiveUp(r)
    BY <1>1, <1>4 DEF Register!GiveUp, AnswerOf
  <2> QED
    BY <2>1 DEF Register!Next
<1> QED
  BY <1>2, <1>3, <1>4, ReadIs DEF AnswerOf

LEMMA RegisterStep ==
  ASSUME UploadInv, ReadInv, [Next]_vars
  PROVE  [Register!Next]_Register!vars
PROOF
<1>1. CASE Tick
  <2>1. \A r \in Readers : read'[r].pc = read[r].pc /\ read'[r].version = read[r].version
    BY <1>1 DEF Tick, ReadInv, ReaderFields
  <2> QED
    BY <1>1, <2>1 DEF Tick, Register!vars
<1>2. CASE Crash
  <2> PICK us \in SUBSET Uploads, rs \in SUBSET Readers :
        us = {u \in Running : up[u].pc # "undo"} /\ rs = Reading
    BY DEF Running, Reading
  <2>1. \A u \in Uploads : /\ up'[u].runs = up[u].runs
                           /\ up'[u].pc = IF u \in Running THEN "failed" ELSE up[u].pc
    BY <1>2 DEF Crash, UploadInv, Upload
  <2>2. \A r \in Readers : /\ r \notin Reading => read'[r] = read[r]
                           /\ r \in Reading => read'[r].pc = "failed"
    BY <1>2 DEF Crash, ReadInv, ReaderFields
  <2>4. Register!Fail(us)
    BY <2>1 DEF Register!Fail, Running
  <2>5. UNCHANGED <<current, {x \in Uploads : up[x].runs > 0}>>
    BY <1>2, <2>1 DEF Crash
  <2>6. \A r \in Readers : AnswerOf(r)' = IF r \in rs THEN Failed ELSE AnswerOf(r)
    BY <2>2 DEF AnswerOf
  <2> QED
    BY <2>4, <2>5, <2>6, FailIsNext
<1>3. CASE UNCHANGED vars
  BY <1>3 DEF vars, Register!vars
<1> QED
  BY <1>1, <1>2, <1>3, Steps, UploadImplements, ReadImplements

\* For any number of uploads and readers: a reader works with the document that was in
\* force at one moment of its run, whole, and an upload that failed is never put in force.
THEOREM DocumentIsRegister == Spec => ImplementsRegister
PROOF
<1>1. Init => ReadInv /\ Register!Init
  BY RagAssumption DEF Init, NewReader, NewUpload, ReadInv, ReaderFields, Register!Init
<1>2. UploadInv /\ ReadInv /\ [Next]_vars => UploadInv' /\ ReadInv'
  BY InvStep, ReadInvStep
<1> QED
  BY <1>1, <1>2, InvInit, RegisterStep, PTL DEF Spec, Register!Spec, ImplementsRegister

----------------------------------------------------------------------------
(* Leftover files                                                          *)

\* The files that are not of the document in force.
Items == ({"file"} \X (files \ {current})) \cup ({"temp"} \X temps)

\* The one file that an upload is going to remove, or to put in force.
ItemOf(u) ==
  CASE up[u].pc = "rename" -> <<"temp", u>>
    [] up[u].pc \in {"replace", "undo", "activate"} -> <<"file", u>>
    [] up[u].pc = "cleanup" /\ up[u].previous # u -> <<"file", up[u].previous>>
    [] OTHER -> <<"none", u>>

\* The files that no upload cares for any more.
Uncared == {x \in Items : \A u \in Running : ItemOf(u) # x}

LeftInv ==
  /\ lost \in Nat /\ files \subseteq Uploads
  /\ IsFiniteSet(Running)
  /\ IsFiniteSet(Uncared) /\ Cardinality(Uncared) <= lost

\* No more is left behind than before, or one more for one loss.
LEMMA LeftCounts ==
  ASSUME LeftInv, NEW n \in Nat, NEW U,
         \/ U \subseteq Uncared /\ n >= lost
         \/ \E x : U \subseteq Uncared \cup {x} /\ n = lost + 1
  PROVE  IsFiniteSet(U) /\ Cardinality(U) <= n
<1>0. IsFiniteSet(Uncared) /\ Cardinality(Uncared) \in Nat /\ lost \in Nat
      /\ Cardinality(Uncared) <= lost
  BY FS_CardinalityType DEF LeftInv
<1>1. CASE U \subseteq Uncared /\ n >= lost
  <2>1. IsFiniteSet(U) /\ Cardinality(U) \in Nat /\ Cardinality(U) <= Cardinality(Uncared)
    BY <1>0, <1>1, FS_Subset, FS_CardinalityType
  <2> QED
    BY <1>0, <1>1, <2>1
<1>2. ASSUME NEW x, U \subseteq Uncared \cup {x}, n = lost + 1
      PROVE  IsFiniteSet(U) /\ Cardinality(U) <= n
  <2>1. /\ IsFiniteSet(Uncared \cup {x})
        /\ Cardinality(Uncared \cup {x}) =
             IF x \in Uncared THEN Cardinality(Uncared) ELSE Cardinality(Uncared) + 1
    BY <1>0, FS_AddElement
  <2>2. IsFiniteSet(U) /\ Cardinality(U) <= Cardinality(Uncared \cup {x})
    BY <1>2, <2>1, FS_Subset
  <2>3. Cardinality(U) \in Nat /\ Cardinality(Uncared \cup {x}) \in Nat
    BY <2>1, <2>2, FS_CardinalityType
  <2> QED
    BY <1>0, <1>2, <2>1, <2>2, <2>3
<1> QED
  BY <1>1, <1>2

\* An upload that takes a step keeps the files of the others in their care.
LEMMA LeftByUpload ==
  ASSUME LeftInv, NEW u \in Uploads, \A v \in Uploads \ {u} : up'[v] = up[v],
         files' \subseteq Uploads, lost' \in Nat,
         \/ /\ lost' >= lost
            /\ \A x \in Items' : (x \notin Items \/ (u \in Running /\ x = ItemOf(u))) =>
                                   u \in Running' /\ x = ItemOf(u)'
         \/ /\ lost' = lost + 1
            /\ \E y : \A x \in Items' : (x \notin Items \/ (u \in Running /\ x = ItemOf(u))) => x = y
  PROVE  LeftInv'
<1>1. \A v \in Uploads \ {u} : (v \in Running' <=> v \in Running) /\ ItemOf(v)' = ItemOf(v)
  BY DEF Running, ItemOf
<1>2. Running \subseteq Uploads /\ Running' \subseteq Running \cup {u}
  BY <1>1 DEF Running
<1>3. IsFiniteSet(Running')
  <2>1. IsFiniteSet(Running \cup {u})
    BY FS_AddElement DEF LeftInv
  <2> QED
    BY <1>2, <2>1, FS_Subset
<1>4. \A x \in Uncared' : x \in Uncared \/ x \notin Items \/ (u \in Running /\ x = ItemOf(u))
  BY <1>1, <1>2 DEF Uncared
<1>5. \/ Uncared' \subseteq Uncared /\ lost' >= lost
      \/ \E y : Uncared' \subseteq Uncared \cup {y} /\ lost' = lost + 1
  BY <1>4 DEF Uncared
<1>6. PICK U : U = Uncared'
  OBVIOUS
<1>7. PICK n \in Nat : n = lost'
  OBVIOUS
<1>8. IsFiniteSet(U) /\ Cardinality(U) <= n
  BY <1>5, <1>6, <1>7, LeftCounts
<1> QED
  BY <1>3, <1>6, <1>7, <1>8 DEF LeftInv

LEMMA LeftUpload ==
  ASSUME UploadInv, LeftInv, NEW u \in Uploads, UploadStep(u)
  PROVE  LeftInv'
<1>0. lost \in Nat /\ files \subseteq Uploads /\ NoVersion \notin Uploads
  BY RagAssumption DEF LeftInv
<1>1. CASE Prepare(u)
  <2>1. /\ up[u].pc = "new" /\ UNCHANGED <<files, temps, current, lost>>
        /\ \A v \in Uploads \ {u} : up'[v] = up[v]
    BY <1>1, PrepareIs
  <2>2. Items' = Items /\ u \notin Running
    BY <2>1 DEF Items, Running
  <2> QED
    BY <1>0, <2>1, <2>2, LeftByUpload
<1>2. CASE CreateTemp(u)
  <2>1. PICK pc \in {"rename", "failed"} :
          /\ up[u].pc = "save" /\ Goes(u, pc) /\ UNCHANGED <<files, current, lost>>
          /\ temps' = IF pc = "rename" THEN temps \cup {u} ELSE temps
    BY <1>2 DEF CreateTemp
  <2>2. /\ up'[u].pc = pc
        /\ \A v \in Uploads \ {u} : up'[v] = up[v]
    BY <2>1, GoesIs DEF UploadPc
  <2>3. ItemOf(u) = <<"none", u>> /\ ItemOf(u) \notin Items'
    BY <2>1 DEF ItemOf, Items
  <2>4. \A x \in Items' : x \notin Items => pc = "rename" /\ x = <<"temp", u>>
    BY <2>1 DEF Items
  <2>5. pc = "rename" => u \in Running' /\ ItemOf(u)' = <<"temp", u>>
    BY <2>2 DEF Running, ItemOf
  <2> QED
    BY <1>0, <2>1, <2>2, <2>3, <2>4, <2>5, LeftByUpload
<1>3. CASE Rename(u)
  <2>1. PICK pc \in {"replace", "failed"} :
          /\ up[u].pc = "rename" /\ Goes(u, pc) /\ UNCHANGED <<current, lost>>
          /\ temps' = temps \ {u}
          /\ files' = IF pc = "replace" THEN files \cup {u} ELSE files
    BY <1>3 DEF Rename
  <2>2. /\ up'[u].pc = pc
        /\ \A v \in Uploads \ {u} : up'[v] = up[v]
    BY <2>1, GoesIs DEF UploadPc
  <2>3. ItemOf(u) = <<"temp", u>> /\ ItemOf(u) \notin Items'
    BY <2>1 DEF ItemOf, Items
  <2>4. \A x \in Items' : x \notin Items => pc = "replace" /\ x = <<"file", u>>
    BY <2>1 DEF Items
  <2>5. pc = "replace" => u \in Running' /\ ItemOf(u)' = <<"file", u>>
    BY <2>2 DEF Running, ItemOf
  <2>6. files' \subseteq Uploads
    BY <1>0, <2>1
  <2> QED
    BY <1>0, <2>1, <2>2, <2>3, <2>4, <2>5, <2>6, LeftByUpload
<1>4. CASE Replace(u)
  <2>1. PICK pc \in {"activate", "undo"} :
          /\ up[u].pc = "replace" /\ Goes(u, pc) /\ UNCHANGED <<files, temps, current>>
          /\ lost' \in {lost, lost + 1}
    BY <1>4 DEF Replace, Lose
  <2>2. /\ up'[u].pc = pc
        /\ \A v \in Uploads \ {u} : up'[v] = up[v]
    BY <2>1, GoesIs DEF UploadPc
  <2>3. Items' = Items /\ u \in Running' /\ ItemOf(u)' = ItemOf(u)
    BY <2>1, <2>2 DEF Items, ItemOf, Running
  <2>4. lost' \in Nat /\ lost' >= lost /\ files' \subseteq Uploads
    BY <1>0, <2>1
  <2> QED
    BY <2>2, <2>3, <2>4, LeftByUpload
<1>5. CASE Undo(u)
  <2>1. /\ up[u].pc = "undo" /\ Goes(u, "failed") /\ UNCHANGED <<temps, current>>
        /\ \/ files' = files \ {u} /\ UNCHANGED lost
           \/ UNCHANGED files /\ lost' = lost + 1
    BY <1>5 DEF Undo, Delete, Lose
  <2>2. \A v \in Uploads \ {u} : up'[v] = up[v]
    BY <2>1, GoesIs DEF UploadPc
  <2>3. ItemOf(u) = <<"file", u>> /\ Items' \subseteq Items
    BY <2>1 DEF ItemOf, Items
  <2>4. UNCHANGED lost => ItemOf(u) \notin Items'
    BY <1>0, <2>1, <2>3 DEF Items
  <2>5. lost' \in Nat /\ files' \subseteq Uploads /\ (UNCHANGED lost \/ lost' = lost + 1)
    BY <1>0, <2>1
  <2> QED
    BY <1>0, <2>2, <2>3, <2>4, <2>5, LeftByUpload
<1>6. CASE Activate(u)
  <2>0. /\ up[u].pc = "activate" /\ UNCHANGED <<files, temps>>
        /\ ItemOf(u) = <<"file", u>>
    BY <1>6 DEF Activate, ItemOf
  <2>1. ASSUME NEW pc \in {"cleanup", "activate", "failed"}, Switch(u), Switched(u, pc),
               IF pc = "cleanup" THEN UNCHANGED lost ELSE lost' = lost + 1
        PROVE  LeftInv'
    <3>1. /\ up'[u].pc = pc /\ up'[u].previous = current /\ current' = u
          /\ \A v \in Uploads \ {u} : up'[v] = up[v]
      BY <2>1, SwitchIs DEF UploadPc
    <3>2. ItemOf(u) \notin Items'
      BY <2>0, <3>1 DEF Items
    <3>3. \A x \in Items' : x \notin Items => x = <<"file", current>> /\ current # u
      BY <2>0, <3>1 DEF Items
    <3>4. pc = "cleanup" /\ current # u => u \in Running' /\ ItemOf(u)' = <<"file", current>>
      BY <3>1 DEF Running, ItemOf
    <3>5. CASE pc = "cleanup"
      BY <1>0, <2>0, <2>1, <3>1, <3>2, <3>3, <3>4, <3>5, LeftByUpload
    <3>6. CASE pc # "cleanup"
      <4>1. lost' = lost + 1 /\ lost' \in Nat
        BY <1>0, <2>1, <3>6
      <4>2. \E y : \A x \in Items' :
              (x \notin Items \/ (u \in Running /\ x = ItemOf(u))) => x = y
        BY <3>2, <3>3
      <4> QED
        BY <1>0, <2>0, <3>1, <4>1, <4>2, LeftByUpload
    <3> QED
      BY <3>5, <3>6
  <2>2. CASE UNCHANGED current /\ Goes(u, "failed") /\ lost' = lost + 1
    <3>1. \A v \in Uploads \ {u} : up'[v] = up[v]
      BY <2>2, GoesIs DEF UploadPc
    <3>2. Items' = Items
      BY <2>0, <2>2 DEF Items
    <3> QED
      BY <1>0, <2>0, <2>2, <3>1, <3>2, LeftByUpload
  <2> QED
    BY <1>6, <2>1, <2>2 DEF Activate, Lose
<1>7. CASE Cleanup(u)
  <2>1. up[u].pc = "cleanup" /\ Goes(u, "accepted") /\ UNCHANGED <<temps, current>>
    BY <1>7 DEF Cleanup
  <2>2. \A v \in Uploads \ {u} : up'[v] = up[v]
    BY <2>1, GoesIs DEF UploadPc
  <2>3. CASE up[u].previous \in {NoVersion, u}
    <3>1. UNCHANGED <<files, lost>>
      BY <1>7, <2>3 DEF Cleanup
    <3>2. ItemOf(u) \in {<<"none", u>>, <<"file", NoVersion>>}
      BY <2>1, <2>3 DEF ItemOf
    <3>3. Items' = Items /\ ItemOf(u) \notin Items
      BY <1>0, <2>1, <3>1, <3>2 DEF Items
    <3> QED
      BY <1>0, <2>2, <3>1, <3>3, LeftByUpload
  <2>4. CASE up[u].previous \notin {NoVersion, u}
    <3>1. \/ files' = files \ {up[u].previous} /\ UNCHANGED lost
          \/ UNCHANGED files /\ lost' = lost + 1
      BY <1>7, <2>4 DEF Cleanup, Delete, Lose
    <3>2. ItemOf(u) = <<"file", up[u].previous>> /\ Items' \subseteq Items
      BY <2>1, <2>4, <3>1 DEF ItemOf, Items
    <3>3. UNCHANGED lost => ItemOf(u) \notin Items'
      BY <1>0, <3>1, <3>2 DEF Items
    <3>4. lost' \in Nat /\ files' \subseteq Uploads /\ (UNCHANGED lost \/ lost' = lost + 1)
      BY <1>0, <3>1
    <3> QED
      BY <1>0, <2>2, <3>2, <3>3, <3>4, LeftByUpload
  <2> QED
    BY <2>3, <2>4
<1> QED
  BY <1>1, <1>2, <1>3, <1>4, <1>5, <1>6, <1>7 DEF UploadStep

\* The files that the uploads care for are not more than they.
LEMMA CaredFew ==
  ASSUME IsFiniteSet(Running)
  PROVE  /\ IsFiniteSet({ItemOf(u) : u \in Running})
         /\ Cardinality({ItemOf(u) : u \in Running}) <= Cardinality(Running)
<1> DEFINE T == {ItemOf(u) : u \in Running}
           f == [u \in Running |-> ItemOf(u)]
<1>1. f \in Surjection(Running, T)
  <2>1. f \in [Running -> T]
    OBVIOUS
  <2>2. \A t \in T : \E u \in Running : f[u] = t
    OBVIOUS
  <2> HIDE DEF f
  <2> QED
    BY <2>1, <2>2 DEF Surjection
<1> HIDE DEF f, T
<1>2. IsFiniteSet(T) /\ Cardinality(T) <= Cardinality(Running)
  BY <1>1, FS_Surjection
<1> QED
  BY <1>2 DEF T

LEMMA LeftCrash ==
  ASSUME UploadInv, LeftInv, Crash
  PROVE  LeftInv'
<1> DEFINE T == {ItemOf(u) : u \in Running}
<1>1. IsFiniteSet(T) /\ Cardinality(T) <= Cardinality(Running)
  BY CaredFew DEF LeftInv
<1>2. /\ IsFiniteSet(Uncared \cup T)
      /\ Cardinality(Uncared \cup T) = Cardinality(Uncared) + Cardinality(T)
                                         - Cardinality(Uncared \cap T)
  BY <1>1, FS_Union DEF LeftInv
<1>3. Uncared' \subseteq Uncared \cup T
  <2>1. Items' = Items
    BY DEF Crash, Items
  <2>2. \A x \in Items : x \in Uncared \/ x \in T
    BY DEF Uncared
  <2> QED
    BY <2>1, <2>2 DEF Uncared
<1>4. PICK U : U = Uncared'
  OBVIOUS
<1>5. IsFiniteSet(U) /\ Cardinality(U) <= Cardinality(Uncared \cup T)
  BY <1>2, <1>3, <1>4, FS_Subset
<1>6. IsFiniteSet(Uncared \cap T)
  BY <1>1, FS_Intersection
<1>7. /\ Cardinality(U) \in Nat /\ Cardinality(T) \in Nat /\ Cardinality(Uncared) \in Nat
      /\ Cardinality(Uncared \cap T) \in Nat /\ Cardinality(Running) \in Nat
      /\ Cardinality(Uncared \cup T) \in Nat
  BY <1>1, <1>2, <1>5, <1>6, FS_CardinalityType DEF LeftInv
<1>8. lost' = lost + Cardinality(Running) /\ lost \in Nat /\ Cardinality(Uncared) <= lost
  BY DEF Crash, LeftInv
<1>9. Cardinality(U) <= lost' /\ lost' \in Nat
  BY <1>1, <1>2, <1>5, <1>7, <1>8
<1>10. Running' = {}
  BY DEF Crash, Running, UploadInv, Upload
<1>11. IsFiniteSet(Running')
  BY <1>10, FS_EmptySet
<1> QED
  BY <1>4, <1>5, <1>9, <1>11 DEF LeftInv, Crash

LEMMA LeftStep == UploadInv /\ LeftInv /\ [Next]_vars => LeftInv'
<1> SUFFICES ASSUME UploadInv, LeftInv, [Next]_vars
             PROVE  LeftInv'
  OBVIOUS
<1>1. ASSUME UNCHANGED <<up, files, temps, current, lost>>
      PROVE  LeftInv'
  <2>1. Uncared' = Uncared /\ Running' = Running
    BY <1>1 DEF Uncared, Items, ItemOf, Running
  <2> QED
    BY <1>1, <2>1 DEF LeftInv
<1>2. ASSUME NEW r \in Readers, ReadStep(r)
      PROVE  LeftInv'
  BY <1>1, <1>2 DEF ReadStep, ReadCurrent, List, Search, ReadFails
<1>3. CASE Tick
  BY <1>1, <1>3 DEF Tick
<1>4. CASE UNCHANGED vars
  BY <1>1, <1>4 DEF vars
<1> QED
  BY <1>2, <1>3, <1>4, Steps, LeftUpload, LeftCrash

\* Files that are not of the document in force: one for each upload that is under way, and
\* one for each reply, cleanup or upload that was lost.
THEOREM LeftoversAreFew == Spec => []LeftoversAreFaults
<1>1. Init => LeftInv
  <2> SUFFICES ASSUME Init
               PROVE  LeftInv
    OBVIOUS
  <2>1. Running = {} /\ Uncared = {}
    BY DEF Init, NewUpload, Running, Uncared, Items
  <2> QED
    BY <2>1, FS_EmptySet DEF Init, LeftInv
<1>2. LeftInv => LeftoversAreFaults
  <2> SUFFICES ASSUME LeftInv
               PROVE  LeftoversAreFaults
    OBVIOUS
  <2> DEFINE T == {ItemOf(u) : u \in Running}
             L == files \ {current}
             F == {"file"} \X L
             G == {"temp"} \X temps
  <2>1. /\ IsFiniteSet(T) /\ Cardinality(T) <= Cardinality(Running)
        /\ IsFiniteSet(Uncared) /\ IsFiniteSet(Running)
    BY CaredFew DEF LeftInv
  <2>2. /\ IsFiniteSet(Uncared \cup T)
        /\ Cardinality(Uncared \cup T) = Cardinality(Uncared) + Cardinality(T)
                                           - Cardinality(Uncared \cap T)
    BY <2>1, FS_Union
  <2>3. Items = F \cup G /\ Items \subseteq Uncared \cup T
    BY DEF Items, Uncared
  <2>4. F \cap G = {}
    OBVIOUS
  <2> DEFINE inF == [x \in L |-> <<"file", x>>]
             inG == [x \in temps |-> <<"temp", x>>]
  <2>5. inF \in Injection(L, F) /\ inG \in Injection(temps, G)
    <3>1. inF \in [L -> F] /\ inG \in [temps -> G]
      OBVIOUS
    <3>2. \A a, b \in L : inF[a] = inF[b] => a = b
      OBVIOUS
    <3>3. \A a, b \in temps : inG[a] = inG[b] => a = b
      OBVIOUS
    <3> HIDE DEF inF, inG, F, G, L
    <3> QED
      BY <3>1, <3>2, <3>3 DEF Injection, IsInjective
  <2> HIDE DEF inF, inG, F, G, L, T
  <2>6. IsFiniteSet(Items) /\ Cardinality(Items) <= Cardinality(Uncared \cup T)
    BY <2>2, <2>3, FS_Subset
  <2>7. IsFiniteSet(F) /\ IsFiniteSet(G)
    BY <2>3, <2>6, FS_Subset
  <2>8. Cardinality(Items) = Cardinality(F) + Cardinality(G) - Cardinality(F \cap G)
    BY <2>3, <2>7, FS_Union
  <2>9. Cardinality(F \cap G) = 0
    BY <2>4, FS_EmptySet
  <2>10. /\ IsFiniteSet(L) /\ Cardinality(L) <= Cardinality(F)
         /\ IsFiniteSet(temps) /\ Cardinality(temps) <= Cardinality(G)
    BY <2>5, <2>7, FS_Injection
  <2>11. IsFiniteSet(Uncared \cap T)
    BY <2>1, FS_Intersection
  <2>12. /\ Cardinality(L) \in Nat /\ Cardinality(temps) \in Nat
         /\ Cardinality(F) \in Nat /\ Cardinality(G) \in Nat /\ Cardinality(T) \in Nat
         /\ Cardinality(Items) \in Nat /\ Cardinality(Uncared \cup T) \in Nat
         /\ Cardinality(Uncared) \in Nat /\ Cardinality(Running) \in Nat
         /\ Cardinality(Uncared \cap T) \in Nat
    BY <2>1, <2>2, <2>6, <2>7, <2>10, <2>11, FS_CardinalityType
  <2>13. Cardinality(Uncared) <= lost /\ lost \in Nat
    BY DEF LeftInv
  <2>14. Cardinality(L) + Cardinality(temps) <= Cardinality(Running) + lost
    BY <2>1, <2>2, <2>6, <2>8, <2>9, <2>10, <2>12, <2>13
  <2> QED
    BY <2>14 DEF LeftoversAreFaults, L
<1> QED
  BY <1>1, <1>2, InvInit, InvStep, LeftStep, PTL DEF Spec

----------------------------------------------------------------------------
(* The splitter                                                            *)

LEMMA SmallestOf ==
  ASSUME NEW T, T \subseteq Nat, T # {}
  PROVE  \E m \in T : \A n \in T : m <= n
<1> DEFINE R == {p \in Nat \X Nat : p[1] < p[2]}
<1>1. IsWellFoundedOn(R, Nat)
    BY NatLessThanWellFounded DEF OpToRel
<1>2. PICK m \in T : \A n \in T : <<n, m>> \notin R
    BY <1>1, WFMin
<1>3. \A n \in T : ~(n < m)
    BY <1>2
<1> QED BY <1>3

\* Where the chunk that starts at s ends.
EndOf(t, s) == IF t <= s + ChunkSize THEN t ELSE s + ChunkSize

LEMMA MinIs ==
  ASSUME NEW t \in Nat, NEW s \in Nat
  PROVE  Min({t, s + ChunkSize}) = EndOf(t, s)
<1> DEFINE S == {t, s + ChunkSize}
<1>0. ChunkSize \in Nat
    BY RagAssumption
<1>1. EndOf(t, s) \in S /\ \A y \in S : EndOf(t, s) <= y
    BY <1>0 DEF EndOf
<1>2. \A x \in S : (\A y \in S : x <= y) => x = EndOf(t, s)
    BY <1>0, <1>1
<1> QED BY <1>1, <1>2 DEF Min

\* The chunks from s on, if f has those of the later starts.
From(t, f, s) ==
  IF s = t THEN <<>>
  ELSE << <<s, EndOf(t, s)>> >> \o
       (IF EndOf(t, s) = t THEN <<>> ELSE f[s + ChunkSize - Overlap])

LEMMA LaterStart ==
  ASSUME NEW t \in Nat, NEW s \in 0..t, s # t, EndOf(t, s) # t
  PROVE  /\ EndOf(t, s) = s + ChunkSize /\ s + ChunkSize < t
         /\ s + ChunkSize - Overlap \in (s + 1)..t
BY RagAssumption DEF EndOf

Splits(t, f, m) == f = [s \in m..t |-> From(t, f, s)]

LEMMA SplitExists ==
  ASSUME NEW t \in Nat
  PROVE  \E f : Splits(t, f, 0)
<1> DEFINE T == {m \in 0..t : \E f : Splits(t, f, m)}
<1>1. t \in T
  <2> DEFINE f == [s \in t..t |-> <<>>]
  <2>1. Splits(t, f, t)
      BY DEF Splits, From
  <2> QED BY <2>1
<1>2. T \subseteq Nat /\ T # {}
    BY <1>1
<1> HIDE DEF T
<1>3. PICK m \in T : \A n \in T : m <= n
    BY <1>2, SmallestOf
<1>4. m \in 0..t /\ \E f : Splits(t, f, m)
    BY DEF T
<1>5. PICK f : Splits(t, f, m)
    BY <1>4
<1>6. ASSUME m # 0
      PROVE  FALSE
  <2> DEFINE g == [s \in (m - 1)..t |-> IF s = m - 1 THEN From(t, f, s) ELSE f[s]]
  <2>1. m - 1 \in 0..t /\ m - 1 \in Nat
      BY <1>4, <1>6
  <2>2. \A s \in m..t : g[s] = f[s] /\ f[s] = From(t, f, s)
      BY <1>4, <1>5 DEF Splits
  <2>3. ASSUME NEW s \in (m - 1)..t
        PROVE  From(t, g, s) = From(t, f, s)
    <3>0. s \in 0..t
        BY <2>1
    <3>1. CASE s = t \/ EndOf(t, s) = t
        BY <3>1 DEF From
    <3>2. CASE s # t /\ EndOf(t, s) # t
      <4>1. s + ChunkSize - Overlap \in m..t
          BY <3>0, <3>2, LaterStart, <1>4
      <4>2. g[s + ChunkSize - Overlap] = f[s + ChunkSize - Overlap]
          BY <4>1, <2>2
      <4> HIDE DEF g
      <4> QED BY <4>2 DEF From
    <3> QED BY <3>1, <3>2
  <2>4. \A s \in (m - 1)..t : g[s] = From(t, g, s)
    <3>1. ASSUME NEW s \in (m - 1)..t
          PROVE  g[s] = From(t, f, s)
      <4>1. CASE s = m - 1
          BY <4>1
      <4>2. CASE s # m - 1
        <5>1. s \in m..t
            BY <4>2, <1>4
        <5> QED BY <5>1, <2>2
      <4> QED BY <4>1, <4>2
    <3> HIDE DEF g
    <3> QED BY <3>1, <2>3
  <2>5. g = [s \in (m - 1)..t |-> g[s]]
      OBVIOUS
  <2> HIDE DEF g
  <2>6. Splits(t, g, m - 1)
      BY <2>4, <2>5 DEF Splits
  <2>7. m - 1 \in T
      BY <2>1, <2>6 DEF T
  <2> QED BY <2>7, <1>3, <1>4
<1> QED BY <1>5, <1>6

LEMMA SplitTextIs ==
  ASSUME NEW t \in Nat
  PROVE  \E f : Splits(t, f, 0) /\ SplitText(t) = f[0]
<1> DEFINE G(f) == [start \in 0..t |->
        LET end == Min({t, start + ChunkSize})
        IN  IF start = t THEN <<>>
            ELSE << <<start, end>> >> \o
                 (IF end = t THEN <<>> ELSE f[start + ChunkSize - Overlap])]
<1> DEFINE h == CHOOSE f : f = G(f)
<1>1. SplitText(t) = h[0]
    BY DEF SplitText
<1>2. \A f : G(f) = [s \in 0..t |-> From(t, f, s)]
    BY MinIs DEF From
<1> HIDE DEF G
<1>3. \E f : f = G(f)
    BY SplitExists, <1>2 DEF Splits
<1>4. h = G(h)
    BY <1>3
<1> HIDE DEF h
<1> QED BY <1>1, <1>2, <1>4 DEF Splits

\* What ChunksCoverDocument asks of the chunks c of a text from s on.
Covers(t, s, c) ==
  /\ c \in Seq(Nat \X Nat) /\ Len(c) > 0
  /\ c[1] = <<s, EndOf(t, s)>> /\ c[Len(c)][2] = t
  /\ \A i \in DOMAIN c : c[i][1] < c[i][2] /\ c[i][2] - c[i][1] <= ChunkSize
  /\ \A i \in 1..(Len(c) - 1) : c[i + 1][1] = c[i][2] - Overlap /\ c[i][2] < c[i + 1][2]

LEMMA FirstChunk ==
  ASSUME NEW t \in Nat, NEW s \in 0..t, s # t
  PROVE  /\ EndOf(t, s) \in Nat /\ s < EndOf(t, s) /\ EndOf(t, s) <= t
         /\ EndOf(t, s) - s <= ChunkSize
         /\ <<s, EndOf(t, s)>> \in Nat \X Nat
BY RagAssumption DEF EndOf

LEMMA LastCovers ==
  ASSUME NEW t \in Nat, NEW s \in 0..t, s # t, EndOf(t, s) = t
  PROVE  Covers(t, s, << <<s, EndOf(t, s)>> >> \o <<>>)
<1> DEFINE c == << <<s, EndOf(t, s)>> >> \o <<>>
<1>1. c = << <<s, EndOf(t, s)>> >>
    OBVIOUS
<1>2. c \in Seq(Nat \X Nat) /\ Len(c) = 1 /\ DOMAIN c = {1} /\ c[1] = <<s, EndOf(t, s)>>
    BY <1>1, FirstChunk
<1> HIDE DEF c
<1> QED BY <1>2, FirstChunk DEF Covers

LEMMA NextCovers ==
  ASSUME NEW t \in Nat, NEW s \in 0..t, s # t, EndOf(t, s) # t,
         NEW d, Covers(t, s + ChunkSize - Overlap, d)
  PROVE  Covers(t, s, << <<s, EndOf(t, s)>> >> \o d)
<1> DEFINE x == <<s, EndOf(t, s)>>
           n == s + ChunkSize - Overlap
           c == <<x>> \o d
<1>1. d \in Seq(Nat \X Nat) /\ Len(d) \in Nat /\ Len(d) > 0 /\ DOMAIN d = 1..Len(d)
    BY DEF Covers
<1>2. x \in Nat \X Nat /\ x[1] = s /\ x[2] = EndOf(t, s)
    BY FirstChunk
<1>3. /\ c \in Seq(Nat \X Nat) /\ Len(c) = Len(d) + 1 /\ DOMAIN c = 1..(Len(d) + 1)
      /\ c[1] = x /\ \A i \in 1..Len(d) : c[i + 1] = d[i]
    BY <1>1, <1>2
<1>3b. \A i \in 1..(Len(d) + 1) : i # 1 => i - 1 \in 1..Len(d) /\ c[i] = d[i - 1]
  <2> SUFFICES ASSUME NEW i \in 1..(Len(d) + 1), i # 1
               PROVE  i - 1 \in 1..Len(d) /\ c[i] = d[i - 1]
      OBVIOUS
  <2>1. i - 1 \in 1..Len(d) /\ (i - 1) + 1 = i
      BY <1>1
  <2>2. c[(i - 1) + 1] = d[i - 1]
      BY <2>1, <1>3
  <2> QED BY <2>1, <2>2
<1>4. n \in 0..t /\ n = EndOf(t, s) - Overlap /\ EndOf(t, s) < t /\ EndOf(t, s) < n + ChunkSize
      /\ n + ChunkSize \in Nat /\ EndOf(t, s) \in Nat
    BY LaterStart, RagAssumption
<1>5. d[1] = <<n, EndOf(t, n)>> /\ EndOf(t, s) < EndOf(t, n)
    BY <1>4 DEF Covers, EndOf
<1> HIDE DEF c, n, x
<1>6. Len(c) > 0 /\ c[Len(c)] = d[Len(d)]
  <2>1. Len(d) \in 1..Len(d) /\ Len(c) = Len(d) + 1
      BY <1>1, <1>3
  <2>2. c[Len(d) + 1] = d[Len(d)]
      BY <2>1, <1>3
  <2> QED BY <2>1, <2>2, <1>1
<1>7. d[Len(d)][2] = t
    BY DEF Covers, n
<1>8. ASSUME NEW i \in DOMAIN c
      PROVE  c[i][1] < c[i][2] /\ c[i][2] - c[i][1] <= ChunkSize
  <2>1. CASE i = 1
      BY <2>1, <1>3, <1>2, FirstChunk
  <2>2. CASE i # 1
    <3>1. i \in 1..(Len(d) + 1)
        BY <1>3
    <3>2. i - 1 \in DOMAIN d /\ c[i] = d[i - 1]
        BY <3>1, <2>2, <1>1, <1>3b
    <3>3. d[i - 1][1] < d[i - 1][2] /\ d[i - 1][2] - d[i - 1][1] <= ChunkSize
        BY <3>2 DEF Covers
    <3> QED BY <3>2, <3>3
  <2> QED BY <2>1, <2>2
<1>9. ASSUME NEW i \in 1..(Len(c) - 1)
      PROVE  c[i + 1][1] = c[i][2] - Overlap /\ c[i][2] < c[i + 1][2]
  <2>0. i \in 1..Len(d)
    <3>1. Len(c) - 1 = Len(d)
        BY <1>1, <1>3
    <3> QED BY <3>1
  <2>1. CASE i = 1
    <3>1. c[2] = d[1]
        BY <1>1, <1>3, 1 \in 1..Len(d), 1 + 1 = 2
    <3>2. c[2][1] = n /\ c[2][2] = EndOf(t, n)
        BY <3>1, <1>5
    <3>3. c[1][2] = EndOf(t, s)
        BY <1>2, <1>3
    <3> QED BY <2>1, <3>2, <3>3, <1>4, <1>5
  <2>2. CASE i # 1
    <3>1. i \in 1..(Len(d) + 1)
        BY <2>0, <1>1
    <3>2. c[i] = d[i - 1] /\ i - 1 \in 1..Len(d)
        BY <3>1, <2>2, <1>3b
    <3>3. c[i + 1] = d[i]
        BY <2>0, <1>3
    <3>4. i - 1 \in 1..(Len(d) - 1) /\ (i - 1) + 1 = i
        BY <2>0, <2>2, <1>1
    <3>5. d[(i - 1) + 1][1] = d[i - 1][2] - Overlap /\ d[i - 1][2] < d[(i - 1) + 1][2]
        BY <3>4 DEF Covers
    <3> QED BY <3>2, <3>3, <3>4, <3>5
  <2> QED BY <2>1, <2>2
<1>10. c[1] = <<s, EndOf(t, s)>>
    BY <1>3 DEF x
<1>11. Covers(t, s, c)
    BY <1>3, <1>6, <1>7, <1>8, <1>9, <1>10 DEF Covers
<1> QED BY <1>11 DEF c, x

\* The chunks from any start on cover the rest: the later the start the fewer there are, so
\* a start that is wrong would have a last one.
LEMMA SplitCovers ==
  ASSUME NEW t \in Nat, NEW f, Splits(t, f, 0), NEW s \in 0..t, s # t
  PROVE  Covers(t, s, f[s])
<1> DEFINE T == {n \in 1..t : ~Covers(t, t - n, f[t - n])}
<1>1. ASSUME T # {}
      PROVE  FALSE
  <2>1. T \subseteq Nat
      OBVIOUS
  <2> HIDE DEF T
  <2>2. PICK n \in T : \A k \in T : n <= k
      BY <1>1, <2>1, SmallestOf
  <2>3. n \in 1..t /\ ~Covers(t, t - n, f[t - n])
      BY <2>2 DEF T
  <2> DEFINE r == t - n
  <2>4. r \in 0..t /\ r # t /\ r \in Nat
      BY <2>3
  <2>5. f[r] = << <<r, EndOf(t, r)>> >> \o
               (IF EndOf(t, r) = t THEN <<>> ELSE f[r + ChunkSize - Overlap])
      BY <2>4 DEF Splits, From
  <2>6. CASE EndOf(t, r) = t
      BY <2>3, <2>4, <2>5, <2>6, LastCovers
  <2>7. CASE EndOf(t, r) # t
    <3> DEFINE q == r + ChunkSize - Overlap
    <3>1. q \in (r + 1)..t /\ q # t
        BY <2>4, <2>7, LaterStart, RagAssumption
    <3>2. t - q \in 1..t /\ t - q < n /\ t - (t - q) = q
        BY <3>1, <2>3
    <3>3. t - q \notin T
        BY <3>2, <2>2, <2>3
    <3>4. Covers(t, q, f[q])
        BY <3>2, <3>3 DEF T
    <3> QED BY <2>3, <2>4, <2>5, <2>7, <3>4, NextCovers
  <2> QED BY <2>6, <2>7
<1>2. t - s \in 1..t /\ t - (t - s) = s
    OBVIOUS
<1> QED BY <1>1, <1>2

LEMMA SplitTextCovers ==
  ASSUME NEW t \in Nat \ {0}
  PROVE  Covers(t, 0, SplitText(t))
<1>1. PICK f : Splits(t, f, 0) /\ SplitText(t) = f[0]
    BY SplitTextIs
<1> QED BY <1>1, SplitCovers

LEMMA SplitTextLength ==
  ASSUME NEW t \in Nat
  PROVE  Len(SplitText(t)) \in Nat
<1>1. CASE t # 0
    BY <1>1, SplitTextCovers DEF Covers
<1>2. CASE t = 0
  <2>1. PICK f : Splits(t, f, 0) /\ SplitText(t) = f[0]
      BY SplitTextIs
  <2>2. f[0] = <<>>
      BY <1>2, <2>1 DEF Splits, From
  <2> QED BY <2>1, <2>2
<1> QED BY <1>1, <1>2

\* The chunks of every text cover it: whatever the sizes of chunk and overlap, the loop
\* of SplitText neither skips nor repeats text, and ends with the last of it.
THEOREM ChunksCover == Spec => []ChunksCoverDocument
<1>1. UploadInv => ChunksCoverDocument
  <2> SUFFICES ASSUME UploadInv, NEW u \in Uploads, up[u].size > 0
               PROVE  LET c == ChunksOf(u) IN
                      /\ c[1][1] = 0 /\ c[Len(c)][2] = up[u].size
                      /\ \A i \in DOMAIN c : c[i][1] < c[i][2] /\ c[i][2] - c[i][1] <= ChunkSize
                      /\ \A i \in 1..(Len(c) - 1) :
                           c[i + 1][1] = c[i][2] - Overlap /\ c[i][2] < c[i + 1][2]
      BY DEF ChunksCoverDocument
  <2>1. up[u].size \in Nat \ {0}
      BY DEF UploadInv, Upload
  <2>2. Covers(up[u].size, 0, ChunksOf(u))
      BY <2>1, SplitTextCovers DEF ChunksOf
  <2> QED BY <2>2 DEF Covers
<1> QED BY <1>1, InvInit, InvStep, PTL DEF Spec

----------------------------------------------------------------------------
(* The search                                                              *)

Ahead(score, i, j) == score[i] > score[j] \/ (score[i] = score[j] /\ i < j)

Rank(score, i) == Cardinality(AheadOf(score, i))

LEMMA AheadOfIs ==
  ASSUME NEW n \in Nat, NEW score \in [1..n -> Int], NEW i \in 1..n
  PROVE  /\ AheadOf(score, i) = {j \in 1..n : Ahead(score, j, i)}
         /\ AheadOf(score, i) \subseteq (1..n) \ {i}
         /\ IsFiniteSet(AheadOf(score, i))
         /\ Rank(score, i) \in 0..(n - 1)
<1>1. DOMAIN score = 1..n
    OBVIOUS
<1>2. AheadOf(score, i) = {j \in 1..n : Ahead(score, j, i)}
    BY <1>1 DEF AheadOf, Ahead
<1>3. AheadOf(score, i) \in SUBSET ((1..n) \ {i})
    BY <1>2 DEF Ahead
<1>4. IsFiniteSet(1..n) /\ Cardinality(1..n) = n
    BY FS_Interval
<1>5. IsFiniteSet((1..n) \ {i}) /\ Cardinality((1..n) \ {i}) = n - 1
    BY <1>4, FS_RemoveElement
<1>6. IsFiniteSet(AheadOf(score, i)) /\ Cardinality(AheadOf(score, i)) <= n - 1
    BY <1>3, <1>5, FS_Subset
<1>7. Cardinality(AheadOf(score, i)) \in Nat
    BY <1>6, FS_CardinalityType
<1> QED BY <1>2, <1>3, <1>6, <1>7 DEF Rank

\* The rank of a chunk grows along the order.
LEMMA RankGrows ==
  ASSUME NEW n \in Nat, NEW score \in [1..n -> Int], NEW i \in 1..n, NEW j \in 1..n,
         Ahead(score, i, j)
  PROVE  Rank(score, i) < Rank(score, j)
<1>1. i \notin AheadOf(score, i)
    BY AheadOfIs
<1>2. AheadOf(score, i) \cup {i} \in SUBSET AheadOf(score, j)
  <2>1. score[i] \in Int /\ score[j] \in Int /\ \A x \in 1..n : score[x] \in Int
      OBVIOUS
  <2>2. \A x \in 1..n : Ahead(score, x, i) => Ahead(score, x, j)
      BY <2>1 DEF Ahead
  <2>3. /\ AheadOf(score, i) = {x \in 1..n : Ahead(score, x, i)}
        /\ AheadOf(score, j) = {x \in 1..n : Ahead(score, x, j)}
      BY AheadOfIs
  <2> QED BY <2>2, <2>3
<1>3. /\ IsFiniteSet(AheadOf(score, i) \cup {i})
      /\ Cardinality(AheadOf(score, i) \cup {i}) = Rank(score, i) + 1
    BY <1>1, AheadOfIs, FS_AddElement DEF Rank
<1>4. IsFiniteSet(AheadOf(score, j))
    BY AheadOfIs
<1>5. Cardinality(AheadOf(score, i) \cup {i}) <= Rank(score, j)
    BY <1>2, <1>4, FS_Subset DEF Rank
<1>6. Rank(score, i) \in Nat /\ Rank(score, j) \in Nat
    BY AheadOfIs
<1> QED BY <1>3, <1>5, <1>6

LEMMA RanksDiffer ==
  ASSUME NEW n \in Nat, NEW score \in [1..n -> Int], NEW i \in 1..n, NEW j \in 1..n, i # j
  PROVE  /\ Ahead(score, i, j) \/ Ahead(score, j, i)
         /\ Rank(score, i) # Rank(score, j)
         /\ Rank(score, i) < Rank(score, j) => Ahead(score, i, j)
<1>1. Ahead(score, i, j) \/ Ahead(score, j, i)
  <2>1. score[i] \in Int /\ score[j] \in Int
      OBVIOUS
  <2> QED BY <2>1 DEF Ahead
<1>2. Rank(score, i) \in Nat /\ Rank(score, j) \in Nat
    BY AheadOfIs
<1>3. /\ Ahead(score, i, j) => Rank(score, i) < Rank(score, j)
      /\ Ahead(score, j, i) => Rank(score, j) < Rank(score, i)
    BY RankGrows
<1> QED BY <1>1, <1>2, <1>3

\* There is a chunk of every rank: n chunks cannot share n - 1 ranks.
LEMMA RankTaken ==
  ASSUME NEW n \in Nat, NEW score \in [1..n -> Int], NEW k \in 0..(n - 1)
  PROVE  \E i \in 1..n : Rank(score, i) = k
<1>1. SUFFICES ASSUME \A i \in 1..n : Rank(score, i) # k
               PROVE  FALSE
    OBVIOUS
<1> DEFINE S == 1..n
           U == 0..(n - 1)
           T == U \ {k}
           f == [i \in S |-> Rank(score, i)]
<1>2. f \in [S -> T]
    BY <1>1, AheadOfIs
<1>3. IsFiniteSet(S) /\ Cardinality(S) = n
    BY FS_Interval
<1>4. IsFiniteSet(U) /\ Cardinality(U) = n /\ k \in U
    BY FS_Interval
<1> HIDE DEF S, U
<1>5. IsFiniteSet(T) /\ Cardinality(T) = n - 1
    BY <1>4, FS_RemoveElement
<1>6. Cardinality(T) < Cardinality(S)
    BY <1>3, <1>5
<1> HIDE DEF T, f
<1>7. \E x, y \in S : x # y /\ f[x] = f[y]
    BY <1>2, <1>3, <1>5, <1>6, FS_PigeonHole
<1>8. PICK x \in S, y \in S : x # y /\ f[x] = f[y]
    BY <1>7
<1>9. Rank(score, x) = Rank(score, y)
    BY <1>8 DEF f
<1> QED BY <1>8, <1>9, RanksDiffer DEF S

LEMMA MinOfTopK ==
  ASSUME NEW n \in Nat
  PROVE  Min({TopK, n}) = IF TopK <= n THEN TopK ELSE n
<1> DEFINE m == IF TopK <= n THEN TopK ELSE n
           S == {TopK, n}
<1>0. TopK \in Nat
    BY RagAssumption
<1>1. m \in S /\ \A y \in S : m <= y
    BY <1>0
<1>2. \A x \in S : (\A y \in S : x <= y) => x = m
    BY <1>0, <1>1
<1> QED BY <1>1, <1>2 DEF Min

LEMMA SearchRanks ==
  ASSUME NEW n \in Nat, NEW score \in [1..n -> Int]
  PROVE  LET res == SearchSimilar(score)
             k == Min({TopK, n})
         IN  /\ k \in Nat /\ k <= n /\ (k = 0 => n = 0)
             /\ Len(res) = k /\ DOMAIN res = 1..k
             /\ \A a \in 1..k : res[a] \in 1..n /\ Rank(score, res[a]) = a - 1
<1> DEFINE k == Min({TopK, n})
           res == SearchSimilar(score)
<1>1. k \in Nat /\ k <= n /\ (k = 0 => n = 0)
    BY MinOfTopK, RagAssumption
<1>2. Len(score) = n /\ DOMAIN score = 1..n
    OBVIOUS
<1>3. res = [a \in 1..k |-> CHOOSE i \in 1..n : Rank(score, i) = a - 1]
    BY <1>2 DEF SearchSimilar, Rank
<1> HIDE DEF k, res
<1>4. ASSUME NEW a \in 1..k
      PROVE  res[a] \in 1..n /\ Rank(score, res[a]) = a - 1
  <2>1. a - 1 \in 0..(n - 1)
      BY <1>1
  <2>2. \E i \in 1..n : Rank(score, i) = a - 1
      BY <2>1, RankTaken
  <2>3. res[a] = CHOOSE i \in 1..n : Rank(score, i) = a - 1
      BY <1>3
  <2> QED BY <2>2, <2>3
<1>5. Len(res) = k /\ DOMAIN res = 1..k
    BY <1>1, <1>3
<1> QED BY <1>1, <1>4, <1>5 DEF k, res

\* What is returned is sorted, and comes before what is not.
LEMMA SearchFindsBest ==
  ASSUME NEW n \in Nat, NEW score \in [1..n -> Int]
  PROVE  LET res == SearchSimilar(score)
         IN  /\ Len(res) = Min({TopK, n})
             /\ \A a \in 1..(Len(res) - 1) : Ahead(score, res[a], res[a + 1])
             /\ \A j \in DOMAIN score \ ToSet(res) : Ahead(score, res[Len(res)], j)
<1> DEFINE k == Min({TopK, n})
           res == SearchSimilar(score)
<1>1. /\ k \in Nat /\ k <= n /\ (k = 0 => n = 0)
      /\ Len(res) = k /\ DOMAIN res = 1..k
      /\ \A a \in 1..k : res[a] \in 1..n /\ Rank(score, res[a]) = a - 1
    BY SearchRanks
<1> HIDE DEF k, res
<1>2. ASSUME NEW a \in 1..(Len(res) - 1)
      PROVE  Ahead(score, res[a], res[a + 1])
  <2>1. a \in 1..k /\ a + 1 \in 1..k
      BY <1>1
  <2>2. /\ res[a] \in 1..n /\ Rank(score, res[a]) = a - 1
        /\ res[a + 1] \in 1..n /\ Rank(score, res[a + 1]) = a
      BY <1>1, <2>1
  <2>3. res[a] # res[a + 1] /\ Rank(score, res[a]) < Rank(score, res[a + 1])
      BY <2>1, <2>2
  <2> QED BY <2>2, <2>3, RanksDiffer
<1>3. ASSUME NEW j \in DOMAIN score \ ToSet(res)
      PROVE  Ahead(score, res[Len(res)], j)
  <2>1. j \in 1..n /\ \A a \in 1..k : res[a] # j
      BY <1>1 DEF ToSet
  <2>2. Rank(score, j) \in 0..(n - 1)
      BY <2>1, AheadOfIs
  <2>3. ASSUME Rank(score, j) < k
        PROVE  FALSE
    <3>1. Rank(score, j) + 1 \in 1..k
      <4>1. Rank(score, j) \in Nat /\ k \in Nat
          BY <2>2, <1>1
      <4> QED BY <4>1, <2>3
    <3>2. PICK a \in 1..k : a = Rank(score, j) + 1
        BY <3>1
    <3>3. res[a] \in 1..n /\ Rank(score, res[a]) = Rank(score, j) /\ res[a] # j
        BY <3>2, <1>1, <2>1, <2>2
    <3> QED BY <3>3, <2>1, RanksDiffer
  <2>4. k \in 1..k
      BY <1>1, <2>1
  <2>5. res[k] \in 1..n /\ Rank(score, res[k]) = k - 1 /\ res[k] # j
      BY <1>1, <2>1, <2>4
  <2>6. Rank(score, res[k]) < Rank(score, j)
      BY <1>1, <2>2, <2>3, <2>5
  <2>7. Ahead(score, res[k], j)
      BY <2>1, <2>5, <2>6, RanksDiffer
  <2> QED BY <2>7, <1>1
<1> QED BY <1>1, <1>2, <1>3 DEF k, res

----------------------------------------------------------------------------
(* The chunks that are found                                               *)

\* What a reader found is what the search returns for the similarities of its document,
\* which does not change any more.
FoundInv ==
  /\ DOMAIN read = Readers
  /\ \A r \in Readers :
       /\ DOMAIN read[r] = ReaderFields
       /\ read[r].pc \in {"list", "search", "found"} =>
            read[r].version \in Uploads /\ up[read[r].version].runs > 0
       /\ read[r].pc = "found" =>
            /\ read[r].score \in [1..Len(SplitText(up[read[r].version].size)) -> Int]
            /\ read[r].result = SearchSimilar(read[r].score)

LEMMA UploadKeepsSize ==
  ASSUME UploadInv, NEW u \in Uploads, UploadStep(u), NEW v \in Uploads, up[v].runs > 0
  PROVE  up'[v].size = up[v].size /\ up'[v].runs > 0
<1>1. up[v] \in Upload /\ up[v].runs \in Nat /\ up[v].pc \notin Early /\ DOMAIN up = Uploads
    BY DEF UploadInv, Upload
<1>2. CASE Prepare(u)
  <2>1. up[u].pc = "new" /\ \A x \in Uploads \ {u} : up'[x] = up[x]
      BY <1>2, PrepareIs
  <2>2. v # u
      BY <2>1, <1>1 DEF Early
  <2> QED BY <2>1, <2>2
<1>3. CASE \E pc \in UploadPc : Goes(u, pc)
    BY <1>1, <1>3 DEF Goes, UploadInv, Upload
<1>4. CASE \E pc \in UploadPc : Switched(u, pc)
    BY <1>1, <1>4 DEF Switched, UploadInv, Upload
<1> QED BY <1>2, <1>3, <1>4
        DEF UploadStep, CreateTemp, Rename, Replace, Undo, Activate, Cleanup, UploadPc

LEMMA SizesStay ==
  ASSUME UploadInv, [Next]_vars, NEW v \in Uploads, up[v].runs > 0
  PROVE  up'[v].size = up[v].size /\ up'[v].runs > 0
<1>1. CASE \E u \in Uploads : UploadStep(u)
    BY <1>1, UploadKeepsSize
<1>2. CASE (\E r \in Readers : ReadStep(r)) \/ Tick \/ UNCHANGED vars
  <2>1. UNCHANGED up
      BY <1>2 DEF ReadStep, ReadCurrent, List, Search, ReadFails, Tick, vars
  <2> QED BY <2>1
<1>3. CASE Crash
    BY <1>3 DEF Crash, UploadInv, Upload
<1> QED BY <1>1, <1>2, <1>3, Steps

LEMMA FoundStep ==
  ASSUME UploadInv, FoundInv, [Next]_vars
  PROVE  FoundInv'
<1>1. \A v \in Uploads : up[v].runs > 0 => up'[v].size = up[v].size /\ up'[v].runs > 0
    BY SizesStay
<1> DEFINE Kept(r) ==
      /\ DOMAIN read'[r] = ReaderFields
      /\ \/ read'[r].pc \notin {"list", "search", "found"}
         \/ /\ read'[r].pc = read[r].pc /\ read'[r].version = read[r].version
            /\ read'[r].score = read[r].score /\ read'[r].result = read[r].result
<1>2. ASSUME NEW r \in Readers, Kept(r)
      PROVE  /\ read'[r].pc \in {"list", "search", "found"} =>
                  read'[r].version \in Uploads /\ up'[read'[r].version].runs > 0
             /\ read'[r].pc = "found" =>
                  /\ read'[r].score \in [1..Len(SplitText(up'[read'[r].version].size)) -> Int]
                  /\ read'[r].result = SearchSimilar(read'[r].score)
    BY <1>1, <1>2 DEF FoundInv
<1>3. ASSUME DOMAIN read' = Readers, \A r \in Readers : Kept(r)
      PROVE  FoundInv'
    BY <1>2, <1>3 DEF FoundInv
<1>4. CASE \E u \in Uploads : UploadStep(u)
  <2>1. UNCHANGED read
      BY <1>4, UploadKeepsChunks
  <2> QED BY <2>1, <1>3 DEF FoundInv
<1>5. CASE UNCHANGED vars
    BY <1>5, <1>3 DEF FoundInv, vars
<1>6. CASE Tick
    BY <1>6, <1>3 DEF Tick, FoundInv, ReaderFields
<1>7. CASE Crash
    BY <1>7, <1>3 DEF Crash, FoundInv, ReaderFields
<1>8. ASSUME NEW r \in Readers, ReadStep(r)
      PROVE  FoundInv'
  <2>1. /\ UNCHANGED up /\ DOMAIN read' = Readers /\ DOMAIN read'[r] = ReaderFields
        /\ \A x \in Readers \ {r} : read'[x] = read[x]
      BY <1>8 DEF ReadStep, ReadCurrent, List, Search, ReadFails, FoundInv, ReaderFields
  <2>2. \A x \in Readers \ {r} : Kept(x)
      BY <2>1 DEF FoundInv
  <2>3. ASSUME /\ read'[r].pc \in {"list", "search", "found"} =>
                    read'[r].version \in Uploads /\ up'[read'[r].version].runs > 0
               /\ read'[r].pc = "found" =>
                    /\ read'[r].score \in [1..Len(SplitText(up'[read'[r].version].size)) -> Int]
                    /\ read'[r].result = SearchSimilar(read'[r].score)
        PROVE  FoundInv'
      BY <2>1, <2>2, <2>3, <1>2 DEF FoundInv
  <2> HIDE DEF Kept
  <2>4. CASE ReadCurrent(r)
    <3>1. current # NoVersion => current \in Uploads /\ up[current].runs > 0
        BY DEF UploadInv
    <3>2. /\ read'[r].version = current
          /\ read'[r].pc = IF current = NoVersion THEN "not_found" ELSE "list"
        BY <2>4 DEF ReadCurrent, FoundInv, ReaderFields
    <3> QED BY <2>1, <2>3, <3>1, <3>2
  <2>5. CASE List(r)
    <3>1. /\ read[r].pc = "list" /\ read'[r].version = read[r].version
          /\ read'[r].pc \in {"not_found", "search"}
        BY <2>5 DEF List, FoundInv, ReaderFields
    <3> QED BY <2>1, <2>3, <3>1 DEF FoundInv
  <2>6. CASE Search(r)
    <3>1. PICK score \in [1..Len(ChunksOf(read[r].version)) -> Scores] :
            read' = [read EXCEPT ![r].pc = "found", ![r].score = score,
                                 ![r].result = SearchSimilar(score)]
        BY <2>6 DEF Search
    <3>2. /\ read'[r].version = read[r].version /\ read'[r].pc = "found"
          /\ read'[r].score = score /\ read'[r].result = SearchSimilar(score)
        BY <3>1 DEF FoundInv, ReaderFields
    <3>3. score \in [1..Len(SplitText(up[read[r].version].size)) -> Int]
        BY RagAssumption DEF ChunksOf
    <3>4. read[r].version \in Uploads /\ up[read[r].version].runs > 0
        BY <2>6 DEF Search, FoundInv
    <3> QED BY <2>1, <2>3, <3>2, <3>3, <3>4
  <2>7. CASE ReadFails(r)
    <3>1. read'[r].pc = "failed"
        BY <2>7 DEF ReadFails, FoundInv, ReaderFields
    <3> QED BY <2>3, <3>1
  <2> QED BY <1>8, <2>4, <2>5, <2>6, <2>7 DEF ReadStep
<1> QED BY <1>4, <1>5, <1>6, <1>7, <1>8, Steps

LEMMA FoundAreBest ==
  ASSUME UploadInv, FoundInv
  PROVE  BestChunksFound
<1> SUFFICES ASSUME NEW r \in Readers, read[r].pc = "found"
             PROVE  LET res == read[r].result
                        score == read[r].score
                    IN  /\ Len(res) = Min({TopK, Len(ChunksOf(read[r].version))})
                        /\ \A a \in 1..(Len(res) - 1) : Ahead(score, res[a], res[a + 1])
                        /\ \A j \in DOMAIN score \ ToSet(res) : Ahead(score, res[Len(res)], j)
    BY DEF BestChunksFound, Ahead
<1> DEFINE n == Len(ChunksOf(read[r].version))
<1>1. read[r].version \in Uploads /\ up[read[r].version].size \in Nat
    BY DEF FoundInv, UploadInv, Upload
<1>2. n \in Nat
    BY <1>1, SplitTextLength DEF ChunksOf
<1>3. read[r].score \in [1..n -> Int] /\ read[r].result = SearchSimilar(read[r].score)
    BY DEF FoundInv, ChunksOf
<1> HIDE DEF n
<1>4. LET res == SearchSimilar(read[r].score)
      IN  /\ Len(res) = Min({TopK, n})
          /\ \A a \in 1..(Len(res) - 1) : Ahead(read[r].score, res[a], res[a + 1])
          /\ \A j \in DOMAIN read[r].score \ ToSet(res) : Ahead(read[r].score, res[Len(res)], j)
    BY <1>2, <1>3, SearchFindsBest
<1> QED BY <1>3, <1>4 DEF n

\* A reader gets the best chunks of its document, in order, whatever the similarities, how
\* many are equal, and however many chunks there are.
THEOREM BestAreFound == Spec => []BestChunksFound
<1>1. Init => FoundInv
    BY DEF Init, NewReader, FoundInv, ReaderFields
<1>2. UploadInv /\ FoundInv => BestChunksFound
    BY FoundAreBest
<1>3. UploadInv /\ FoundInv /\ [Next]_vars => FoundInv'
    BY FoundStep
<1> QED BY <1>1, <1>2, <1>3, InvInit, InvStep, PTL DEF Spec
=============================================================================
