----------------------------- MODULE RagDocument -----------------------------
(***************************************************************************)
(* The document a user uploads for retrieval: an upload splits it, embeds  *)
(* the chunks, saves the file under a new version, stores the chunks under *)
(* a Redis key of that version, and switches the pointer "current" to it.  *)
(* A chat message reads the pointer, then the chunks, and gets the most    *)
(* similar ones.                                                           *)
(*                                                                         *)
(* One user; an upload is also its version.  Time goes by in ticks of the  *)
(* expiry times.  The Redis client runs a command again when its reply is  *)
(* lost, and gives up in the end; a file operation may fail; the server    *)
(* may stop between any two steps.                                         *)
(***************************************************************************)
EXTENDS Integers, Sequences, FiniteSets, FiniteSetsExt, SequencesExt

CONSTANTS
  Uploads,
  Readers,
  NoVersion, Asking, Failed,
  Sizes,      \* the lengths of the documents
  ChunkSize, Overlap,
  TopK,       \* chat/service.go: defaultRAGTopK
  Scores,     \* the similarities, as far as they are compared
  VersionTTL, \* stagingVersionTTL and previousVersionTTL, in ticks
  ReadTime,   \* the deadline of the chat that reads, in ticks
  MaxLost     \* bound of lost

ASSUME RagAssumption ==
  /\ {NoVersion, Asking, Failed} \cap Uploads = {}
  /\ Sizes \subseteq Nat \ {0}
  /\ ChunkSize \in Nat /\ Overlap \in Nat /\ Overlap < ChunkSize
  /\ TopK \in Nat \ {0}
  /\ Scores \subseteq Int
  /\ ReadTime \in Nat /\ VersionTTL \in Nat /\ ReadTime < VersionTTL
  /\ MaxLost \in Nat

Forever == VersionTTL + 1

VARIABLES
  up,      \* uploads: where they are, the length of the document, whether its vectors differ
           \* in size, how often the activation has run and which version it replaced
  files,   \* the versions whose document is on disk
  temps,   \* the uploads whose temporary file is on disk
  ttl,     \* time to live of the chunks of a version, 0 if they do not exist
  current, \* the pointer
  read,    \* readers: where they are, the version they found, for how long they have run,
           \* the similarity of each chunk and the chunks they return
  lost     \* replies, cleanups and uploads that were lost

vars == <<up, files, temps, ttl, current, read, lost>>

----------------------------------------------------------------------------
(* The splitter and the search                                             *)

\* Mutant: no end of the loop when a chunk reaches the end of the text.
SplitToTheLastRune(total) ==
  LET from[start \in 0..(total + ChunkSize)] ==
        IF start >= total THEN <<>>
        ELSE LET end == Min({total, start + ChunkSize})
             IN  << <<start, end>> >> \o from[start + ChunkSize - Overlap]
  IN  from[0]

\* The chunks of a text: where each starts and ends.
SplitText(total) ==
  LET from[start \in 0..total] ==
        LET end == Min({total, start + ChunkSize})
        IN  IF start = total THEN <<>>
            ELSE << <<start, end>> >> \o
                 (IF end = total THEN <<>> ELSE from[start + ChunkSize - Overlap])
  IN  from[0]

ChunksOf(u) == SplitText(up[u].size)

\* Mutant: chunks that are equally similar come in any order.
AheadUnstable(score, i) ==
  {j \in DOMAIN score : score[j] > score[i] \/ (score[j] = score[i] /\ j > i)}

\* The chunks that a stable sort by similarity puts before chunk i.
AheadOf(score, i) ==
  {j \in DOMAIN score : score[j] > score[i] \/ (score[j] = score[i] /\ j < i)}

\* The indices of the chunks that are returned: those that the sort puts first.
SearchSimilar(score) ==
  [a \in 1..Min({TopK, Len(score)}) |->
     CHOOSE i \in DOMAIN score : Cardinality(AheadOf(score, i)) = a - 1]

----------------------------------------------------------------------------
NewUpload == [pc |-> "new", size |-> 0, mixed |-> FALSE, runs |-> 0, previous |-> NoVersion]

NewReader == [pc |-> "current", version |-> NoVersion, age |-> 0, score |-> <<>>, result |-> <<>>]

Init ==
  /\ up = [u \in Uploads |-> NewUpload]
  /\ files = {} /\ temps = {}
  /\ ttl = [u \in Uploads |-> 0]
  /\ current = NoVersion
  /\ read = [r \in Readers |-> NewReader]
  /\ lost = 0

Lose == lost < MaxLost /\ lost' = lost + 1

Goes(u, pc) == up' = [up EXCEPT ![u].pc = pc]

----------------------------------------------------------------------------
(* Upload                                                                  *)

\* The checks of the document, the splitter and the embedding touch nothing shared; the
\* vectors may differ in size, which only the repository sees.
Prepare(u) ==
  /\ up[u].pc = "new"
  /\ \/ Goes(u, "failed")
     \/ \E n \in Sizes, m \in BOOLEAN :
          up' = [up EXCEPT ![u].pc = "save", ![u].size = n, ![u].mixed = m]
  /\ UNCHANGED <<files, temps, ttl, current, read, lost>>

\* The temporary file is created and written, or it is gone again.
CreateTemp(u) ==
  /\ up[u].pc = "save"
  /\ \/ temps' = temps \cup {u} /\ Goes(u, "rename")
     \/ UNCHANGED temps /\ Goes(u, "failed")
  /\ UNCHANGED <<files, ttl, current, read, lost>>

Rename(u) ==
  /\ up[u].pc = "rename"
  /\ temps' = temps \ {u}
  /\ \/ files' = files \cup {u} /\ Goes(u, "replace")
     \/ UNCHANGED files /\ Goes(u, "failed")
  /\ UNCHANGED <<ttl, current, read, lost>>

Stage(u) == ttl' = [ttl EXCEPT ![u] = VersionTTL]

\* Chunks that cannot be stored, or an error whether they were stored or not.
Replace(u) ==
  /\ up[u].pc = "replace"
  /\ \/ ~up[u].mixed /\ Stage(u) /\ Goes(u, "activate") /\ UNCHANGED lost
     \/ ~up[u].mixed /\ (Stage(u) \/ UNCHANGED ttl) /\ Goes(u, "undo") /\ Lose
     \/ up[u].mixed /\ UNCHANGED <<ttl, lost>> /\ Goes(u, "undo")
  /\ UNCHANGED <<files, temps, current, read>>

\* Removing a file may fail, which is ignored.
Delete(v) ==
  \/ files' = files \ {v} /\ UNCHANGED lost
  \/ UNCHANGED files /\ Lose

\* Mutant: the file stays.
UndoNothing(u) ==
  /\ up[u].pc = "undo"
  /\ Goes(u, "failed")
  /\ UNCHANGED <<files, temps, ttl, current, read, lost>>

Undo(u) ==
  /\ up[u].pc = "undo"
  /\ Delete(u)
  /\ Goes(u, "failed")
  /\ UNCHANGED <<temps, ttl, current, read>>

\* Mutants: the replaced version goes at once; a second run sees its own version as
\* the one it replaced.
SwitchAtOnce(u) ==
  /\ ttl[u] > 0
  /\ ttl' = [v \in Uploads |-> IF v = u THEN Forever ELSE IF v = current THEN 0 ELSE ttl[v]]
  /\ current' = u
SwitchExpiresItself(u) ==
  /\ ttl[u] > 0
  /\ ttl' = [v \in Uploads |-> IF v = current THEN VersionTTL
                               ELSE IF v = u THEN Forever ELSE ttl[v]]
  /\ current' = u

\* The script of the repository.
Switch(u) ==
  /\ ttl[u] > 0
  /\ ttl' = [v \in Uploads |-> IF v = u THEN Forever
                               ELSE IF v = current THEN VersionTTL ELSE ttl[v]]
  /\ current' = u

Switched(u, pc) ==
  up' = [up EXCEPT ![u].pc = pc, ![u].previous = current, ![u].runs = @ + 1]

\* Mutant: an upload whose activation was not confirmed removes its file.
ActivateUndoes(u) ==
  /\ up[u].pc = "activate"
  /\ \/ Switch(u) /\ Switched(u, "cleanup") /\ UNCHANGED lost
     \/ Switch(u) /\ Switched(u, "activate") /\ Lose
     \/ Switch(u) /\ Switched(u, "undo") /\ Lose
     \/ UNCHANGED <<ttl, current>> /\ Goes(u, "undo") /\ Lose
  /\ UNCHANGED <<files, temps, read>>

\* The reply arrives; it is lost and the script runs again; it is lost for good; the
\* script does not run, because Redis cannot be reached or the chunks have expired.
Activate(u) ==
  /\ up[u].pc = "activate"
  /\ \/ Switch(u) /\ Switched(u, "cleanup") /\ UNCHANGED lost
     \/ Switch(u) /\ Switched(u, "activate") /\ Lose
     \/ Switch(u) /\ Switched(u, "failed") /\ Lose
     \/ UNCHANGED <<ttl, current>> /\ Goes(u, "failed") /\ Lose
  /\ UNCHANGED <<files, temps, read>>

Cleanup(u) ==
  /\ up[u].pc = "cleanup"
  /\ IF up[u].previous \in {NoVersion, u} THEN UNCHANGED <<files, lost>>
     ELSE Delete(up[u].previous)
  /\ Goes(u, "accepted")
  /\ UNCHANGED <<temps, ttl, current, read>>

----------------------------------------------------------------------------
(* Retrieve                                                                *)

ReadCurrent(r) ==
  /\ read[r].pc = "current"
  /\ read' = [read EXCEPT ![r].version = current,
                          ![r].pc = IF current = NoVersion THEN "not_found" ELSE "list"]
  /\ UNCHANGED <<up, files, temps, ttl, current, lost>>

List(r) ==
  /\ read[r].pc = "list"
  /\ read' = [read EXCEPT ![r].pc = IF ttl[read[r].version] = 0 THEN "not_found" ELSE "search"]
  /\ UNCHANGED <<up, files, temps, ttl, current, lost>>

\* The question is embedded and compared with every chunk.
Search(r) ==
  /\ read[r].pc = "search"
  /\ \E score \in [1..Len(ChunksOf(read[r].version)) -> Scores] :
       read' = [read EXCEPT ![r].pc = "found", ![r].score = score,
                            ![r].result = SearchSimilar(score)]
  /\ UNCHANGED <<up, files, temps, ttl, current, lost>>

\* Any call of a reader may fail: Redis, the embedding, vectors that do not fit.
ReadFails(r) ==
  /\ read[r].pc \in {"current", "list", "search"}
  /\ read' = [read EXCEPT ![r].pc = "failed"]
  /\ UNCHANGED <<up, files, temps, ttl, current, lost>>

----------------------------------------------------------------------------
Reading == {r \in Readers : read[r].pc \in {"list", "search"}}
Running == {u \in Uploads : up[u].pc \notin {"new", "accepted", "failed"}}

\* Time passes; a reader whose time is over has ended.
Tick ==
  /\ \A r \in Reading : read[r].age < ReadTime
  /\ ttl' = [u \in Uploads |-> IF ttl[u] \in {0, Forever} THEN ttl[u] ELSE ttl[u] - 1]
  /\ ttl' # ttl
  /\ read' = [r \in Readers |-> IF r \in Reading THEN [read[r] EXCEPT !.age = @ + 1] ELSE read[r]]
  /\ UNCHANGED <<up, files, temps, current, lost>>

\* The server stops, and with it the uploads that it runs.
Crash ==
  /\ Running # {}
  /\ lost + Cardinality(Running) <= MaxLost
  /\ lost' = lost + Cardinality(Running)
  /\ up' = [u \in Uploads |-> IF u \in Running THEN [up[u] EXCEPT !.pc = "failed"] ELSE up[u]]
  /\ read' = [r \in Readers |-> IF r \in Reading THEN [read[r] EXCEPT !.pc = "failed"]
                                ELSE read[r]]
  /\ UNCHANGED <<files, temps, ttl, current>>

Next ==
  \/ \E u \in Uploads :
       \/ Prepare(u) \/ CreateTemp(u) \/ Rename(u) \/ Replace(u) \/ Undo(u)
       \/ Activate(u) \/ Cleanup(u)
  \/ \E r \in Readers : ReadCurrent(r) \/ List(r) \/ Search(r) \/ ReadFails(r)
  \/ Tick
  \/ Crash

Spec == Init /\ [][Next]_vars

----------------------------------------------------------------------------
(* Properties                                                              *)

\* The chunks cover the document, each starts where the overlap with the one before
\* begins, none is longer than a chunk may be, and none lies within the one before.
ChunksCoverDocument ==
  \A u \in Uploads : up[u].size > 0 =>
    LET c == ChunksOf(u) IN
    /\ c[1][1] = 0 /\ c[Len(c)][2] = up[u].size
    /\ \A i \in DOMAIN c : c[i][1] < c[i][2] /\ c[i][2] - c[i][1] <= ChunkSize
    /\ \A i \in 1..(Len(c) - 1) : c[i + 1][1] = c[i][2] - Overlap /\ c[i][2] < c[i + 1][2]

\* What a reader found are the best chunks of its document, in order: none that was left
\* out is more similar, nor equally similar and earlier.
BestChunksFound ==
  \A r \in Readers : read[r].pc = "found" =>
    LET res == read[r].result
        score == read[r].score
        Before(i, j) == score[i] > score[j] \/ (score[i] = score[j] /\ i < j)
    IN  /\ Len(res) = Min({TopK, Len(ChunksOf(read[r].version))})
        /\ \A a \in 1..(Len(res) - 1) : Before(res[a], res[a + 1])
        /\ \A j \in DOMAIN score \ ToSet(res) : Before(res[Len(res)], j)

\* The chunks in force never expire, and all others do: whatever uploads interleave, and
\* however often the script of one runs.
OnlyCurrentIsKept == \A v \in Uploads : ttl[v] = Forever <=> v = current

\* The file of the document in force is not deleted by mistake (service.go:102-108), unless
\* its activation ran more than once: another upload may have replaced it in between.
CurrentKeepsFile ==
  current # NoVersion => current \in files \/ up[current].runs > 1

\* Files that are not of the document in force are those of uploads that are under way, and
\* one for each reply, cleanup or upload that was lost.
LeftoversAreFaults ==
  Cardinality(files \ {current}) + Cardinality(temps) <= Cardinality(Running) + lost

Register == INSTANCE DocumentRegister WITH
  value <- current,
  placed <- {u \in Uploads : up[u].runs > 0},
  outcome <- [u \in Uploads |-> IF up[u].pc \in {"accepted", "failed"} THEN up[u].pc
                                ELSE IF up[u].pc = "undo" THEN "failed" ELSE "running"],
  answer <- [r \in Readers |-> CASE read[r].pc = "current" -> Asking
                                 [] read[r].pc = "not_found" -> NoVersion
                                 [] read[r].pc = "failed" -> Failed
                                 [] OTHER -> read[r].version]

\* A reader gets the document that was in force at one moment of its run, whole, although
\* its chunks may be replaced while it reads; an upload that was accepted has been in
\* force, and one that failed before it was activated never is.
ImplementsRegister == Register!Spec
=============================================================================
