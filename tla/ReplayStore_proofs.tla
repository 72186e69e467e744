------------------------- MODULE ReplayStore_proofs -------------------------
(***************************************************************************)
(* Proofs about ReplayStore, for every set of scores, totals and workers   *)
(* that its assumption allows.                                             *)
(***************************************************************************)
EXTENDS ReplayStore, FiniteSetTheorems, TLAPS

(***************************************************************************)
(* The inductive invariant.                                                *)
(***************************************************************************)
Committing(w) == job[w].pc \in {"commitUpload", "commitImport"}
Importing(w)  == job[w].pc \in {"import", "commitImport", "removeOwned"}

\* Who is between the write of a file and the commit, or cleans up, holds the
\* row locks, and what is about to be published owns the slot.
LockInv ==
    \A w \in Workers :
        /\ Committing(w) \/ job[w].pc = "cleanup" => lock = w
        /\ Committing(w) => Owns(job[w].score)

\* No score is offered before its submission, and one at a time after it.
SlotInv ==
    /\ \A s \in Scores : row[s] = "new" => ~has[s]
    /\ \A s, t \in Competing : has[s] /\ has[t] => s = t

\* Each import is finalised by one worker, once.
ImportInv ==
    /\ \A s \in todo : row[s] # "new"
    /\ \A w \in Workers : Importing(w) =>
          /\ job[w].score \in Scores \ todo /\ row[job[w].score] # "new"
          /\ \A v \in Workers \ {w} : Importing(v) => job[v].score # job[w].score

\* No score of the slot has been deleted.
Kept == \A s \in Scores \ Failed : row[s] # "deleted"

\* What is offered lies in the storage.
OfferedInv == \A s \in Competing \ raised : has[s] => file[s] # "none"

\* What is to be removed has lost the slot, which it cannot win back.
RemovedInv ==
    \A w \in Workers : \A p \in job[w].paths :
        p \in Failed \cup raised \/ (p \in Competing /\ ~Owns(p) /\ ~has[p])

\* What is to be published has been written and is not removed by an earlier
\* attempt of the same score.
WrittenInv ==
    \A w \in Workers : LET s == job[w].score IN s \notin raised =>
        /\ job[w].pc = "commitUpload" => file[s] = "client"
        /\ job[w].pc = "commitImport" => file[s] = "import" /\ ~has[s]
        /\ job[w].pc = "removeOwned" /\ s \in Competing /\ file[s] = "import" => ~has[s]

FileInv == OfferedInv /\ RemovedInv /\ WrittenInv

Inv == TypeOK /\ LockInv /\ SlotInv /\ ImportInv /\ (Kept => FileInv)

(***************************************************************************)
(* Facts about the slot and the locks.                                     *)
(***************************************************************************)
\* One score owns the slot.
LEMMA OneOwner ==
    ASSUME NEW s, Owns(s), NEW t \in Competing, t # s
    PROVE  ~Owns(t)
  BY ScoresAreNumbers DEF Owns, Better, Competing, Live

\* Whoever has lost the slot does not win it back while no score is deleted.
LEMMA LostForGood ==
    ASSUME Competing \subseteq Competing', NEW p \in Competing, ~Owns(p)
    PROVE  p \in Competing' /\ ~Owns(p)'
  BY DEF Owns, Better

\* Nobody commits while the rows are free.
LEMMA FreeLock ==
    ASSUME LockInv, lock = NoOne, NEW w \in Workers
    PROVE  ~Committing(w) /\ job[w].pc # "cleanup"
  BY ScoresAreNumbers DEF LockInv

\* Nobody else commits while a worker does.
LEMMA HeldLock ==
    ASSUME LockInv, NEW w \in Workers, Committing(w) \/ job[w].pc = "cleanup",
           NEW v \in Workers, v # w
    PROVE  ~Committing(v) /\ job[v].pc # "cleanup"
  BY DEF LockInv

(***************************************************************************)
(* Types.                                                                  *)
(***************************************************************************)
JobType == [pc : {"idle", "remove", "commitUpload", "import", "commitImport",
                  "removeOwned", "cleanup"},
            score : Scores \cup {0}, was : BOOLEAN, paths : SUBSET Scores]

LEMMA TypeInit == Init => TypeOK
  BY ScoresAreNumbers DEF Init, TypeOK, Idle, Contents

LEMMA TypeStep ==
    ASSUME TypeOK, LockInv, [Next]_vars
    PROVE  TypeOK'
  <1> USE DEF TypeOK, Contents
  <1>1. ASSUME NEW s \in Scores, Submit(s)
        PROVE  TypeOK'
    BY <1>1 DEF Submit
  <1>2. ASSUME NEW w \in Workers, NEW s \in Scores, UploadDiscards(w, s)
        PROVE  TypeOK'
    BY <1>2 DEF UploadDiscards, Job
  <1>3. ASSUME NEW w \in Workers, NEW s \in Scores, UploadWrites(w, s)
        PROVE  TypeOK'
    BY <1>3 DEF UploadWrites, Job
  <1>4. ASSUME NEW w \in Workers, NEW s \in Scores, ImportLooks(w, s)
        PROVE  TypeOK'
    BY <1>4 DEF ImportLooks, Job
  <1>5. ASSUME NEW w \in Workers, NEW s \in Scores, DeleteScore(w, s)
        PROVE  TypeOK'
    BY <1>5, ScoresAreNumbers DEF DeleteScore, Job
  <1>6. ASSUME NEW w \in Workers, UploadCommits(w)
        PROVE  TypeOK'
    BY <1>6 DEF UploadCommits, Job, Publish, Competing, Live
  <1>7. ASSUME NEW w \in Workers, UploadFails(w) \/ UploadInDoubt(w)
        PROVE  TypeOK'
    <2>1. job[w].score \in Scores
      BY <1>7 DEF UploadFails, UploadInDoubt, LockInv, Committing, Owns, Competing, Live
    <2>2. AfterFailure(w) \in SUBSET Scores
      BY <2>1 DEF AfterFailure
    <2>3. job' = [job EXCEPT ![w] = Job("remove", job[w].score, FALSE, AfterFailure(w))]
      BY <1>7 DEF UploadFails, UploadInDoubt
    <2>4. /\ job' \in [Workers -> JobType]
          /\ raised' \in SUBSET Scores
      BY <1>7, <2>1, <2>2, <2>3 DEF Job, JobType, UploadFails, UploadInDoubt
    <2>5. faults' \in 0 .. MaxFaults
      <3>1. faults < MaxFaults /\ faults' = faults + 1
        BY <1>7 DEF UploadFails, UploadInDoubt
      <3> QED
        BY <3>1, ScoresAreNumbers
    <2>6. has' \in [Scores -> BOOLEAN]
      BY <1>7 DEF UploadFails, UploadInDoubt, Publish
    <2> QED
      BY <1>7, <2>4, <2>5, <2>6 DEF JobType, UploadFails, UploadInDoubt
  <1>8. ASSUME NEW w \in Workers, ImportGivesUp(w) \/ ImportWrites(w)
        PROVE  TypeOK'
    <2>1. CASE ImportGivesUp(w)
      BY <2>1, ScoresAreNumbers DEF ImportGivesUp, Idle
    <2>2. CASE ImportWrites(w)
      <3>1. job' \in [Workers -> JobType]
        BY <2>2 DEF ImportWrites, JobType
      <3>2. lock' \in Workers \cup {NoOne} /\ file' \in [Scores -> Contents]
        BY <2>2 DEF ImportWrites
      <3> QED
        BY <2>2, <3>1, <3>2 DEF ImportWrites, JobType
    <2> QED
      BY <1>8, <2>1, <2>2
  <1>9. ASSUME NEW w \in Workers, ImportCommits(w)
        PROVE  TypeOK'
    BY <1>9 DEF ImportCommits, Job, Publish, Competing, Live
  <1>10. ASSUME NEW w \in Workers, ImportFails(w) \/ ImportInDoubt(w)
         PROVE  TypeOK'
    <2>1. CASE ImportFails(w)
      BY <2>1, ScoresAreNumbers DEF ImportFails
    <2>2. CASE ImportInDoubt(w)
      BY <2>2, ScoresAreNumbers DEF ImportInDoubt, Idle, Publish, Competing, Live
    <2> QED
      BY <1>10, <2>1, <2>2
  <1>11. ASSUME NEW w \in Workers, ImportCleans(w)
         PROVE  TypeOK'
    BY <1>11 DEF ImportCleans, Idle
  <1>12. ASSUME NEW w \in Workers, Remove(w) \/ RemoveFails(w)
         PROVE  TypeOK'
    <2>1. CASE Remove(w)
      <3>1. \A p : job[w].paths \ {p} \in SUBSET Scores
        OBVIOUS
      <3>2. job' = [job EXCEPT ![w] = Idle] => job' \in [Workers -> JobType]
        BY DEF Idle, JobType
      <3>3. ASSUME NEW p \in job[w].paths, job' = [job EXCEPT ![w].paths = @ \ {p}]
            PROVE  job' \in [Workers -> JobType]
        BY <3>1, <3>3 DEF JobType
      <3>4. job' \in [Workers -> JobType] /\ file' \in [Scores -> Contents]
        BY <2>1, <3>2, <3>3 DEF Remove, Idle, JobType
      <3> QED
        BY <2>1, <3>4 DEF Remove, JobType
    <2>2. CASE RemoveFails(w)
      BY <2>2, ScoresAreNumbers DEF RemoveFails, Idle
    <2> QED
      BY <1>12, <2>1, <2>2
  <1>13. ASSUME NEW w \in Workers, CleanupFiles(w)
         PROVE  TypeOK'
    BY <1>13 DEF CleanupFiles, Job
  <1>14. ASSUME NEW w \in Workers, CleanupCommits(w)
         PROVE  TypeOK'
    BY <1>14 DEF CleanupCommits, Idle
  <1>15. CASE Crash
    BY <1>15, ScoresAreNumbers DEF Crash, Idle
  <1>16. CASE UNCHANGED vars
    BY <1>16 DEF vars
  <1> QED
    BY <1>1, <1>2, <1>3, <1>4, <1>5, <1>6, <1>7, <1>8, <1>9, <1>10, <1>11, <1>12,
       <1>13, <1>14, <1>15, <1>16 DEF Next, Work

(***************************************************************************)
(* The locks.                                                              *)
(***************************************************************************)
\* Ownership of the slot depends on the rows of the competing scores alone.
LEMMA OwnsUnchanged ==
    ASSUME Competing' = Competing, NEW s
    PROVE  Owns(s)' <=> Owns(s)
  BY DEF Owns, Better

LEMMA LockStep ==
    ASSUME TypeOK, LockInv, [Next]_vars
    PROVE  LockInv'
  <1> USE DEF Committing
  <1>1. ASSUME NEW s \in Scores, Submit(s)
        PROVE  LockInv'
    BY <1>1, FreeLock DEF Submit, LockInv
  <1>2. ASSUME NEW w \in Workers, NEW s \in Scores, UploadDiscards(w, s)
        PROVE  LockInv'
    BY <1>2, FreeLock DEF TypeOK, UploadDiscards, Job, LockInv
  <1>3. ASSUME NEW w \in Workers, NEW s \in Scores, UploadWrites(w, s)
        PROVE  LockInv'
    <2>1. Competing' = Competing
      BY <1>3 DEF UploadWrites, Competing, Live
    <2>2. job'[w].score = s /\ lock' = w /\ Owns(s)
      BY <1>3 DEF TypeOK, UploadWrites, Job
    <2>3. \A v \in Workers \ {w} : job'[v] = job[v] /\ ~Committing(v) /\ job[v].pc # "cleanup"
      BY <1>3, FreeLock DEF TypeOK, UploadWrites
    <2> QED
      BY <2>1, <2>2, <2>3, OwnsUnchanged DEF LockInv
  <1>4. ASSUME NEW w \in Workers, NEW s \in Scores, ImportLooks(w, s)
        PROVE  LockInv'
    <2>1. Competing' = Competing /\ lock' = lock
      BY <1>4 DEF ImportLooks, Competing, Live
    <2>2. /\ job'[w].pc \in {"idle", "import"}
          /\ \A v \in Workers \ {w} : job'[v] = job[v]
      <3>1. CASE job' = job
        BY <1>4, <3>1 DEF ImportLooks
      <3>2. CASE job' = [job EXCEPT ![w] = Job("import", s, FALSE, {})]
        BY <3>2 DEF TypeOK, Job
      <3> QED
        BY <1>4, <3>1, <3>2 DEF ImportLooks
    <2> QED
      BY <2>1, <2>2, OwnsUnchanged DEF LockInv
  <1>5. ASSUME NEW w \in Workers, NEW s \in Scores, DeleteScore(w, s)
        PROVE  LockInv'
    BY <1>5, FreeLock DEF TypeOK, DeleteScore, Job, LockInv
  <1>6. ASSUME NEW w \in Workers,
               \/ UploadCommits(w) \/ UploadFails(w) \/ UploadInDoubt(w)
               \/ ImportCommits(w) \/ ImportFails(w) \/ ImportInDoubt(w)
        PROVE  LockInv'
    <2>1. Committing(w)
      BY <1>6 DEF UploadCommits, UploadFails, UploadInDoubt, ImportCommits, ImportFails,
                  ImportInDoubt
    <2>2. /\ job'[w].pc \in {"idle", "remove", "removeOwned"}
          /\ \A v \in Workers \ {w} : job'[v] = job[v]
      BY <1>6 DEF TypeOK, UploadCommits, UploadFails, UploadInDoubt, ImportCommits, ImportFails,
                  ImportInDoubt, Job, Idle
    <2> QED
      BY <2>1, <2>2, HeldLock DEF LockInv
  <1>7. ASSUME NEW w \in Workers, ImportWrites(w)
        PROVE  LockInv'
    <2>1. Competing' = Competing
      BY <1>7 DEF ImportWrites, Competing, Live
    <2>2. job'[w].score = job[w].score /\ lock' = w /\ Owns(job[w].score)
      BY <1>7 DEF ImportWrites, TypeOK
    <2>3. \A v \in Workers \ {w} : job'[v] = job[v] /\ ~Committing(v) /\ job[v].pc # "cleanup"
      BY <1>7, FreeLock DEF ImportWrites, TypeOK
    <2> QED
      BY <2>1, <2>2, <2>3, OwnsUnchanged DEF LockInv
  <1>8. ASSUME NEW w \in Workers,
               ImportGivesUp(w) \/ ImportCleans(w) \/ Remove(w) \/ RemoveFails(w)
        PROVE  LockInv'
    <2>1. Competing' = Competing /\ lock' = lock
      BY <1>8 DEF ImportGivesUp, ImportCleans, Remove, RemoveFails, Competing, Live
    <2>2. /\ job'[w].pc \in {"idle", "remove"}
          /\ \A v \in Workers \ {w} : job'[v] = job[v]
      BY <1>8 DEF TypeOK, ImportGivesUp, ImportCleans, Remove, RemoveFails, Idle
    <2> QED
      BY <2>1, <2>2, OwnsUnchanged DEF LockInv
  <1>9. ASSUME NEW w \in Workers, CleanupFiles(w)
        PROVE  LockInv'
    BY <1>9, FreeLock DEF TypeOK, CleanupFiles, Job, LockInv
  <1>10. ASSUME NEW w \in Workers, CleanupCommits(w)
         PROVE  LockInv'
    <2>1. /\ job'[w].pc = "idle"
          /\ \A v \in Workers \ {w} : job'[v] = job[v]
      BY <1>10 DEF TypeOK, CleanupCommits, Idle
    <2>2. \A v \in Workers \ {w} : ~Committing(v) /\ job[v].pc # "cleanup"
      BY <1>10, HeldLock DEF CleanupCommits
    <2> QED
      BY <2>1, <2>2 DEF LockInv
  <1>11. CASE Crash
    BY <1>11 DEF Crash, Idle, LockInv
  <1>12. CASE UNCHANGED vars
    <2>1. Competing' = Competing /\ job' = job /\ lock' = lock
      BY <1>12 DEF vars, Competing, Live
    <2>2. \A s : Owns(s)' <=> Owns(s)
      BY <2>1, OwnsUnchanged
    <2> QED
      BY <2>1, <2>2 DEF LockInv
  <1> QED
    BY <1>1, <1>2, <1>3, <1>4, <1>5, <1>6, <1>7, <1>8, <1>9, <1>10, <1>11, <1>12
       DEF Next, Work

(***************************************************************************)
(* The slot.                                                               *)
(***************************************************************************)
\* A publication leaves one offer.
LEMMA PublishSlot ==
    ASSUME TypeOK, SlotInv, NEW s, Owns(s), has' = Publish(s), row' = row
    PROVE  SlotInv'
  BY DEF TypeOK, SlotInv, Publish, Owns, Competing, Live

\* Withdrawing offers, or losing competitors, does no harm.
LEMMA FewerSlot ==
    ASSUME TypeOK, SlotInv,
           \A s \in Scores : has'[s] => has[s],
           \A s \in Scores : row'[s] = row[s] \/ row'[s] = "deleted"
    PROVE  SlotInv'
  <1>1. Competing' \subseteq Competing
    BY DEF TypeOK, Competing, Live
  <1> QED
    BY <1>1 DEF SlotInv, Competing, Live

LEMMA SlotStep ==
    ASSUME TypeOK, LockInv, SlotInv, [Next]_vars
    PROVE  SlotInv'
  <1>1. ASSUME NEW s \in Scores, Submit(s)
        PROVE  SlotInv'
    <2>1. Competing' \subseteq Competing \cup {s} /\ ~has'[s]
      BY <1>1 DEF TypeOK, Submit, SlotInv, Competing, Live
    <2>2. \A t \in Scores : row'[t] = "new" => row[t] = "new"
      BY <1>1 DEF TypeOK, Submit
    <2>3. has' = has
      BY <1>1 DEF Submit
    <2>4. \A t \in Scores : row'[t] = "new" => ~has'[t]
      BY <2>2, <2>3 DEF SlotInv
    <2>5. \A t, u \in Competing' : has'[t] /\ has'[u] => t = u
      BY <2>1, <2>3 DEF SlotInv
    <2> QED
      BY <2>4, <2>5 DEF SlotInv
  <1>2. ASSUME NEW w \in Workers, UploadCommits(w) \/ UploadInDoubt(w) \/ ImportCommits(w)
        PROVE  SlotInv'
    <2>1. Owns(job[w].score)
      BY <1>2 DEF LockInv, Committing, UploadCommits, UploadInDoubt, ImportCommits
    <2> QED
      BY <1>2, <2>1, PublishSlot DEF UploadCommits, UploadInDoubt, ImportCommits
  <1>3. ASSUME NEW w \in Workers, ImportInDoubt(w)
        PROVE  SlotInv'
    <2>1. Owns(job[w].score)
      BY <1>3 DEF LockInv, Committing, ImportInDoubt
    <2>2. CASE has' = has
      BY <1>3, <2>2, FewerSlot DEF ImportInDoubt
    <2>3. CASE has' = Publish(job[w].score)
      BY <1>3, <2>1, <2>3, PublishSlot DEF ImportInDoubt
    <2> QED
      BY <1>3, <2>2, <2>3 DEF ImportInDoubt
  <1>4. ASSUME NEW w \in Workers, NEW s \in Scores, UploadDiscards(w, s) \/ DeleteScore(w, s)
        PROVE  SlotInv'
    BY <1>4, FewerSlot DEF TypeOK, UploadDiscards, DeleteScore
  <1>5. ASSUME NEW w \in Workers, CleanupCommits(w)
        PROVE  SlotInv'
    <2>1. \A s \in Scores : row'[s] = row[s] \/ row'[s] = "deleted"
      BY <1>5 DEF TypeOK, CleanupCommits
    <2>2. \A s \in Scores : has'[s] => has[s]
      BY <1>5 DEF TypeOK, CleanupCommits
    <2> QED
      BY <2>1, <2>2, FewerSlot
  <1>6. ASSUME UNCHANGED <<row, has>>
        PROVE  SlotInv'
    BY <1>6, FewerSlot
  <1>7. ASSUME NEW w \in Workers, NEW s \in Scores, UploadWrites(w, s) \/ ImportLooks(w, s)
        PROVE  UNCHANGED <<row, has>>
    BY <1>7 DEF UploadWrites, ImportLooks
  <1>8. ASSUME NEW w \in Workers,
               \/ UploadFails(w) \/ ImportGivesUp(w) \/ ImportWrites(w) \/ ImportFails(w)
               \/ ImportCleans(w) \/ Remove(w) \/ RemoveFails(w) \/ CleanupFiles(w)
        PROVE  UNCHANGED <<row, has>>
    BY <1>8 DEF UploadFails, ImportGivesUp, ImportWrites, ImportFails, ImportCleans, Remove,
                RemoveFails, CleanupFiles
  <1>9. Crash \/ UNCHANGED vars => UNCHANGED <<row, has>>
    BY DEF Crash, vars
  <1> QED
    BY <1>1, <1>2, <1>3, <1>4, <1>5, <1>6, <1>7, <1>8, <1>9 DEF Next, Work

(***************************************************************************)
(* Imports.                                                                *)
(***************************************************************************)
\* A step that starts no import keeps each import in one hand.
LEMMA SameImports ==
    ASSUME ImportInv, todo \subseteq Scores, todo' \subseteq todo,
           \A s \in Scores : row'[s] = "new" => row[s] = "new",
           \A w \in Workers :
               Importing(w)' => Importing(w) /\ job'[w].score = job[w].score
    PROVE  ImportInv'
  BY DEF ImportInv

LEMMA ImportStep ==
    ASSUME TypeOK, ImportInv, [Next]_vars
    PROVE  ImportInv'
  <1>0. todo \subseteq Scores
    BY ScoresAreNumbers DEF TypeOK
  <1>1. ASSUME NEW s \in Scores, Submit(s)
        PROVE  ImportInv'
    <2>1. \A t \in Scores : row'[t] = "new" => row[t] = "new" /\ t # s
      BY <1>1 DEF TypeOK, Submit
    <2>2. job' = job /\ todo' \subseteq todo \cup {s} /\ row[s] = "new"
      BY <1>1 DEF Submit
    <2> QED
      BY <1>0, <2>1, <2>2 DEF ImportInv, Importing
  <1>2. ASSUME NEW w \in Workers, NEW s \in Scores, ImportLooks(w, s)
        PROVE  ImportInv'
    <2>1. s \in todo /\ todo' = todo \ {s} /\ row' = row
      BY <1>2 DEF ImportLooks
    <2>2. CASE job' = job
      BY <1>0, <2>1, <2>2, SameImports DEF Importing
    <2>3. CASE job' = [job EXCEPT ![w] = Job("import", s, FALSE, {})]
      <3>1. job'[w].score = s /\ \A v \in Workers \ {w} : job'[v] = job[v]
        BY <2>3 DEF TypeOK, Job
      <3> QED
        BY <2>1, <3>1 DEF ImportInv, Importing
    <2> QED
      BY <1>2, <2>2, <2>3 DEF ImportLooks
  <1>3. ASSUME NEW w \in Workers, NEW s \in Scores,
               UploadDiscards(w, s) \/ UploadWrites(w, s) \/ DeleteScore(w, s)
        PROVE  ImportInv'
    <2>1. todo' = todo /\ \A t \in Scores : row'[t] = "new" => row[t] = "new"
      BY <1>3 DEF TypeOK, UploadDiscards, UploadWrites, DeleteScore
    <2>2. ~Importing(w)' /\ \A v \in Workers \ {w} : job'[v] = job[v]
      BY <1>3 DEF TypeOK, UploadDiscards, UploadWrites, DeleteScore, Job, Importing
    <2> QED
      BY <1>0, <2>1, <2>2, SameImports DEF Importing
  <1>4. ASSUME NEW w \in Workers, ImportWrites(w) \/ ImportFails(w)
        PROVE  ImportInv'
    <2>1. todo' = todo /\ row' = row /\ Importing(w)
      BY <1>4 DEF ImportWrites, ImportFails, Importing
    <2>2. /\ job'[w].score = job[w].score
          /\ \A v \in Workers \ {w} : job'[v] = job[v]
      BY <1>4 DEF TypeOK, ImportWrites, ImportFails
    <2> QED
      BY <1>0, <2>1, <2>2, SameImports DEF Importing
  <1>5. ASSUME NEW w \in Workers,
               \/ UploadCommits(w) \/ UploadFails(w) \/ UploadInDoubt(w) \/ ImportCommits(w)
               \/ ImportGivesUp(w) \/ ImportInDoubt(w) \/ ImportCleans(w) \/ RemoveFails(w)
        PROVE  ImportInv'
    <2>1. todo' = todo /\ row' = row
      BY <1>5 DEF UploadCommits, UploadFails, UploadInDoubt, ImportCommits, ImportGivesUp,
                  ImportInDoubt, ImportCleans, RemoveFails
    <2>2. job'[w].pc \in {"idle", "remove"} /\ \A v \in Workers \ {w} : job'[v] = job[v]
      BY <1>5 DEF TypeOK, UploadCommits, UploadFails, UploadInDoubt, ImportCommits,
                  ImportGivesUp, ImportInDoubt, ImportCleans, RemoveFails, Job, Idle
    <2> QED
      BY <1>0, <2>1, <2>2, SameImports DEF Importing
  <1>6. ASSUME NEW w \in Workers, Remove(w)
        PROVE  ImportInv'
    <2>1. todo' = todo /\ row' = row
      BY <1>6 DEF Remove
    <2>2. job'[w].pc \in {"idle", "remove"} /\ \A v \in Workers \ {w} : job'[v] = job[v]
      BY <1>6 DEF TypeOK, Remove, Idle
    <2> QED
      BY <1>0, <2>1, <2>2, SameImports DEF Importing
  <1>7. ASSUME NEW w \in Workers, CleanupFiles(w) \/ CleanupCommits(w)
        PROVE  ImportInv'
    <2>1. todo' = todo /\ \A t \in Scores : row'[t] = "new" => row[t] = "new"
      BY <1>7 DEF TypeOK, CleanupFiles, CleanupCommits
    <2>2. job'[w].pc \in {"idle", "cleanup"} /\ \A v \in Workers \ {w} : job'[v] = job[v]
      BY <1>7 DEF TypeOK, CleanupFiles, CleanupCommits, Job, Idle
    <2> QED
      BY <1>0, <2>1, <2>2, SameImports DEF Importing
  <1>8. CASE Crash
    BY <1>8 DEF Crash, Idle, ImportInv, Importing
  <1>9. CASE UNCHANGED vars
    BY <1>0, <1>9, SameImports DEF vars, Importing
  <1> QED
    BY <1>1, <1>2, <1>3, <1>4, <1>5, <1>6, <1>7, <1>8, <1>9 DEF Next, Work

(***************************************************************************)
(* The invariant and the first theorems.                                   *)
(***************************************************************************)
LEMMA OwnershipInit == Init => LockInv /\ SlotInv /\ ImportInv
  <1> SUFFICES ASSUME Init PROVE LockInv /\ SlotInv /\ ImportInv
    OBVIOUS
  <1>1. LockInv /\ ImportInv
    BY DEF Init, Idle, LockInv, ImportInv, Committing, Importing
  <1>2. Competing = {}
    BY DEF Init, Competing, Live
  <1>3. \A s \in Scores : row[s] = "new" => ~has[s]
    BY DEF Init
  <1> QED
    BY <1>1, <1>2, <1>3 DEF SlotInv

\* The types and who holds what are kept, whatever is deleted or fails.
THEOREM SlotsAlwaysOwned == Spec => [](TypeOK /\ LockInv /\ SlotInv /\ ImportInv)
  <1>1. Init => TypeOK /\ LockInv /\ SlotInv /\ ImportInv
    BY TypeInit, OwnershipInit
  <1>2. TypeOK /\ LockInv /\ SlotInv /\ ImportInv /\ [Next]_vars
            => (TypeOK /\ LockInv /\ SlotInv /\ ImportInv)'
    BY TypeStep, LockStep, SlotStep, ImportStep
  <1> QED
    BY <1>1, <1>2, PTL DEF Spec

\* Rows, files and jobs keep their types (save_replay, _finalise_import_replay,
\* the deletions and the cleanup).
THEOREM ReplayTypeCorrect == Spec => []TypeOK
  BY SlotsAlwaysOwned, PTL

\* At most one score of a slot offers a replay, whatever interleaves, fails or
\* crashes (save_replay and _finalise_import_replay under their row locks).
THEOREM OneReplayAlways == Spec => []OneReplayPerSlot
  <1>1. SlotInv => OneReplayPerSlot
    <2> SUFFICES ASSUME SlotInv PROVE OneReplayPerSlot
      OBVIOUS
    <2> DEFINE offers == {s \in Competing : has[s]}
    <2>1. CASE offers = {}
      BY <2>1, FS_EmptySet DEF OneReplayPerSlot
    <2>2. ASSUME NEW s \in offers
          PROVE  Cardinality(offers) = 1
      <3>1. offers = {s}
        BY DEF SlotInv
      <3> QED
        BY <3>1, FS_Singleton
    <2> QED
      BY <2>1, <2>2 DEF OneReplayPerSlot
  <1> QED
    BY <1>1, SlotsAlwaysOwned, PTL

(***************************************************************************)
(* The files.                                                              *)
(***************************************************************************)
\* No step brings a deleted score back or takes a competitor away otherwise.
LEMMA KeptBefore ==
    ASSUME TypeOK, [Next]_vars, Kept'
    PROVE  Kept /\ Competing \subseteq Competing'
  <1>1. ASSUME NEW s \in Scores, Submit(s)
        PROVE  Kept /\ Competing \subseteq Competing'
    BY <1>1 DEF TypeOK, Submit, Kept, Competing, Live
  <1>2. ASSUME NEW w \in Workers, NEW s \in Scores, DeleteScore(w, s)
        PROVE  Kept /\ Competing \subseteq Competing'
    BY <1>2 DEF TypeOK, DeleteScore, Kept, Competing, Live
  <1>3. ASSUME NEW w \in Workers, CleanupCommits(w)
        PROVE  Kept /\ Competing \subseteq Competing'
    <2>1. \A s \in Scores \ Failed : row'[s] = row[s]
      BY <1>3 DEF CleanupCommits, Live
    <2> QED
      BY <2>1 DEF Kept, Competing, Live
  <1>4. ASSUME row' = row
        PROVE  Kept /\ Competing \subseteq Competing'
    BY <1>4 DEF Kept, Competing, Live
  <1>5. ASSUME NEW w \in Workers, NEW s \in Scores,
               UploadDiscards(w, s) \/ UploadWrites(w, s) \/ ImportLooks(w, s)
        PROVE  row' = row
    BY <1>5 DEF UploadDiscards, UploadWrites, ImportLooks
  <1>6. ASSUME NEW w \in Workers,
               \/ UploadCommits(w) \/ UploadFails(w) \/ UploadInDoubt(w)
               \/ ImportGivesUp(w) \/ ImportWrites(w) \/ ImportCommits(w) \/ ImportFails(w)
               \/ ImportInDoubt(w) \/ ImportCleans(w) \/ Remove(w) \/ RemoveFails(w)
               \/ CleanupFiles(w)
        PROVE  row' = row
    BY <1>6 DEF UploadCommits, UploadFails, UploadInDoubt, ImportGivesUp, ImportWrites,
                ImportCommits, ImportFails, ImportInDoubt, ImportCleans, Remove, RemoveFails,
                CleanupFiles
  <1>7. Crash \/ UNCHANGED vars => row' = row
    BY DEF Crash, vars
  <1> QED
    BY <1>1, <1>2, <1>3, <1>4, <1>5, <1>6, <1>7 DEF Next, Work

\* A publication: what was written is offered, what it supersedes may go.
LEMMA PublishFiles ==
    ASSUME TypeOK, LockInv, ImportInv, FileInv,
           NEW w \in Workers, Committing(w),
           row' = row, file' = file, has' = Publish(job[w].score),
           raised \subseteq raised',
           \A v \in Workers \ {w} : job'[v] = job[v],
           job'[w].pc \in {"idle", "remove"},
           \A p \in job'[w].paths : p \in raised' \/ p \in Competing \ {job[w].score}
    PROVE  FileInv'
  <1> DEFINE s == job[w].score
  <1>1. Owns(s) /\ Competing' = Competing /\ Competing \subseteq Scores
    BY DEF LockInv, Competing, Live
  <1>2. \A t \in Competing : has'[t] <=> t = s
    BY <1>1 DEF Publish
  <1>3. OfferedInv'
    <2>1. s \notin raised => file[s] # "none"
      BY DEF FileInv, WrittenInv, Committing
    <2> QED
      BY <1>1, <1>2, <2>1 DEF OfferedInv
  <1>4. \A p : p \in Competing /\ p # s => ~Owns(p)' /\ ~has'[p]
    BY <1>1, <1>2, OneOwner, OwnsUnchanged
  <1>5. RemovedInv'
    <2>1. \A p \in job'[w].paths : p \in raised' \/ (p \in Competing /\ ~Owns(p)' /\ ~has'[p])
      BY <1>4
    <2>2. ASSUME NEW v \in Workers \ {w}, NEW p \in job'[v].paths
          PROVE  p \in Failed \cup raised' \/ (p \in Competing /\ ~Owns(p)' /\ ~has'[p])
      BY <1>1, <1>4 DEF FileInv, RemovedInv
    <2> QED
      BY <1>1, <2>1, <2>2 DEF RemovedInv
  <1>6. WrittenInv'
    <2>1. ASSUME NEW v \in Workers \ {w}, job[v].pc = "removeOwned", job[v].score \in Competing,
                 job[v].score \notin raised', file[job[v].score] = "import"
          PROVE  ~has'[job[v].score]
      <3>1. job[v].score # s
        BY <2>1 DEF FileInv, WrittenInv, Committing, ImportInv, Importing
      <3> QED
        BY <1>2, <2>1, <3>1
    <2>2. \A v \in Workers \ {w} : ~Committing(v)
      BY HeldLock
    <2> QED
      BY <1>1, <2>1, <2>2 DEF WrittenInv, Committing
  <1> QED
    BY <1>3, <1>5, <1>6 DEF FileInv

\* Nothing is written, published or removed, perhaps some flags are withdrawn.
LEMMA QuietFiles ==
    ASSUME LockInv, FileInv, Competing' = Competing, file' = file,
           raised \subseteq raised',
           \A s \in Competing : has'[s] => has[s],
           NEW w \in Workers,
           \A v \in Workers \ {w} : job'[v] = job[v],
           job'[w].pc \in {"idle", "import", "remove"},
           \A p \in job'[w].paths :
               p \in Failed \cup raised' \/ (p \in Competing /\ ~Owns(p) /\ ~has'[p])
    PROVE  FileInv'
  <1>1. OfferedInv'
    BY DEF FileInv, OfferedInv
  <1>2. RemovedInv'
    BY OwnsUnchanged DEF FileInv, RemovedInv
  <1>3. WrittenInv'
    <2> SUFFICES ASSUME NEW v \in Workers, v # w, job[v].score \notin raised
                 PROVE  /\ job[v].pc = "commitUpload" => file[job[v].score] = "client"
                        /\ job[v].pc = "commitImport" =>
                              file[job[v].score] = "import" /\ ~has'[job[v].score]
                        /\ (job[v].pc = "removeOwned" /\ job[v].score \in Competing
                              /\ file[job[v].score] = "import") => ~has'[job[v].score]
      BY DEF WrittenInv
    <2>1. job[v].pc = "commitImport" => job[v].score \in Competing
      BY DEF LockInv, Committing, Owns
    <2> QED
      BY <2>1 DEF FileInv, WrittenInv
  <1> QED
    BY <1>1, <1>2, <1>3 DEF FileInv

LEMMA FileStep ==
    ASSUME TypeOK, LockInv, SlotInv, ImportInv, FileInv, [Next]_vars, Kept'
    PROVE  FileInv'
  <1>0. Competing \subseteq Competing'
    BY KeptBefore
  <1>1. ASSUME NEW s \in Scores, Submit(s)
        PROVE  FileInv'
    <2>1. /\ UNCHANGED <<has, file, job, raised>> /\ lock = NoOne
          /\ row[s] = "new" /\ ~has[s] /\ Competing' \subseteq Competing \cup {s}
      BY <1>1 DEF TypeOK, SlotInv, Submit, Competing, Live
    <2>2. OfferedInv'
      BY <2>1 DEF FileInv, OfferedInv
    <2>3. RemovedInv'
      BY <1>0, <2>1, LostForGood DEF FileInv, RemovedInv
    <2>4. WrittenInv'
      BY <2>1 DEF FileInv, WrittenInv, ImportInv, Importing
    <2> QED
      BY <2>2, <2>3, <2>4 DEF FileInv
  <1>2. ASSUME NEW w \in Workers, NEW s \in Scores, UploadDiscards(w, s)
        PROVE  FileInv'
    <2>1. /\ Competing' = Competing /\ UNCHANGED <<file, raised>>
          /\ \A t \in Scores : has'[t] => has[t] /\ t # s
      BY <1>2 DEF TypeOK, UploadDiscards, Competing, Live
    <2>2. /\ job'[w].pc = "remove" /\ job'[w].paths = {s}
          /\ \A v \in Workers \ {w} : job'[v] = job[v]
      BY <1>2 DEF TypeOK, UploadDiscards, Job
    <2>3. s \in Failed \/ (s \in Competing /\ ~Owns(s) /\ ~has'[s])
      BY <1>2, <2>1 DEF UploadDiscards, Competing
    <2> QED
      BY <2>1, <2>2, <2>3, QuietFiles DEF Competing, Live
  <1>3. ASSUME NEW w \in Workers, NEW s \in Scores, UploadWrites(w, s)
        PROVE  FileInv'
    <2>1. /\ Competing' = Competing /\ UNCHANGED <<has, raised>> /\ s \in Competing
          /\ file'[s] = "client" /\ \A t \in Scores \ {s} : file'[t] = file[t]
      BY <1>3 DEF TypeOK, UploadWrites, Owns, Competing, Live
    <2>2. /\ job'[w].pc = "commitUpload" /\ job'[w].score = s /\ job'[w].paths = {}
          /\ \A v \in Workers \ {w} : job'[v] = job[v] /\ ~Committing(v)
      BY <1>3, FreeLock DEF TypeOK, UploadWrites, Job
    <2>3. OfferedInv'
      BY <2>1 DEF FileInv, OfferedInv, Competing, Live
    <2>4. RemovedInv'
      BY <2>1, <2>2, OwnsUnchanged DEF FileInv, RemovedInv
    <2>5. WrittenInv'
      BY <2>1, <2>2 DEF FileInv, WrittenInv, Committing, Competing, Live
    <2> QED
      BY <2>3, <2>4, <2>5 DEF FileInv
  <1>4. ASSUME NEW w \in Workers, UploadCommits(w) \/ ImportCommits(w)
        PROVE  FileInv'
    <2>1. /\ Committing(w) /\ has' = Publish(job[w].score)
          /\ UNCHANGED <<row, file, raised>>
      BY <1>4 DEF UploadCommits, ImportCommits, Committing
    <2>2. /\ job'[w].pc = "remove" /\ job'[w].paths = Competing \ {job[w].score}
          /\ \A v \in Workers \ {w} : job'[v] = job[v]
      BY <1>4 DEF TypeOK, UploadCommits, ImportCommits, Job
    <2> QED
      BY <2>1, <2>2, PublishFiles
  <1>5. ASSUME NEW w \in Workers, UploadInDoubt(w)
        PROVE  FileInv'
    <2>1. /\ Committing(w) /\ has' = Publish(job[w].score)
          /\ UNCHANGED <<row, file>> /\ raised' = raised \cup {job[w].score}
      BY <1>5 DEF UploadInDoubt, Committing
    <2>2. /\ job'[w].pc = "remove" /\ job'[w].paths \subseteq {job[w].score}
          /\ \A v \in Workers \ {w} : job'[v] = job[v]
      BY <1>5 DEF TypeOK, UploadInDoubt, Job, AfterFailure
    <2> QED
      BY <2>1, <2>2, PublishFiles
  <1>6. ASSUME NEW w \in Workers, UploadFails(w)
        PROVE  FileInv'
    <2>1. /\ Competing' = Competing /\ UNCHANGED <<has, file>>
          /\ raised' = raised \cup {job[w].score}
      BY <1>6 DEF UploadFails, Competing, Live
    <2>2. /\ job'[w].pc = "remove" /\ job'[w].paths \subseteq {job[w].score}
          /\ \A v \in Workers \ {w} : job'[v] = job[v]
      BY <1>6 DEF TypeOK, UploadFails, Job, AfterFailure
    <2> QED
      BY <2>1, <2>2, QuietFiles
  <1>7. ASSUME NEW w \in Workers, NEW s \in Scores, ImportLooks(w, s)
        PROVE  FileInv'
    <2>1. Competing' = Competing /\ UNCHANGED <<has, file, raised>>
      BY <1>7 DEF ImportLooks, Competing, Live
    <2>2. CASE job' = job
      <3>1. job[w].pc = "idle" /\ \A p \in job[w].paths :
               p \in Failed \cup raised \/ (p \in Competing /\ ~Owns(p) /\ ~has[p])
        BY <1>7 DEF ImportLooks, FileInv, RemovedInv
      <3> QED
        BY <2>1, <2>2, <3>1, QuietFiles
    <2>3. CASE job' = [job EXCEPT ![w] = Job("import", s, FALSE, {})]
      <3>1. /\ job'[w].pc = "import" /\ job'[w].paths = {}
            /\ \A v \in Workers \ {w} : job'[v] = job[v]
        BY <2>3 DEF TypeOK, Job
      <3> QED
        BY <2>1, <3>1, QuietFiles
    <2> QED
      BY <1>7, <2>2, <2>3 DEF ImportLooks
  <1>8. ASSUME NEW w \in Workers, ImportGivesUp(w) \/ RemoveFails(w)
        PROVE  FileInv'
    <2>1. Competing' = Competing /\ UNCHANGED <<has, file, raised>>
      BY <1>8 DEF ImportGivesUp, RemoveFails, Competing, Live
    <2>2. /\ job'[w].pc = "idle" /\ job'[w].paths = {}
          /\ \A v \in Workers \ {w} : job'[v] = job[v]
      BY <1>8 DEF TypeOK, ImportGivesUp, RemoveFails, Idle
    <2> QED
      BY <2>1, <2>2, QuietFiles
  <1>9. ASSUME NEW w \in Workers, ImportInDoubt(w)
        PROVE  FileInv'
    <2>1. Committing(w) /\ UNCHANGED <<row, file, raised>> /\ Competing' = Competing
      BY <1>9 DEF ImportInDoubt, Committing, Competing, Live
    <2>2. /\ job'[w].pc = "idle" /\ job'[w].paths = {}
          /\ \A v \in Workers \ {w} : job'[v] = job[v]
      BY <1>9 DEF TypeOK, ImportInDoubt, Idle
    <2>3. CASE has' = has
      BY <2>1, <2>2, <2>3, QuietFiles
    <2>4. CASE has' = Publish(job[w].score)
      BY <2>1, <2>2, <2>4, PublishFiles
    <2> QED
      BY <1>9, <2>3, <2>4 DEF ImportInDoubt
  <1>10. ASSUME NEW w \in Workers, ImportWrites(w)
         PROVE  FileInv'
    <2> DEFINE s == job[w].score
    <2>1. /\ Competing' = Competing /\ UNCHANGED <<has, raised>>
          /\ s \in Competing /\ file[s] = "none" /\ Importing(w)
      BY <1>10 DEF ImportWrites, Importing, Owns, Competing, Live
    <2>2. file'[s] = "import" /\ \A t \in Scores \ {s} : file'[t] = file[t]
      BY <1>10, <2>1 DEF TypeOK, ImportWrites, Competing, Live
    <2>3. /\ job'[w].pc = "commitImport" /\ job'[w].score = s /\ job'[w].paths = job[w].paths
          /\ \A v \in Workers \ {w} : job'[v] = job[v] /\ ~Committing(v)
      BY <1>10, FreeLock DEF TypeOK, ImportWrites
    <2>4. OfferedInv'
      BY <2>1, <2>2 DEF FileInv, OfferedInv, Competing, Live
    <2>5. RemovedInv'
      BY <2>1, <2>3, OwnsUnchanged DEF FileInv, RemovedInv
    <2>6. s \notin raised => ~has[s]
      BY <2>1 DEF FileInv, OfferedInv
    <2>7. WrittenInv'
      <3>1. ASSUME NEW v \in Workers \ {w}, job[v].pc = "removeOwned"
            PROVE  file'[job[v].score] = file[job[v].score]
        BY <2>1, <2>2, <3>1 DEF ImportInv, Importing
      <3> QED
        BY <2>1, <2>2, <2>3, <2>6, <3>1 DEF FileInv, WrittenInv, Committing
    <2> QED
      BY <2>4, <2>5, <2>7 DEF FileInv
  <1>11. ASSUME NEW w \in Workers, ImportFails(w)
         PROVE  FileInv'
    <2>1. Competing' = Competing /\ UNCHANGED <<has, file, raised>>
      BY <1>11 DEF ImportFails, Competing, Live
    <2>2. /\ job[w].pc = "commitImport" /\ job'[w].pc = "removeOwned"
          /\ job'[w].score = job[w].score /\ job'[w].paths = job[w].paths
          /\ \A v \in Workers \ {w} : job'[v] = job[v]
      BY <1>11 DEF TypeOK, ImportFails
    <2>3. OfferedInv'
      BY <2>1 DEF FileInv, OfferedInv
    <2>4. RemovedInv'
      BY <2>1, <2>2, OwnsUnchanged DEF FileInv, RemovedInv
    <2>5. WrittenInv'
      BY <2>1, <2>2 DEF FileInv, WrittenInv
    <2> QED
      BY <2>3, <2>4, <2>5 DEF FileInv
  <1>12. ASSUME NEW w \in Workers, ImportCleans(w)
         PROVE  FileInv'
    <2> DEFINE s == job[w].score
    <2>1. Competing' = Competing /\ UNCHANGED <<has, raised>> /\ job[w].pc = "removeOwned"
      BY <1>12 DEF ImportCleans, Competing, Live
    <2>2. /\ \A t \in Scores \ {s} : file'[t] = file[t]
          /\ file[s] # "import" => file' = file
      BY <1>12 DEF TypeOK, ImportCleans
    <2>3. /\ job'[w].pc = "idle" /\ job'[w].paths = {}
          /\ \A v \in Workers \ {w} : job'[v] = job[v]
      BY <1>12 DEF TypeOK, ImportCleans, Idle
    <2>4. OfferedInv'
      BY <2>1, <2>2 DEF FileInv, OfferedInv, WrittenInv, Competing, Live
    <2>5. RemovedInv'
      BY <2>1, <2>3, OwnsUnchanged DEF FileInv, RemovedInv
    <2>6. WrittenInv'
      <3>1. ASSUME NEW v \in Workers \ {w}, job[v].pc \in {"commitImport", "removeOwned"}
            PROVE  file'[job[v].score] = file[job[v].score]
        BY <2>1, <2>2, <3>1 DEF ImportInv, Importing
      <3>2. ASSUME NEW v \in Workers \ {w}, job[v].pc = "commitUpload",
                   job[v].score \notin raised
            PROVE  file'[job[v].score] = "client"
        <4>1. file[job[v].score] = "client" /\ job[v].score \in Scores
          BY <3>2 DEF FileInv, WrittenInv, LockInv, Committing, Owns, Competing, Live
        <4> QED
          BY <2>2, <4>1
      <3> QED
        BY <2>1, <2>3, <3>1, <3>2 DEF FileInv, WrittenInv
    <2> QED
      BY <2>4, <2>5, <2>6 DEF FileInv
  <1>13. ASSUME NEW w \in Workers, NEW s \in Scores, DeleteScore(w, s)
         PROVE  FileInv'
    <2>1. row'[s] = "deleted" /\ \A t \in Scores \ {s} : row'[t] = row[t]
      BY <1>13 DEF TypeOK, DeleteScore
    <2>2. s \in Failed
      BY <2>1 DEF Kept
    <2>3. /\ Competing' = Competing /\ UNCHANGED <<file, raised>>
          /\ \A t \in Competing : has'[t] => has[t]
      BY <1>13, <2>1, <2>2 DEF TypeOK, DeleteScore, Competing, Live
    <2>4. /\ job'[w].pc = "remove" /\ job'[w].paths \subseteq {s}
          /\ \A v \in Workers \ {w} : job'[v] = job[v]
      BY <1>13 DEF TypeOK, DeleteScore, Job
    <2> QED
      BY <2>2, <2>3, <2>4, QuietFiles
  <1>14. ASSUME NEW w \in Workers, Remove(w)
         PROVE  FileInv'
    <2>1. Competing' = Competing /\ UNCHANGED <<has, raised>> /\ job[w].pc = "remove"
      BY <1>14 DEF Remove, Competing, Live
    <2>2. ASSUME job[w].paths = {}, job' = [job EXCEPT ![w] = Idle], file' = file
          PROVE  FileInv'
      <3>1. /\ job'[w].pc = "idle" /\ job'[w].paths = {}
            /\ \A v \in Workers \ {w} : job'[v] = job[v]
        BY <2>2 DEF TypeOK, Idle
      <3> QED
        BY <2>1, <2>2, <3>1, QuietFiles
    <2>3. ASSUME NEW p \in job[w].paths, file' = [file EXCEPT ![p] = "none"],
                 job' = [job EXCEPT ![w].paths = @ \ {p}]
          PROVE  FileInv'
      <3>1. /\ job'[w].pc = "remove" /\ job'[w].paths \subseteq job[w].paths
            /\ \A v \in Workers \ {w} : job'[v] = job[v]
        BY <2>1, <2>3 DEF TypeOK
      <3>2. \A t \in Scores : (t # p => file'[t] = file[t]) /\ (t = p => file'[t] = "none")
        BY <2>3 DEF TypeOK
      <3>3. p \in Failed \cup raised \/ (p \in Competing /\ ~Owns(p) /\ ~has[p])
        BY DEF FileInv, RemovedInv
      <3>4. OfferedInv'
        BY <2>1, <3>2, <3>3 DEF FileInv, OfferedInv, Competing, Live
      <3>5. RemovedInv'
        BY <2>1, <3>1, OwnsUnchanged DEF FileInv, RemovedInv
      <3>6. ASSUME NEW v \in Workers, Committing(v), job[v].score \notin raised
            PROVE  file'[job[v].score] = file[job[v].score]
        <4>1. Owns(job[v].score) /\ job[v].score \in Scores \ Failed
          BY <3>6 DEF LockInv, Owns, Competing, Live
        <4> QED
          BY <3>2, <3>3, <3>6, <4>1
      <3>7. ASSUME NEW v \in Workers, job[v].pc = "removeOwned", job[v].score \in Competing,
                   file'[job[v].score] = "import"
            PROVE  file[job[v].score] = "import"
        BY <3>2, <3>7 DEF Competing, Live
      <3>8. WrittenInv'
        BY <2>1, <3>1, <3>6, <3>7 DEF FileInv, WrittenInv, Committing
      <3> QED
        BY <3>4, <3>5, <3>8 DEF FileInv
    <2> QED
      BY <1>14, <2>2, <2>3 DEF Remove
  <1>15. ASSUME NEW w \in Workers, CleanupFiles(w)
         PROVE  FileInv'
    <2>1. /\ Competing' = Competing /\ UNCHANGED <<has, raised>>
          /\ \A t \in Scores \ Failed : file'[t] = file[t]
      BY <1>15 DEF CleanupFiles, Competing, Live
    <2>2. /\ job'[w].pc = "cleanup" /\ job'[w].paths = {}
          /\ \A v \in Workers \ {w} : job'[v] = job[v] /\ ~Committing(v)
      BY <1>15, FreeLock DEF TypeOK, CleanupFiles, Job
    <2>3. OfferedInv'
      BY <2>1 DEF FileInv, OfferedInv, Competing, Live
    <2>4. RemovedInv'
      BY <2>1, <2>2, OwnsUnchanged DEF FileInv, RemovedInv
    <2>5. WrittenInv'
      BY <2>1, <2>2 DEF FileInv, WrittenInv, Committing, Competing, Live
    <2> QED
      BY <2>3, <2>4, <2>5 DEF FileInv
  <1>16. ASSUME NEW w \in Workers, CleanupCommits(w)
         PROVE  FileInv'
    <2>1. /\ UNCHANGED <<file, raised>>
          /\ \A t \in Scores \ Failed : row'[t] = row[t] /\ has'[t] = has[t]
      BY <1>16 DEF TypeOK, CleanupCommits, Live
    <2>2. Competing' = Competing /\ \A t \in Competing : has'[t] => has[t]
      BY <2>1 DEF Competing, Live
    <2>3. /\ job'[w].pc = "idle" /\ job'[w].paths = {}
          /\ \A v \in Workers \ {w} : job'[v] = job[v]
      BY <1>16 DEF TypeOK, CleanupCommits, Idle
    <2> QED
      BY <2>1, <2>2, <2>3, QuietFiles
  <1>17. CASE Crash
    <2>1. Competing' = Competing /\ UNCHANGED <<has, file, raised>>
      BY <1>17 DEF Crash, Competing, Live
    <2>2. \A w \in Workers : job'[w].pc = "idle" /\ job'[w].paths = {}
      BY <1>17 DEF Crash, Idle
    <2> QED
      BY <2>1, <2>2 DEF FileInv, OfferedInv, RemovedInv, WrittenInv
  <1>18. CASE UNCHANGED vars
    <2>1. Competing' = Competing /\ UNCHANGED <<has, file, raised, job>>
      BY <1>18 DEF vars, Competing, Live
    <2>2. OfferedInv' /\ WrittenInv'
      BY <2>1 DEF FileInv, OfferedInv, WrittenInv
    <2>3. RemovedInv'
      BY <2>1, OwnsUnchanged DEF FileInv, RemovedInv
    <2> QED
      BY <2>2, <2>3 DEF FileInv
  <1> QED
    BY <1>1, <1>2, <1>3, <1>4, <1>5, <1>6, <1>7, <1>8, <1>9, <1>10, <1>11, <1>12, <1>13,
       <1>14, <1>15, <1>16, <1>17, <1>18 DEF Next, Work

LEMMA FileInit == Init => FileInv
  <1> SUFFICES ASSUME Init PROVE FileInv
    OBVIOUS
  <1>1. Competing = {} /\ \A w \in Workers : job[w].pc = "idle" /\ job[w].paths = {}
    BY DEF Init, Idle, Competing, Live
  <1> QED
    BY <1>1 DEF FileInv, OfferedInv, RemovedInv, WrittenInv

\* A replay that is offered can be read as long as no score of the slot is
\* deleted, but for scores whose upload met a commit that raised.
THEOREM OfferedAlwaysExist == Spec => []OfferedReplaysExist
  <1> DEFINE Files == Kept => FileInv
  <1>1. Init => Files
    BY FileInit
  <1>2. TypeOK /\ LockInv /\ SlotInv /\ ImportInv /\ Files /\ [Next]_vars => Files'
    BY KeptBefore, FileStep
  <1>3. Files => OfferedReplaysExist
    BY DEF FileInv, OfferedInv, Kept, OfferedReplaysExist
  <1> HIDE DEF Files
  <1> QED
    BY <1>1, <1>2, <1>3, SlotsAlwaysOwned, PTL DEF Spec

(***************************************************************************)
(* No file is leaked.  Until a crash or a fault, each file that no score   *)
(* offers is some worker's business: about to be offered or removed.       *)
(***************************************************************************)
Undisturbed == crashes = 0 /\ faults = 0

\* The worker will offer the replay of the score, or remove its file.
AnswersFor(w, s) ==
    \/ Committing(w) /\ job[w].score = s
    \/ s \in job[w].paths

\* Only a worker that removes files has files left to remove.
ListsInv == \A w \in Workers : job[w].pc # "remove" => job[w].paths = {}

\* A file that is neither offered nor in a worker's hands.
Stray(s) == file[s] # "none" /\ ~has[s] /\ \A w \in Workers : ~AnswersFor(w, s)

AccountedInv == \A s \in Scores \ Failed : ~Stray(s)

LEMMA ListsStep ==
    ASSUME TypeOK, ListsInv, [Next]_vars
    PROVE  ListsInv'
  <1> USE DEF TypeOK, ListsInv, Job, Idle
  <1>1. ASSUME NEW w \in Workers, NEW s \in Scores,
               UploadDiscards(w, s) \/ UploadWrites(w, s) \/ DeleteScore(w, s)
        PROVE  ListsInv'
    BY <1>1 DEF UploadDiscards, UploadWrites, DeleteScore
  <1>2. ASSUME NEW w \in Workers, NEW s \in Scores, ImportLooks(w, s)
        PROVE  ListsInv'
    <2>1. CASE job' = job
      BY <2>1
    <2>2. CASE job' = [job EXCEPT ![w] = Job("import", s, FALSE, {})]
      BY <2>2
    <2> QED
      BY <1>2, <2>1, <2>2 DEF ImportLooks
  <1>3. ASSUME NEW w \in Workers,
               UploadCommits(w) \/ UploadFails(w) \/ UploadInDoubt(w) \/ ImportCommits(w)
        PROVE  ListsInv'
    BY <1>3 DEF UploadCommits, UploadFails, UploadInDoubt, ImportCommits
  <1>4. ASSUME NEW w \in Workers,
               \/ ImportGivesUp(w) \/ ImportInDoubt(w) \/ ImportCleans(w) \/ RemoveFails(w)
               \/ CleanupFiles(w) \/ CleanupCommits(w)
        PROVE  ListsInv'
    BY <1>4 DEF ImportGivesUp, ImportInDoubt, ImportCleans, RemoveFails, CleanupFiles,
                CleanupCommits
  <1>5. ASSUME NEW w \in Workers, ImportWrites(w) \/ ImportFails(w)
        PROVE  ListsInv'
    BY <1>5 DEF ImportWrites, ImportFails
  <1>6. ASSUME NEW w \in Workers, Remove(w)
        PROVE  ListsInv'
    <2>1. /\ job'[w].pc = "remove" \/ job'[w].paths = {}
          /\ \A v \in Workers \ {w} : job'[v] = job[v]
      BY <1>6 DEF Remove
    <2> QED
      BY <2>1
  <1>7. ASSUME Crash \/ UNCHANGED vars \/ \E s \in Scores : Submit(s)
        PROVE  ListsInv'
    BY <1>7 DEF Crash, vars, Submit
  <1> QED
    BY <1>1, <1>2, <1>3, <1>4, <1>5, <1>6, <1>7 DEF Next, Work

\* A step of one worker strands no file of the slot when each file it leaves
\* unoffered was already so, and not the worker's own.
LEMMA NothingStranded ==
    ASSUME AccountedInv, NEW w \in Workers,
           \A v \in Workers \ {w} : job'[v] = job[v],
           \A s \in Scores \ Failed :
               file'[s] # "none" /\ ~has'[s] /\ ~AnswersFor(w, s)' =>
                   file[s] # "none" /\ ~has[s] /\ ~AnswersFor(w, s)
    PROVE  AccountedInv'
  <1> SUFFICES ASSUME NEW s \in Scores \ Failed, Stray(s)'
               PROVE  FALSE
    BY DEF AccountedInv
  <1>1. file'[s] # "none" /\ ~has'[s] /\ \A v \in Workers : ~AnswersFor(v, s)'
    BY DEF Stray
  <1>2. file[s] # "none" /\ ~has[s] /\ ~AnswersFor(w, s)
    BY <1>1
  <1>3. \A v \in Workers \ {w} : ~AnswersFor(v, s)
    BY <1>1 DEF AnswersFor, Committing
  <1> QED
    BY <1>2, <1>3 DEF AccountedInv, Stray

\* Neither a crash nor a fault is forgotten.
LEMMA UndisturbedBefore ==
    ASSUME TypeOK, [Next]_vars, Undisturbed'
    PROVE  /\ Undisturbed /\ ~Crash
           /\ \A w \in Workers : /\ ~UploadFails(w) /\ ~UploadInDoubt(w) /\ ~ImportFails(w)
                                 /\ ~ImportInDoubt(w) /\ ~RemoveFails(w)
  <1>1. faults \in Nat /\ crashes \in Nat
    BY ScoresAreNumbers DEF TypeOK
  <1>2. faults' # faults + 1 /\ crashes' # crashes + 1
    BY <1>1 DEF Undisturbed
  <1>3. ~Crash /\ \A w \in Workers : /\ ~UploadFails(w) /\ ~UploadInDoubt(w) /\ ~ImportFails(w)
                                     /\ ~ImportInDoubt(w) /\ ~RemoveFails(w)
    BY <1>2 DEF Crash, UploadFails, UploadInDoubt, ImportFails, ImportInDoubt, RemoveFails
  <1>4. faults' = faults /\ crashes' = crashes
    BY <1>3 DEF Next, Work, vars, Submit, UploadDiscards, UploadWrites, ImportLooks, DeleteScore,
                UploadCommits, ImportGivesUp, ImportWrites, ImportCommits, ImportCleans, Remove,
                CleanupFiles, CleanupCommits
  <1> QED
    BY <1>3, <1>4 DEF Undisturbed

LEMMA AccountedStep ==
    ASSUME TypeOK, ListsInv, Undisturbed => AccountedInv, [Next]_vars, Undisturbed'
    PROVE  AccountedInv'
  <1>0. AccountedInv
    BY UndisturbedBefore
  <1> USE DEF AnswersFor, Committing
  <1>1. ASSUME NEW s \in Scores, Submit(s)
        PROVE  AccountedInv'
    BY <1>0, <1>1 DEF Submit, AccountedInv, Stray
  <1>2. ASSUME NEW w \in Workers, NEW s \in Scores, UploadDiscards(w, s)
        PROVE  AccountedInv'
    <2>1. file' = file /\ \A t \in Scores \ {s} : has'[t] = has[t]
      BY <1>2 DEF TypeOK, UploadDiscards
    <2>2. /\ job'[w].paths = {s} /\ \A v \in Workers \ {w} : job'[v] = job[v]
          /\ job[w].paths = {} /\ job[w].pc = "idle"
      BY <1>2 DEF TypeOK, ListsInv, UploadDiscards, Job
    <2> QED
      BY <1>0, <2>1, <2>2, NothingStranded
  <1>3. ASSUME NEW w \in Workers, NEW s \in Scores, UploadWrites(w, s)
        PROVE  AccountedInv'
    <2>1. has' = has /\ \A t \in Scores \ {s} : file'[t] = file[t]
      BY <1>3 DEF TypeOK, UploadWrites
    <2>2. /\ job'[w].pc = "commitUpload" /\ job'[w].score = s
          /\ \A v \in Workers \ {w} : job'[v] = job[v]
          /\ job[w].paths = {} /\ job[w].pc = "idle"
      BY <1>3 DEF TypeOK, ListsInv, UploadWrites, Job
    <2> QED
      BY <1>0, <2>1, <2>2, NothingStranded
  <1>4. ASSUME NEW w \in Workers, UploadCommits(w) \/ ImportCommits(w)
        PROVE  AccountedInv'
    <2>1. has' = Publish(job[w].score) /\ file' = file
      BY <1>4 DEF UploadCommits, ImportCommits
    <2>2. /\ job'[w].paths = Competing \ {job[w].score}
          /\ \A v \in Workers \ {w} : job'[v] = job[v]
          /\ job[w].paths = {}
      BY <1>4 DEF TypeOK, ListsInv, UploadCommits, ImportCommits, Job
    <2>3. ASSUME NEW t \in Scores, ~has'[t]
          PROVE  t # job[w].score /\ (has[t] => t \in Competing)
      BY <2>1, <2>3 DEF Publish
    <2> QED
      BY <1>0, <2>1, <2>2, <2>3, NothingStranded
  <1>5. ASSUME NEW w \in Workers, NEW s \in Scores, ImportLooks(w, s)
        PROVE  AccountedInv'
    <2>1. has' = has /\ file' = file /\ job[w].paths = {} /\ job[w].pc = "idle"
      BY <1>5 DEF ImportLooks, ListsInv
    <2>2. \A v \in Workers \ {w} : job'[v] = job[v]
      <3>1. CASE job' = job
        BY <3>1
      <3>2. CASE job' = [job EXCEPT ![w] = Job("import", s, FALSE, {})]
        BY <3>2 DEF TypeOK
      <3> QED
        BY <1>5, <3>1, <3>2 DEF ImportLooks
    <2> QED
      BY <1>0, <2>1, <2>2, NothingStranded
  <1>6. ASSUME NEW w \in Workers, ImportGivesUp(w)
        PROVE  AccountedInv'
    <2>1. has' = has /\ file' = file /\ job[w].paths = {} /\ job[w].pc = "import"
      BY <1>6 DEF ImportGivesUp, ListsInv
    <2>2. \A v \in Workers \ {w} : job'[v] = job[v]
      BY <1>6 DEF TypeOK, ImportGivesUp
    <2> QED
      BY <1>0, <2>1, <2>2, NothingStranded
  <1>7. ASSUME NEW w \in Workers, ImportWrites(w)
        PROVE  AccountedInv'
    <2>1. has' = has /\ \A t \in Scores \ {job[w].score} : file'[t] = file[t]
      BY <1>7 DEF TypeOK, ImportWrites
    <2>2. /\ job'[w].pc = "commitImport" /\ job'[w].score = job[w].score
          /\ \A v \in Workers \ {w} : job'[v] = job[v]
          /\ job[w].paths = {} /\ job[w].pc = "import"
      BY <1>7 DEF TypeOK, ListsInv, ImportWrites
    <2> QED
      BY <1>0, <2>1, <2>2, NothingStranded
  <1>8. ASSUME NEW w \in Workers, ImportCleans(w)
        PROVE  AccountedInv'
    <2>1. has' = has /\ \A t \in Scores : file'[t] # "none" => file[t] # "none"
      BY <1>8 DEF TypeOK, ImportCleans
    <2>2. /\ \A v \in Workers \ {w} : job'[v] = job[v]
          /\ job[w].paths = {} /\ job[w].pc = "removeOwned"
      BY <1>8 DEF TypeOK, ListsInv, ImportCleans
    <2> QED
      BY <1>0, <2>1, <2>2, NothingStranded
  <1>9. ASSUME NEW w \in Workers, NEW s \in Scores, DeleteScore(w, s)
        PROVE  AccountedInv'
    <2>1. file' = file /\ \A t \in Scores \ {s} : has'[t] = has[t]
      BY <1>9 DEF TypeOK, DeleteScore
    <2>2. /\ job'[w].paths = {t \in {s} : has[t]} /\ \A v \in Workers \ {w} : job'[v] = job[v]
          /\ job[w].paths = {} /\ job[w].pc = "idle"
      BY <1>9 DEF TypeOK, ListsInv, DeleteScore, Job
    <2> QED
      BY <1>0, <2>1, <2>2, NothingStranded
  <1>10. ASSUME NEW w \in Workers, Remove(w)
         PROVE  AccountedInv'
    <2>1. has' = has /\ job[w].pc = "remove"
      BY <1>10 DEF Remove
    <2>2. ASSUME job[w].paths = {}, job' = [job EXCEPT ![w] = Idle], file' = file
          PROVE  AccountedInv'
      <3>1. \A v \in Workers \ {w} : job'[v] = job[v]
        BY <2>2 DEF TypeOK
      <3> QED
        BY <1>0, <2>1, <2>2, <3>1, NothingStranded
    <2>3. ASSUME NEW p \in job[w].paths, file' = [file EXCEPT ![p] = "none"],
                 job' = [job EXCEPT ![w].paths = @ \ {p}]
          PROVE  AccountedInv'
      <3>1. /\ job'[w].paths = job[w].paths \ {p}
            /\ \A v \in Workers \ {w} : job'[v] = job[v]
        BY <2>3 DEF TypeOK
      <3>2. \A t \in Scores : (t # p => file'[t] = file[t]) /\ (t = p => file'[t] = "none")
        BY <2>3 DEF TypeOK
      <3> QED
        BY <1>0, <2>1, <3>1, <3>2, NothingStranded
    <2> QED
      BY <1>10, <2>2, <2>3 DEF Remove
  <1>11. ASSUME NEW w \in Workers, CleanupFiles(w)
         PROVE  AccountedInv'
    <2>1. has' = has /\ \A t \in Scores \ Failed : file'[t] = file[t]
      BY <1>11 DEF CleanupFiles
    <2>2. /\ \A v \in Workers \ {w} : job'[v] = job[v]
          /\ job[w].paths = {} /\ job[w].pc = "idle"
      BY <1>11 DEF TypeOK, ListsInv, CleanupFiles
    <2> QED
      BY <1>0, <2>1, <2>2, NothingStranded
  <1>12. ASSUME NEW w \in Workers, CleanupCommits(w)
         PROVE  AccountedInv'
    <2>1. file' = file /\ \A t \in Scores \ Failed : has'[t] = has[t]
      BY <1>12 DEF TypeOK, CleanupCommits
    <2>2. /\ \A v \in Workers \ {w} : job'[v] = job[v]
          /\ job[w].paths = {} /\ job[w].pc = "cleanup"
      BY <1>12 DEF TypeOK, ListsInv, CleanupCommits
    <2> QED
      BY <1>0, <2>1, <2>2, NothingStranded
  <1>13. CASE UNCHANGED vars
    BY <1>0, <1>13 DEF vars, AccountedInv, Stray
  <1> QED
    BY <1>1, <1>2, <1>3, <1>4, <1>5, <1>6, <1>7, <1>8, <1>9, <1>10, <1>11, <1>12, <1>13,
       UndisturbedBefore DEF Next, Work

\* Without crashes and faults no file is left that no score offers, once every
\* upload, import, deletion and cleanup has ended.
THEOREM NothingLeaked == Spec => []NoFilesLeaked
  <1> DEFINE Accounted == ListsInv /\ (Undisturbed => AccountedInv)
  <1>1. Init => Accounted
    BY DEF Init, Idle, ListsInv, AccountedInv, Stray
  <1>2. TypeOK /\ Accounted /\ [Next]_vars => Accounted'
    BY ListsStep, AccountedStep
  <1>3. Accounted => NoFilesLeaked
    BY DEF Idle, AccountedInv, Stray, AnswersFor, Committing, Undisturbed, NoFilesLeaked
  <1> HIDE DEF Accounted
  <1> QED
    BY <1>1, <1>2, <1>3, SlotsAlwaysOwned, PTL DEF Spec

(***************************************************************************)
(* The storage implements the slot (ReplaySlot).                           *)
(***************************************************************************)
LEMMA LeadsOwns ==
    ASSUME NEW s
    PROVE  Slot!Leads(s) <=> Owns(s)
  BY DEF Slot!Leads, Slot!Ahead, Owns, Better

\* What the slot shows depends on the rows and flags of the scores that were
\* not failed.
LEMMA SlotUnseen ==
    ASSUME \A s \in Scores \ Failed : row'[s] = row[s] /\ has'[s] = has[s]
    PROVE  UNCHANGED Slot!slotVars
  <1>1. Competing' = Competing /\ Withdrawn' = Withdrawn
    BY DEF Competing, Live, Withdrawn
  <1>2. Offered' = Offered
    BY <1>1 DEF Offered, Competing, Live
  <1> QED
    BY <1>1, <1>2 DEF Slot!slotVars

\* A publication shows the leading score.
LEMMA PublishShows ==
    ASSUME TypeOK, NEW s, Owns(s), has' = Publish(s), row' = row
    PROVE  Slot!SlotNext
  <1>1. s \in Scores \ Failed /\ s \in Competing
    BY DEF Owns, Competing, Live
  <1>2. Competing' = Competing /\ Withdrawn' = Withdrawn
    BY DEF Competing, Live, Withdrawn
  <1>3. \A t \in Competing : has'[t] <=> t = s
    BY DEF Publish, Competing, Live
  <1>4. Offered' = {s}
    BY <1>1, <1>2, <1>3 DEF Offered
  <1>5. Slot!Show(s)
    BY <1>2, <1>4, LeadsOwns DEF Slot!Show
  <1> QED
    BY <1>1, <1>5 DEF Slot!SlotNext

\* A score that was not failed enters without a replay.
LEMMA SubmitEnters ==
    ASSUME TypeOK, SlotInv, NEW s \in Scores, Submit(s)
    PROVE  Slot!SlotNext \/ UNCHANGED Slot!slotVars
  <1>1. /\ row[s] = "new" /\ row'[s] = "live" /\ ~has[s]
        /\ has' = has /\ \A t \in Scores \ {s} : row'[t] = row[t]
    BY DEF TypeOK, SlotInv, Submit
  <1>2. CASE s \in Failed
    BY <1>1, <1>2, SlotUnseen
  <1>3. CASE s \notin Failed
    <2>1. s \notin Competing /\ s \notin Withdrawn
      BY <1>1 DEF Competing, Live, Withdrawn
    <2>2. Competing' = Competing \cup {s}
      BY <1>1, <1>3 DEF Competing, Live
    <2>3. Withdrawn' = Withdrawn
      BY <1>1, <1>3 DEF Withdrawn
    <2>4. Offered' = Offered
      BY <1>1, <2>1, <2>2 DEF Offered
    <2>5. Slot!Enter(s)
      BY <2>1, <2>2, <2>3, <2>4 DEF Slot!Enter
    <2> QED
      BY <1>3, <2>5 DEF Slot!SlotNext
  <1> QED
    BY <1>2, <1>3

\* A score that does not lead loses what it offers.
LEMMA DiscardHides ==
    ASSUME TypeOK, NEW w \in Workers, NEW s \in Scores, UploadDiscards(w, s)
    PROVE  Slot!SlotNext \/ UNCHANGED Slot!slotVars
  <1>1. /\ ~Owns(s) /\ row' = row /\ ~has'[s]
        /\ \A t \in Scores \ {s} : has'[t] = has[t]
    BY DEF TypeOK, UploadDiscards
  <1>2. CASE s \in Failed
    BY <1>1, <1>2, SlotUnseen
  <1>3. CASE s \notin Failed
    <2>1. Competing' = Competing /\ Withdrawn' = Withdrawn
      BY <1>1 DEF Competing, Live, Withdrawn
    <2>2. Competing \subseteq Scores
      BY DEF Competing, Live
    <2>3. Offered' = Offered \ {s}
      BY <1>1, <2>1, <2>2 DEF Offered
    <2>4. Slot!Hide(s)
      BY <1>1, <2>1, <2>3, LeadsOwns DEF Slot!Hide
    <2> QED
      BY <1>3, <2>4 DEF Slot!SlotNext
  <1> QED
    BY <1>2, <1>3

\* A deletion takes the score and its replay away.
LEMMA DeletionWithdraws ==
    ASSUME TypeOK, NEW w \in Workers, NEW s \in Scores, DeleteScore(w, s)
    PROVE  Slot!SlotNext \/ UNCHANGED Slot!slotVars
  <1>1. /\ row[s] = "live" /\ row'[s] = "deleted" /\ ~has'[s]
        /\ \A t \in Scores \ {s} : row'[t] = row[t] /\ has'[t] = has[t]
    BY DEF TypeOK, DeleteScore, Live
  <1>2. CASE s \in Failed
    BY <1>1, <1>2, SlotUnseen
  <1>3. CASE s \notin Failed
    <2>1. s \in Competing
      BY <1>1, <1>3 DEF Competing, Live
    <2>2. Competing' = Competing \ {s}
      BY <1>1 DEF Competing, Live
    <2>3. Withdrawn' = Withdrawn \cup {s}
      BY <1>1, <1>3 DEF Withdrawn
    <2>4. Competing \subseteq Scores
      BY DEF Competing, Live
    <2>5. Offered' = Offered \ {s}
      BY <1>1, <2>2, <2>4 DEF Offered
    <2>6. Slot!Withdraw(s)
      BY <2>1, <2>2, <2>3, <2>5 DEF Slot!Withdraw
    <2> QED
      BY <1>3, <2>6 DEF Slot!SlotNext
  <1> QED
    BY <1>2, <1>3

\* Each step of the storage is one of the slot's, or is not seen there.
LEMMA StoreStep ==
    ASSUME TypeOK, LockInv, SlotInv, [Next]_vars
    PROVE  [Slot!SlotNext]_Slot!slotVars
  <1> USE DEF Committing
  <1>1. ASSUME NEW w \in Workers, UploadCommits(w) \/ UploadInDoubt(w) \/ ImportCommits(w)
        PROVE  Slot!SlotNext
    <2>1. Owns(job[w].score)
      BY <1>1 DEF LockInv, UploadCommits, UploadInDoubt, ImportCommits
    <2>2. has' = Publish(job[w].score) /\ row' = row
      BY <1>1 DEF UploadCommits, UploadInDoubt, ImportCommits
    <2> QED
      BY <2>1, <2>2, PublishShows
  <1>2. ASSUME NEW w \in Workers, ImportInDoubt(w)
        PROVE  Slot!SlotNext \/ UNCHANGED Slot!slotVars
    <2>1. Owns(job[w].score) /\ row' = row
      BY <1>2 DEF LockInv, ImportInDoubt
    <2>2. has' = Publish(job[w].score) \/ has' = has
      BY <1>2 DEF ImportInDoubt
    <2> QED
      BY <2>1, <2>2, PublishShows, SlotUnseen
  <1>3. ASSUME NEW w \in Workers, NEW s \in Scores, UploadWrites(w, s) \/ ImportLooks(w, s)
        PROVE  UNCHANGED Slot!slotVars
    <2>1. row' = row /\ has' = has
      BY <1>3 DEF UploadWrites, ImportLooks
    <2> QED
      BY <2>1, SlotUnseen
  <1>4. ASSUME NEW w \in Workers,
               \/ UploadFails(w) \/ ImportGivesUp(w) \/ ImportWrites(w) \/ ImportFails(w)
               \/ ImportCleans(w) \/ Remove(w) \/ RemoveFails(w) \/ CleanupFiles(w)
        PROVE  UNCHANGED Slot!slotVars
    <2>1. row' = row /\ has' = has
      BY <1>4 DEF UploadFails, ImportGivesUp, ImportWrites, ImportFails, ImportCleans, Remove,
                  RemoveFails, CleanupFiles
    <2> QED
      BY <2>1, SlotUnseen
  <1>5. ASSUME NEW w \in Workers, CleanupCommits(w)
        PROVE  UNCHANGED Slot!slotVars
    <2>1. \A s \in Scores \ Failed : row'[s] = row[s] /\ has'[s] = has[s]
      BY <1>5 DEF TypeOK, CleanupCommits, Live
    <2> QED
      BY <2>1, SlotUnseen
  <1>6. ASSUME Crash \/ UNCHANGED vars
        PROVE  UNCHANGED Slot!slotVars
    <2>1. row' = row /\ has' = has
      BY <1>6 DEF Crash, vars
    <2> QED
      BY <2>1, SlotUnseen
  <1> QED
    BY <1>1, <1>2, <1>3, <1>4, <1>5, <1>6, SubmitEnters, DiscardHides, DeletionWithdraws
       DEF Next, Work

\* The storage keeps the contract of the slot: a replay is replaced only by that
\* of the score that leads, and is hidden only with its score or after it was
\* overtaken (save_replay, _finalise_import_replay).
THEOREM StoreKeepsSlot == Spec => KeepsSlot
  <1>1. Init => Slot!SlotInit
    <2> SUFFICES ASSUME Init PROVE Slot!SlotInit
      OBVIOUS
    <2>1. Competing = {} /\ Withdrawn = {}
      BY DEF Init, Competing, Live, Withdrawn
    <2>2. Offered = {}
      BY <2>1 DEF Offered
    <2> QED
      BY <2>1, <2>2 DEF Slot!SlotInit
  <1> QED
    BY <1>1, StoreStep, SlotsAlwaysOwned, PTL DEF Spec, KeepsSlot, Slot!SlotSpec

=============================================================================
