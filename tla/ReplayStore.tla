---------------------------- MODULE ReplayStore ----------------------------
(***************************************************************************)
(* The replay files of one player's scores on one beatmap, in one mode and *)
(* with one combination of mods: the scores that compete for one replay    *)
(* slot.  A score row says whether its replay is available (has_replay);   *)
(* the file lies in the storage service under a path made of the score id. *)
(* Uploads of the spectator server (app/router/lio.py), finalised imports  *)
(* (app/router/private/admin_panel.py), deletions of scores and the        *)
(* cleanup of failed plays change both, one after the other.               *)
(*                                                                         *)
(* The rows of the player and beatmap are locked together, so one lock     *)
(* stands for them; files are written under it and, but for the cleanup,   *)
(* removed after it is released.                                           *)
(***************************************************************************)
EXTENDS Naturals, FiniteSets

CONSTANTS
    Scores,      \* the ids of the scores, in the order of submission
    Total,       \* Total[s]: the total score of s
    Failed,      \* the failed plays among them
    Imported,    \* the scores that are imported with a replay
    Workers,     \* the requests and tasks that run at the same time
    NoOne,
    MaxDeletes, MaxFaults, MaxCrashes   \* bounds

ASSUME ScoresAreNumbers == /\ Scores \subseteq Nat
                           /\ Total \in [Scores -> Nat]
                           /\ Failed \subseteq Scores
                           /\ Imported \subseteq Scores \ Failed
                           /\ NoOne \notin Workers
                           /\ MaxDeletes \in Nat /\ MaxFaults \in Nat /\ MaxCrashes \in Nat

VARIABLES
    row,      \* "new" before the submission, "live", "deleted"
    has,      \* has_replay of the row
    file,     \* what lies under the path of the score
    lock,     \* the worker that holds the row locks
    job,      \* what each worker does
    todo,     \* imports whose replay is not yet finalised
    raised,   \* history: the scores for which the commit of an upload raised
    deletes, faults, crashes

vars == <<row, has, file, lock, job, todo, raised, deletes, faults, crashes>>

Contents == {"none", "client", "import"}

Idle == [pc |-> "idle", score |-> 0, was |-> FALSE, paths |-> {}]

Job(pc, s, was, paths) == [pc |-> pc, score |-> s, was |-> was, paths |-> paths]

(***************************************************************************)
(* Retention.                                                              *)
(***************************************************************************)
Live == {s \in Scores : row[s] = "live"}

\* replay_retention_eligible and replay_combination_scores.
Competing == Live \ Failed

\* The order of best_replay_score: the higher total, then the older score.
Better(s, t) == Total[s] > Total[t] \/ (Total[s] = Total[t] /\ s < t)

\* The score owns the slot.
Owns(s) == s \in Competing /\ \A t \in Competing \ {s} : Better(s, t)

\* Mutation: the rows that lose the slot keep their flag.
PublishOnly(s) == [has EXCEPT ![s] = TRUE]

\* What the publication of s commits.
Publish(s) == [t \in Scores |-> t = s \/ (has[t] /\ t \notin Competing)]

(***************************************************************************)
(* The initial state: nothing is stored but what the uploader of earlier   *)
(* versions left for failed plays, a file and perhaps the flag.            *)
(***************************************************************************)
Init ==
    /\ row = [s \in Scores |-> IF s \in Failed THEN "live" ELSE "new"]
    /\ has \in {h \in [Scores -> BOOLEAN] : \A s \in Scores \ Failed : ~h[s]}
    /\ file = [s \in Scores |-> IF s \in Failed THEN "client" ELSE "none"]
    /\ lock = NoOne
    /\ job = [w \in Workers |-> Idle]
    /\ todo = {}
    /\ raised = {}
    /\ deletes = 0 /\ faults = 0 /\ crashes = 0

\* Mutation: every new score waits for an imported replay.
SubmitAwaitsReplay(s) ==
    /\ row[s] = "new"
    /\ lock = NoOne
    /\ \A t \in Scores : t < s => row[t] # "new"
    /\ row' = [row EXCEPT ![s] = "live"]
    /\ todo' = todo \cup {s}
    /\ UNCHANGED <<has, file, lock, job, raised, deletes, faults, crashes>>

\* A score row is inserted without a replay; an import then finalises its own.
Submit(s) ==
    /\ row[s] = "new"
    /\ lock = NoOne
    /\ \A t \in Scores : t < s => row[t] # "new"
    /\ row' = [row EXCEPT ![s] = "live"]
    /\ todo' = IF s \in Imported THEN todo \cup {s} ELSE todo
    /\ UNCHANGED <<has, file, lock, job, raised, deletes, faults, crashes>>

(***************************************************************************)
(* save_replay.                                                            *)
(***************************************************************************)
\* The upload of a score that does not own the slot: the flag is cleared and
\* committed, then the file is removed.
UploadDiscards(w, s) ==
    /\ job[w].pc = "idle"
    /\ lock = NoOne
    /\ s \in Live
    /\ ~Owns(s)
    /\ has' = [has EXCEPT ![s] = FALSE]
    /\ job' = [job EXCEPT ![w] = Job("remove", s, FALSE, {s})]
    /\ UNCHANGED <<row, file, lock, todo, raised, deletes, faults, crashes>>

\* The owner's upload: the file is written while the rows are locked.
UploadWrites(w, s) ==
    /\ job[w].pc = "idle"
    /\ lock = NoOne
    /\ Owns(s)
    /\ file' = [file EXCEPT ![s] = "client"]
    /\ lock' = w
    /\ job' = [job EXCEPT ![w] = Job("commitUpload", s, has[s], {})]
    /\ UNCHANGED <<row, has, todo, raised, deletes, faults, crashes>>

\* Mutation: only the replaced replays that were offered are removed from the
\* list of files after their flags are cleared, which is none of them.
UploadKeepsSuperseded(w) ==
    LET s == job[w].score IN
    /\ job[w].pc = "commitUpload"
    /\ has' = Publish(s)
    /\ lock' = NoOne
    /\ job' = [job EXCEPT ![w] = Job("remove", s, FALSE, {t \in Competing \ {s} : has'[t]})]
    /\ UNCHANGED <<row, file, todo, raised, deletes, faults, crashes>>

\* The flags are committed, then the files of the superseded scores go.
UploadCommits(w) ==
    LET s == job[w].score IN
    /\ job[w].pc = "commitUpload"
    /\ has' = Publish(s)
    /\ lock' = NoOne
    /\ job' = [job EXCEPT ![w] = Job("remove", s, FALSE, Competing \ {s})]
    /\ UNCHANGED <<row, file, todo, raised, deletes, faults, crashes>>

\* The file that a failed commit of an upload removes.
AfterFailure(w) == IF job[w].was THEN {} ELSE {job[w].score}

UploadFails(w) ==
    LET s == job[w].score IN
    /\ job[w].pc = "commitUpload"
    /\ faults < MaxFaults
    /\ lock' = NoOne
    /\ job' = [job EXCEPT ![w] = Job("remove", s, FALSE, AfterFailure(w))]
    /\ raised' = raised \cup {s}
    /\ faults' = faults + 1
    /\ UNCHANGED <<row, has, file, todo, deletes, crashes>>

\* The commit raises although the database applied it.
UploadInDoubt(w) ==
    LET s == job[w].score IN
    /\ job[w].pc = "commitUpload"
    /\ faults < MaxFaults
    /\ has' = Publish(s)
    /\ lock' = NoOne
    /\ job' = [job EXCEPT ![w] = Job("remove", s, FALSE, AfterFailure(w))]
    /\ raised' = raised \cup {s}
    /\ faults' = faults + 1
    /\ UNCHANGED <<row, file, todo, deletes, crashes>>

(***************************************************************************)
(* _finalise_import_replay.                                                *)
(***************************************************************************)
\* The check without the lock.
ImportLooks(w, s) ==
    /\ job[w].pc = "idle"
    /\ s \in todo
    /\ todo' = todo \ {s}
    /\ job' = IF file[s] = "none" THEN [job EXCEPT ![w] = Job("import", s, FALSE, {})] ELSE job
    /\ UNCHANGED <<row, has, file, lock, raised, deletes, faults, crashes>>

\* The check under the lock: the score is gone, is not the owner or was published meanwhile.
ImportGivesUp(w) ==
    LET s == job[w].score IN
    /\ job[w].pc = "import"
    /\ lock = NoOne
    /\ ~Owns(s) \/ file[s] # "none"
    /\ job' = [job EXCEPT ![w] = Idle]
    /\ UNCHANGED <<row, has, file, lock, todo, raised, deletes, faults, crashes>>

ImportWrites(w) ==
    LET s == job[w].score IN
    /\ job[w].pc = "import"
    /\ lock = NoOne
    /\ Owns(s)
    /\ file[s] = "none"
    /\ file' = [file EXCEPT ![s] = "import"]
    /\ lock' = w
    /\ job' = [job EXCEPT ![w].pc = "commitImport"]
    /\ UNCHANGED <<row, has, todo, raised, deletes, faults, crashes>>

ImportCommits(w) ==
    LET s == job[w].score IN
    /\ job[w].pc = "commitImport"
    /\ has' = Publish(s)
    /\ lock' = NoOne
    /\ job' = [job EXCEPT ![w] = Job("remove", s, FALSE, Competing \ {s})]
    /\ UNCHANGED <<row, file, todo, raised, deletes, faults, crashes>>

\* The commit failed, as the second look at the rows confirms: the file goes.
ImportFails(w) ==
    /\ job[w].pc = "commitImport"
    /\ faults < MaxFaults
    /\ lock' = NoOne
    /\ job' = [job EXCEPT ![w].pc = "removeOwned"]
    /\ faults' = faults + 1
    /\ UNCHANGED <<row, has, file, todo, raised, deletes, crashes>>

\* Mutation: an unclear outcome is taken for a failure.
DoubtfulImportRemoved(w) ==
    LET s == job[w].score IN
    /\ job[w].pc = "commitImport"
    /\ faults < MaxFaults
    /\ \E committed \in BOOLEAN : has' = IF committed THEN Publish(s) ELSE has
    /\ lock' = NoOne
    /\ job' = [job EXCEPT ![w].pc = "removeOwned"]
    /\ faults' = faults + 1
    /\ UNCHANGED <<row, file, todo, raised, deletes, crashes>>

\* The commit raised, and the look at the rows finds it applied or finds
\* nothing out: the file is kept, and so are those of the superseded scores.
ImportInDoubt(w) ==
    LET s == job[w].score IN
    /\ job[w].pc = "commitImport"
    /\ faults < MaxFaults
    /\ \E committed \in BOOLEAN : has' = IF committed THEN Publish(s) ELSE has
    /\ lock' = NoOne
    /\ job' = [job EXCEPT ![w] = Idle]
    /\ faults' = faults + 1
    /\ UNCHANGED <<row, file, todo, raised, deletes, crashes>>

\* _delete_owned_import_replay
ImportCleans(w) ==
    LET s == job[w].score IN
    /\ job[w].pc = "removeOwned"
    /\ file' = IF file[s] = "import" THEN [file EXCEPT ![s] = "none"] ELSE file
    /\ job' = [job EXCEPT ![w] = Idle]
    /\ UNCHANGED <<row, has, lock, todo, raised, deletes, faults, crashes>>

(***************************************************************************)
(* Deletions and the cleanup of failed plays.                              *)
(***************************************************************************)
\* A score is deleted with its flag; its file is removed after the commit.
DeleteScore(w, s) ==
    /\ job[w].pc = "idle"
    /\ lock = NoOne
    /\ s \in Live
    /\ deletes < MaxDeletes
    /\ row' = [row EXCEPT ![s] = "deleted"]
    /\ has' = [has EXCEPT ![s] = FALSE]
    /\ job' = [job EXCEPT ![w] = Job("remove", s, FALSE, {t \in {s} : has[t]})]
    /\ deletes' = deletes + 1
    /\ UNCHANGED <<file, lock, todo, raised, faults, crashes>>

\* A worker removes the files it listed, one after the other.
Remove(w) ==
    /\ job[w].pc = "remove"
    /\ \/ \E p \in job[w].paths :
            /\ file' = [file EXCEPT ![p] = "none"]
            /\ job' = [job EXCEPT ![w].paths = @ \ {p}]
       \/ /\ job[w].paths = {}
          /\ job' = [job EXCEPT ![w] = Idle]
          /\ UNCHANGED file
    /\ UNCHANGED <<row, has, lock, todo, raised, deletes, faults, crashes>>

\* The storage service fails: the request ends with files left to remove.
RemoveFails(w) ==
    /\ job[w].pc = "remove"
    /\ job[w].paths # {}
    /\ faults < MaxFaults
    /\ job' = [job EXCEPT ![w] = Idle]
    /\ faults' = faults + 1
    /\ UNCHANGED <<row, has, file, lock, todo, raised, deletes, crashes>>

\* The cleanup locks the failed plays and removes their files first.
CleanupFiles(w) ==
    /\ job[w].pc = "idle"
    /\ lock = NoOne
    /\ Live \cap Failed # {}
    /\ file' = [s \in Scores |-> IF s \in Live \cap Failed THEN "none" ELSE file[s]]
    /\ lock' = w
    /\ job' = [job EXCEPT ![w] = Job("cleanup", 0, FALSE, {})]
    /\ UNCHANGED <<row, has, todo, raised, deletes, faults, crashes>>

\* Mutation: the cleanup only looks at the expired plays.
CleanupForgetsRetained(w) ==
    /\ job[w].pc = "cleanup"
    /\ \E expired \in SUBSET (Live \cap Failed) :
          /\ row' = [s \in Scores |-> IF s \in expired THEN "deleted" ELSE row[s]]
          /\ has' = [s \in Scores |-> has[s] /\ s \notin expired]
    /\ lock' = NoOne
    /\ job' = [job EXCEPT ![w] = Idle]
    /\ UNCHANGED <<file, todo, raised, deletes, faults, crashes>>

\* Expired plays are deleted, the others lose the flag.
CleanupCommits(w) ==
    /\ job[w].pc = "cleanup"
    /\ \E expired \in SUBSET (Live \cap Failed) :
          row' = [s \in Scores |-> IF s \in expired THEN "deleted" ELSE row[s]]
    /\ has' = [s \in Scores |-> has[s] /\ s \notin Failed]
    /\ lock' = NoOne
    /\ job' = [job EXCEPT ![w] = Idle]
    /\ UNCHANGED <<file, todo, raised, deletes, faults, crashes>>

\* The process stops: what was not committed is lost, files stay as they are.
Crash ==
    /\ crashes < MaxCrashes
    /\ lock' = NoOne
    /\ job' = [w \in Workers |-> Idle]
    /\ todo' = {}
    /\ crashes' = crashes + 1
    /\ UNCHANGED <<row, has, file, raised, deletes, faults>>

Work(w) ==
    \/ UploadCommits(w) \/ UploadFails(w) \/ UploadInDoubt(w)
    \/ ImportGivesUp(w) \/ ImportWrites(w)
    \/ ImportCommits(w) \/ ImportFails(w) \/ ImportInDoubt(w) \/ ImportCleans(w)
    \/ Remove(w) \/ RemoveFails(w) \/ CleanupCommits(w)

Next ==
    \/ \E s \in Scores : Submit(s)
    \/ \E w \in Workers, s \in Scores :
          \/ UploadDiscards(w, s) \/ UploadWrites(w, s)
          \/ ImportLooks(w, s) \/ DeleteScore(w, s)
    \/ \E w \in Workers : Work(w) \/ CleanupFiles(w)
    \/ Crash

Spec == Init /\ [][Next]_vars

(***************************************************************************)
(* The cleanup is a scheduled task, and a request that was started goes on *)
(* to its end unless the process stops.  The rows are locked now and then, *)
(* so the cleanup needs strong fairness to find them free.                 *)
(***************************************************************************)
FairSpec ==
    /\ Spec
    /\ \A w \in Workers : WF_vars(Work(w))
    /\ SF_vars(\E w \in Workers : CleanupFiles(w))

(***************************************************************************)
(* Properties.                                                             *)
(***************************************************************************)
\* Rows, files and jobs hold values of their types (save_replay and the others).
TypeOK ==
    /\ row \in [Scores -> {"new", "live", "deleted"}]
    /\ has \in [Scores -> BOOLEAN]
    /\ file \in [Scores -> Contents]
    /\ lock \in Workers \cup {NoOne}
    /\ job \in [Workers -> [pc : {"idle", "remove", "commitUpload", "import", "commitImport",
                                  "removeOwned", "cleanup"},
                            score : Scores \cup {0}, was : BOOLEAN, paths : SUBSET Scores]]
    /\ todo \subseteq Imported
    /\ raised \subseteq Scores
    /\ deletes \in 0 .. MaxDeletes /\ faults \in 0 .. MaxFaults /\ crashes \in 0 .. MaxCrashes

\* However uploads, imports and deletions interleave, and whatever commit
\* fails or raises late, at most one score of the slot offers a replay.
OneReplayPerSlot == Cardinality({s \in Competing : has[s]}) <= 1

\* A replay that is offered can be read: has_replay is never TRUE without the
\* file, across crashes, repeated and competing uploads and imports whose commit
\* fails or is in doubt, as long as no score of the slot is deleted, and but for
\* scores whose upload met a commit that raised.
OfferedReplaysExist ==
    (\A s \in Scores \ Failed : row[s] # "deleted") =>
        \A s \in Competing \ raised : has[s] => file[s] # "none"

\* When every request has ended, and neither a crash nor an unclear commit came
\* between, no file is left that no score offers: storage is not leaked.
NoFilesLeaked ==
    (crashes = 0 /\ faults = 0 /\ \A w \in Workers : job[w] = Idle) =>
        \A s \in Scores \ Failed : file[s] # "none" => has[s]

\* The files and flags that earlier versions left for failed plays disappear,
\* whatever crashes come between the removal of the files and the commit.
FailedReplaysVanish ==
    <>[](\A s \in Live \cap Failed : file[s] = "none" /\ ~has[s])

\* The scores that compete, those that were deleted, and the replays on offer.
Withdrawn == {s \in Scores \ Failed : row[s] = "deleted"}
Offered == {s \in Competing : has[s]}
Slot == INSTANCE ReplaySlot WITH
    Entries <- Scores \ Failed, Points <- Total,
    contenders <- Competing, gone <- Withdrawn, shown <- Offered

\* The storage implements the slot it promises: through uploads, imports, faults
\* and crashes, a replay is replaced only by that of the score which leads at
\* this moment, and is hidden only with its score or after it was overtaken
\* (save_replay, _finalise_import_replay).
KeepsSlot == Slot!SlotSpec

=============================================================================
