---------------------------- MODULE ConfigStore ----------------------------
(***************************************************************************)
(* The configuration file of controlapi/config_store.go: read with its     *)
(* revision, staged as a synced temporary file beside it, and renamed over *)
(* it after a second look.                                                 *)
(*                                                                         *)
(* A document stands for the bytes of the file and for its revision, their *)
(* hash.  moved says that the path names another file than when the        *)
(* temporary file was staged (os.SameFile).  durable is what a power loss  *)
(* leaves: a rename is durable once its directory is synced.               *)
(***************************************************************************)
VARIABLES file, durable, moved, temp

storeVars == <<file, durable, moved, temp>>

InitStore(doc) ==
    /\ file = doc
    /\ durable = doc
    /\ moved = FALSE
    /\ temp = FALSE

revisionMatches_Ignored(revision) == TRUE

(* The If-Match revision, against the document just loaded. *)
revisionMatches(revision) == file = revision

(* Stage: refuses to stage over a changed file. *)
CanStage(source) == file = source

Stage ==
    /\ temp' = TRUE
    /\ moved' = FALSE
    /\ UNCHANGED <<file, durable>>

unchangedSinceStage_Identity(source) == ~moved

(* Commit's second look: revision and file identity. *)
unchangedSinceStage(source) == file = source /\ ~moved

Replace(doc) ==
    /\ file' = doc
    /\ temp' = FALSE
    /\ UNCHANGED <<durable, moved>>

syncDirectory ==
    /\ durable' = file
    /\ UNCHANGED <<file, moved, temp>>

Discard ==
    /\ temp' = FALSE
    /\ UNCHANGED <<file, durable, moved>>

(* Another program writes the file, in place or by renaming a new one over   *)
(* it, and syncs.                                                            *)
Edit(doc) ==
    /\ file' = doc
    /\ durable' = doc
    /\ moved' \in {moved, TRUE}
    /\ UNCHANGED temp

(* The process or the machine stops; a rename that was not synced may be     *)
(* undone in the second case.                                                *)
StoreCrash ==
    /\ \/ UNCHANGED <<file, durable>>
       \/ file' \in {file, durable} /\ durable' = file'
    /\ moved' = FALSE
    /\ temp' = FALSE
=============================================================================
