----------------------------- MODULE RecoveryDrill -----------------------------
(***************************************************************************)
(* scripts/check-recovery.py: pauses the root, points shop-dev at an image   *)
(* that does not exist, waits for the failure and undoes both, in two nested  *)
(* finally blocks.                                                           *)
(***************************************************************************)
EXTENDS GitOps

VARIABLES
    step,           \* the drill's next call
    saved,          \* what it read at the start: source, automation, api image
    raised,         \* an exception is on its way out
    broken          \* history: undoing patches that were not applied

drillVars == <<step, saved, raised, broken>>

DrillTypeOK ==
    /\ step \in {"healthy", "automation", "image", "pause", "break", "failure", "available",
                 "undo_source", "undo_pause", "recovered", "good_image", "passed", "failed", "killed"}
    /\ saved \in [source : Sources, automated : BOOLEAN, image : Images]
    /\ raised \in BOOLEAN
    /\ broken \subseteq {"undo_source", "undo_pause"}

DrillInit ==
    /\ step = "healthy"
    /\ saved = [source |-> source["shop-dev"], automated |-> automated, image |-> image["api"]]
    /\ raised = FALSE
    /\ broken = {}

Reads(from, to) ==
    /\ step = from
    /\ step' = to
    /\ UNCHANGED <<gitopsVars, broken>>

\* Start from a healthy, synced application, and remember it.
GetSource ==
    /\ compared["shop-dev"].synced /\ compared["shop-dev"].healthy
    /\ Reads("healthy", "automation")
    /\ saved' = [saved EXCEPT !.source = source["shop-dev"]]
    /\ UNCHANGED raised

GetAutomation ==
    /\ Reads("automation", "image")
    /\ saved' = [saved EXCEPT !.automated = automated]
    /\ UNCHANGED raised

GetImage ==
    /\ Reads("image", "pause")
    /\ saved' = [saved EXCEPT !.image = image["api"]]
    /\ UNCHANGED raised

\* Before the try there is nothing to undo.
Refuse ==
    /\ step \in {"healthy", "automation", "image"}
    /\ Reads(step, "failed")
    /\ UNCHANGED <<saved, raised>>

\* kubectl patch: applied and answered, applied with the answer lost, or refused.
\* An error in the try block goes to the first finally.
Patch(from, to, change) ==
    /\ step = from
    /\ \/ change /\ step' = to /\ UNCHANGED raised
       \/ change /\ step' = "undo_source" /\ raised' = TRUE
       \/ UNCHANGED gitopsVars /\ step' = "undo_source" /\ raised' = TRUE
    /\ UNCHANGED <<saved, broken>>

SetAutomation(on) ==
    /\ automated' = on
    /\ UNCHANGED <<source, compared, image, observed, rolled, running>>

SetSource(s) ==
    /\ source' = [source EXCEPT !["shop-dev"] = s]
    /\ UNCHANGED <<automated, compared, image, observed, rolled, running>>

Pause == Patch("pause", "break", SetAutomation(FALSE))

\* The mutant of Break: the bad source is edited in place, not in a copy.
Break_InPlace ==
    /\ step = "break"
    /\ SetSource([saved.source EXCEPT !.override = TRUE])
    /\ saved' = [saved EXCEPT !.source.override = TRUE]
    /\ step' = "failure"
    /\ UNCHANGED <<raised, broken>>

Break == Patch("break", "failure", SetSource([saved.source EXCEPT !.override = TRUE]))

\* image_failure(): a pod waits for an image that cannot be pulled.
ImageFailure ==
    /\ observed["api"] /\ image["api"] = Missing
    /\ Reads("failure", "available")
    /\ UNCHANGED <<saved, raised>>

\* The assertion on the known-good replicas.
Available ==
    /\ Reads("available", "undo_source")
    /\ UNCHANGED <<saved, raised>>

\* A deadline, an assertion or a failing read inside the try.
Interrupt ==
    /\ step \in {"failure", "available"}
    /\ Reads(step, "undo_source")
    /\ raised' = TRUE
    /\ UNCHANGED saved

\* A patch in a finally, and what comes after it whether it raises or not.
Undo(name, change, to) ==
    /\ step = name
    /\ \/ change /\ UNCHANGED <<raised, broken>>
       \/ change /\ raised' = TRUE /\ UNCHANGED broken
       \/ UNCHANGED gitopsVars /\ raised' = TRUE /\ broken' = broken \cup {name}
    /\ step' = to
    /\ UNCHANGED saved

\* The mutant of UndoSource: one finally block for both patches.
UndoSource_OneBlock ==
    \/ /\ step = "undo_source"
       /\ SetSource(saved.source)
       /\ step' = "undo_pause"
       /\ UNCHANGED <<saved, raised, broken>>
    \/ /\ step = "undo_source"
       /\ step' = "failed"
       /\ raised' = TRUE /\ broken' = {"undo_source"}
       /\ UNCHANGED <<gitopsVars, saved>>

UndoSource == Undo("undo_source", SetSource(saved.source), "undo_pause")

UndoPause ==
    Undo("undo_pause", SetAutomation(saved.automated), IF raised' THEN "failed" ELSE "recovered")

\* recovered(): the application's status, then the Deployment's image.
RecoveredStatus ==
    /\ compared["shop-dev"].synced /\ compared["shop-dev"].healthy
    /\ Reads("recovered", "good_image")
    /\ UNCHANGED <<saved, raised>>

RecoveredImage ==
    /\ Reads("good_image", IF image["api"] = saved.image THEN "passed" ELSE "recovered")
    /\ UNCHANGED <<saved, raised>>

GiveUp ==
    /\ step \in {"recovered", "good_image"}
    /\ Reads(step, "failed")
    /\ UNCHANGED <<saved, raised>>

KillDrill ==
    /\ step \notin {"passed", "failed", "killed"}
    /\ Reads(step, "killed")
    /\ UNCHANGED <<saved, raised>>

DrillStep ==
    \/ GetSource \/ GetAutomation \/ GetImage \/ Refuse
    \/ Pause \/ Break \/ ImageFailure \/ Available \/ Interrupt
    \/ UndoSource \/ UndoPause \/ RecoveredStatus \/ RecoveredImage \/ GiveUp \/ KillDrill

DrillNext ==
    \/ DrillStep
    \/ (Controllers \/ \E d \in Deployments : Degrade(d)) /\ UNCHANGED drillVars
=============================================================================
