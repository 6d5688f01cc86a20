---------------------------- MODULE SessionStore ----------------------------
(***************************************************************************)
(* combo_session.c: the saved login on the SD card, against a crash between *)
(* any two of its steps.  A file is absent, torn or holds one version; its  *)
(* encryption, MAC and JSON contract are reduced to "torn files do not      *)
(* load".  The host's rename may refuse to replace an existing file, and    *)
(* any write may fail.                                                      *)
(***************************************************************************)
EXTENDS Integers

CONSTANTS Versions   \* 1 .. n, in the order in which they are stored

ASSUME SessionAssumption == Versions \subseteq Int /\ \A v \in Versions : v > 0

VARIABLES
  mainFile, tempFile, legacyFile,  \* NoFile, Torn or a version
  step,       \* where the running operation is, or "idle"
  writing,    \* the version that combo_session_store writes
  migrating,  \* the store was called by combo_session_load
  tried,      \* the newest version that the game gave to store (history)
  stored,     \* the newest whose store returned 0 since the last invalidation (history)
  gap,        \* a replacement took the old session away, and no store succeeded since (history)
  cut         \* the last invalidation was cut short or refused an unlink (history)

history     == <<tried, stored, gap, cut>>
sessionVars == <<mainFile, tempFile, legacyFile, step, writing, migrating, tried, stored, gap, cut>>

NoFile == 0
Torn   == -1

\* Version 1 is the one that an older release left under its own path.
SessionInit ==
  /\ mainFile = NoFile /\ tempFile = NoFile /\ legacyFile \in {NoFile, 1}
  /\ step = "idle" /\ writing = 1 /\ migrating = FALSE
  /\ tried = 1 /\ stored = legacyFile /\ gap = FALSE /\ cut = FALSE

StoreSession(v) ==
  /\ step = "idle" /\ v > tried
  /\ writing' = v /\ tried' = v /\ step' = "open" /\ migrating' = FALSE
  /\ UNCHANGED <<mainFile, tempFile, legacyFile, stored, gap, cut>>

\* A mutant of the next definition.
WriteInPlace ==
  /\ step = "open"
  /\ \/ mainFile' = Torn /\ step' = "write"
     \/ UNCHANGED mainFile /\ step' = "idle"
  /\ UNCHANGED <<tempFile, legacyFile, writing, migrating, history>>

OpenTemp ==
  /\ step = "open"
  /\ \/ tempFile' = Torn /\ step' = "write"
     \/ UNCHANGED tempFile /\ step' = "idle"
  /\ UNCHANGED <<mainFile, legacyFile, writing, migrating, history>>

\* fwrite, fflush, fsync and fclose: only a synchronised file is whole.
WriteTemp ==
  /\ step = "write"
  /\ \/ tempFile' = writing /\ step' = "rename"
     \/ UNCHANGED tempFile /\ step' = "failed"
  /\ UNCHANGED <<mainFile, legacyFile, writing, migrating, history>>

\* combo_session_store returned 0: a load that migrates goes on.
TakesName ==
  /\ mainFile' = tempFile /\ tempFile' = NoFile
  /\ step' = IF migrating THEN "unlinkLegacy" ELSE "idle"
  /\ stored' = IF writing > stored THEN writing ELSE stored
  /\ IF migrating THEN UNCHANGED <<gap, cut>> ELSE gap' = FALSE /\ cut' = FALSE

Rename ==
  /\ step = "rename"
  /\ \/ TakesName
     \/ /\ step' = IF mainFile = NoFile THEN "failed" ELSE "replace"
        /\ UNCHANGED <<mainFile, tempFile, stored, gap, cut>>
  /\ UNCHANGED <<legacyFile, writing, migrating, tried>>

\* The destination is unlinked and the rename tried again.
ReplaceFile ==
  /\ step = "replace"
  /\ \/ mainFile' = NoFile /\ step' = "rename2" /\ gap' = TRUE
     \/ UNCHANGED <<mainFile, gap>> /\ step' = "failed"
  /\ UNCHANGED <<tempFile, legacyFile, writing, migrating, tried, stored, cut>>

RenameAgain ==
  /\ step = "rename2"
  /\ \/ TakesName
     \/ step' = "failed" /\ UNCHANGED <<mainFile, tempFile, stored, gap, cut>>
  /\ UNCHANGED <<legacyFile, writing, migrating, tried>>

\* Nobody looks at what these unlinks return: each may leave its file.
StoreFails ==
  /\ step = "failed"
  /\ tempFile' \in {NoFile, tempFile} /\ step' = "idle"
  /\ UNCHANGED <<mainFile, legacyFile, writing, migrating, history>>

\* What combo_session_load finds under the current path, else the old one.
Loaded == IF mainFile # NoFile THEN mainFile ELSE legacyFile

\* A session of the older release is loaded, and stored under the new path.
LoadLegacy ==
  /\ step = "idle" /\ mainFile = NoFile /\ legacyFile # NoFile
  /\ writing' = legacyFile /\ step' = "open" /\ migrating' = TRUE
  /\ UNCHANGED <<mainFile, tempFile, legacyFile, history>>

UnlinkLegacy ==
  /\ step = "unlinkLegacy"
  /\ legacyFile' \in {NoFile, legacyFile} /\ step' = "idle"
  /\ UNCHANGED <<mainFile, tempFile, writing, migrating, history>>

\* combo_session_invalidate unlinks one name after the other.
Invalidate ==
  /\ step = "idle"
  /\ \/ mainFile' = NoFile /\ cut' = FALSE
     \/ mainFile # NoFile /\ UNCHANGED mainFile /\ cut' = TRUE
  /\ step' = "unlinkTemp" /\ stored' = NoFile /\ gap' = FALSE
  /\ UNCHANGED <<tempFile, legacyFile, writing, migrating, tried>>

UnlinkTemp ==
  /\ step = "unlinkTemp"
  /\ tempFile' \in {NoFile, tempFile} /\ step' = "unlinkOld"
  /\ UNCHANGED <<mainFile, legacyFile, writing, migrating, history>>

UnlinkOld ==
  /\ step = "unlinkOld"
  /\ \/ legacyFile' = NoFile /\ UNCHANGED cut
     \/ legacyFile # NoFile /\ UNCHANGED legacyFile /\ cut' = TRUE
  /\ step' = "idle"
  /\ UNCHANGED <<mainFile, tempFile, writing, migrating, tried, stored, gap>>

Crash ==
  /\ step # "idle" /\ step' = "idle"
  /\ IF step \in {"unlinkTemp", "unlinkOld"} THEN cut' = TRUE ELSE UNCHANGED cut
  /\ UNCHANGED <<mainFile, tempFile, legacyFile, writing, migrating, tried, stored, gap>>

SessionNext ==
  \/ \E v \in Versions : StoreSession(v)
  \/ OpenTemp \/ WriteTemp \/ Rename \/ ReplaceFile \/ RenameAgain \/ StoreFails
  \/ LoadLegacy \/ UnlinkLegacy
  \/ Invalidate \/ UnlinkTemp \/ UnlinkOld
  \/ Crash

SessionSpec == SessionInit /\ [][SessionNext]_sessionVars

(* A torn session is never under a name that is loaded.  Between operations, *)
(* whatever failed or crashed in them, what loads is the newest session      *)
(* whose store succeeded, and nothing once it was invalidated, with two      *)
(* exceptions: an invalidation that crashed or was refused an unlink, and a  *)
(* replacement that failed or crashed after it had unlinked the old session. *)
(* The latter leaves nothing, or the session that the older release left,    *)
(* until the next store succeeds (write_atomic, combo_session_load,          *)
(* combo_session_invalidate).                                                *)
SessionSound ==
  /\ mainFile # Torn /\ legacyFile # Torn
  /\ step = "idle" =>
       /\ ~gap /\ ~cut => Loaded = stored
       /\ gap => Loaded \in {NoFile, 1}
=============================================================================
