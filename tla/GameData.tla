------------------------------ MODULE GameData ------------------------------
(***************************************************************************)
(* The game's assets on the card, from the extracted files that the user   *)
(* copies there to the pair of pack and index that the program serves them *)
(* from (prepare_game_data and asset_pack_build).  A start of the program  *)
(* builds the pair under temporary names, verifies it, installs it, drops  *)
(* the metadata that the game derived from older assets, and only then     *)
(* removes the extracted files.  The console may be switched off between   *)
(* any two steps; each step is one change of the card.                     *)
(***************************************************************************)
EXTENDS Integers

CONSTANTS
  AssetFiles,   \* the extracted files; Marker and Required are among them
  Marker,       \* globalgamemanagers, whose presence says that files are staged
  Required,     \* the files that check_data asks for, the marker included
  MetaFiles,    \* the files that the game derives from its assets
  Builds,       \* the releases of the game, numbered from 1
  ClientOf,     \* [Builds -> the version of the program that a release is for]
  MaxPacks      \* bound on the packs that are written

ASSUME DataAssumption ==
  /\ Builds \subseteq Nat /\ Marker \in Required /\ Required \subseteq AssetFiles

VARIABLES
  client,       \* SS_VERSION_CODE of the installed program
  library,      \* the release that libyuanshen.so is of
  loose,        \* the extracted files: their release and which are there
  pack, packIndex,  \* assets.nxpack and assets.nxidx, or Missing
  newPack, newIndex,  \* the same under their temporary names
  metadata,     \* [MetaFiles -> the release it was derived from, 0, or Cut]
  versionFile,  \* nx_client_version, 0 when there is none
  start,        \* the step of the program
  rebuilt,      \* !existing_pack of prepare_game_data
  packs,        \* packs written so far, the source of their identities
  half          \* a removal of extracted files was interrupted at the marker

dataVars == <<client, library, loose, pack, packIndex, newPack, newIndex, metadata,
              versionFile, start, rebuilt, packs, half>>
card     == <<pack, packIndex, newPack, newIndex>>
derivedFiles == <<metadata, versionFile>>
staged   == <<client, library, loose>>

Missing == [id |-> 0]
Cut     == -1
NoFiles == [build |-> 0, files |-> {}]

DataInit ==
  /\ client = 1 /\ library = 0 /\ loose = NoFiles
  /\ pack = Missing /\ packIndex = Missing /\ newPack = Missing /\ newIndex = Missing
  /\ metadata = [m \in MetaFiles |-> 0] /\ versionFile = 0
  /\ start = "off" /\ rebuilt = FALSE /\ packs = 0 /\ half = FALSE

GotoStage(s) == start' = s /\ UNCHANGED <<rebuilt, packs, half>>

\* The user copies a release beside the program, and updates the program if need be.
Stage(b) ==
  /\ start = "off" /\ b > library
  /\ client' = ClientOf[b] /\ library' = b
  /\ loose' = [build |-> b, files |-> AssetFiles]
  /\ half' = FALSE
  /\ UNCHANGED <<card, derivedFiles, start, rebuilt, packs>>

\* load_pair: the headers, versions, identities and sizes of the two agree.
PairOpens(p, i) ==
  /\ p # Missing /\ i # Missing
  /\ p.client = client /\ i.client = client
  /\ p.id = i.id

Staged == Marker \in loose.files

LibraryFits     == library # 0 /\ ClientOf[library] = client
Checked(opened) ==
  Required \subseteq loose.files \union (IF opened THEN pack.files ELSE {})

(***************************************************************************)
(* Start to build.  Extracted files are never shadowed by an older pack.   *)
(* check_data looks in the pack, when one is open, and among the extracted *)
(* files; a file that is missing ends the program.                         *)
(***************************************************************************)
BeginStart ==
  /\ start = "off" /\ packs < MaxPacks
  /\ LET opened == ~Staged /\ PairOpens(pack, packIndex) IN
       /\ Checked(opened) /\ LibraryFits
       /\ rebuilt' = ~opened
       /\ start' = IF opened THEN "refresh" ELSE "build"
  /\ UNCHANGED <<staged, card, derivedFiles, packs, half>>

FailBuild ==
  /\ newPack' = Missing /\ newIndex' = Missing
  /\ UNCHANGED <<pack, packIndex>>
  /\ GotoStage("off")

\* collect_files; without a file there is nothing to build.
Collected == loose.files

\* What is left under the temporary names is removed, and the files are listed.
WritePack ==
  /\ start = "build" /\ Collected # {}
  /\ newIndex' = Missing
  /\ \E good \in BOOLEAN :
       newPack' = [id |-> packs + 1, client |-> client, build |-> loose.build,
                   files |-> Collected, good |-> good]
  /\ packs' = packs + 1 /\ start' = "index"
  /\ UNCHANGED <<staged, derivedFiles, pack, packIndex, rebuilt, half>>

WriteIndex ==
  /\ start = "index"
  /\ newIndex' = [id |-> newPack.id, client |-> client]
  /\ GotoStage("verify")
  /\ UNCHANGED <<staged, derivedFiles, pack, packIndex, newPack>>

\* verify_pack_data reads back what was written.
Verify ==
  /\ start = "verify"
  /\ IF PairOpens(newPack, newIndex) /\ newPack.good
       THEN GotoStage("unlink pack") /\ UNCHANGED card
       ELSE FailBuild
  /\ UNCHANGED <<staged, derivedFiles>>

\* A step of the build fails, after the old pair was removed if it is a rename.
AbandonBuild ==
  /\ start \in {"build", "index", "verify", "rename pack", "rename index"}
  /\ FailBuild
  /\ UNCHANGED <<staged, derivedFiles>>

\* The two are removed without a look at the result.
UnlinkPack ==
  /\ start = "unlink pack"
  /\ pack' \in {pack, Missing}
  /\ GotoStage("unlink index")
  /\ UNCHANGED <<staged, derivedFiles, packIndex, newPack, newIndex>>

UnlinkIndex ==
  /\ start = "unlink index"
  /\ packIndex' \in {packIndex, Missing}
  /\ GotoStage("rename pack")
  /\ UNCHANGED <<staged, derivedFiles, pack, newPack, newIndex>>

\* A rename does not replace a file on this file system.
RenamePack ==
  /\ start = "rename pack"
  /\ IF pack = Missing
       THEN /\ pack' = newPack /\ newPack' = Missing
            /\ GotoStage("rename index") /\ UNCHANGED <<packIndex, newIndex>>
       ELSE FailBuild
  /\ UNCHANGED <<staged, derivedFiles>>

RenameIndex ==
  /\ start = "rename index"
  /\ IF packIndex = Missing
       THEN /\ packIndex' = newIndex /\ newIndex' = Missing
            /\ GotoStage("open") /\ UNCHANGED <<pack, newPack>>
       ELSE FailBuild
  /\ UNCHANGED <<staged, derivedFiles>>

OpenExisting ==
  /\ start = "open"
  /\ GotoStage(IF PairOpens(pack, packIndex) THEN "refresh" ELSE "off")
  /\ UNCHANGED <<staged, card, derivedFiles>>

(***************************************************************************)
(* refresh_client_metadata_cache, one file after the other, and then the   *)
(* version, whose file may have to go before the new one can be renamed.   *)
(***************************************************************************)
\* A mutant of the next definition: only the version decides.
StaleIfVersion == versionFile # client

Stale == rebuilt \/ versionFile # client

Refresh ==
  /\ start = "refresh"
  /\ IF Stale /\ \E m \in MetaFiles : metadata[m] # 0
       THEN /\ metadata' = [metadata EXCEPT ![CHOOSE m \in MetaFiles : metadata[m] # 0] = 0]
            /\ UNCHANGED start
       ELSE /\ start' = IF Stale THEN "version" ELSE "clean"
            /\ UNCHANGED metadata
  /\ UNCHANGED <<staged, card, versionFile, rebuilt, packs, half>>

UpdateVersion ==
  /\ start = "version"
  /\ \/ versionFile' = client /\ GotoStage("clean")
     \/ versionFile # 0 /\ versionFile' = 0 /\ GotoStage("version")
  /\ UNCHANGED <<staged, card, metadata>>

\* remove_tree_path, in whatever order the directories are read; nothing is removed
\* unless prepare_game_data found the marker, and then a new pack was built.
Clean ==
  /\ start = "clean"
  /\ IF rebuilt /\ loose.files # {}
       THEN /\ \E f \in loose.files : loose' = [loose EXCEPT !.files = @ \ {f}]
            /\ UNCHANGED <<metadata, start>>
       \* discard_incomplete_il2cpp_metadata_cache
       ELSE /\ metadata' = [m \in MetaFiles |-> IF metadata[m] = Cut THEN 0 ELSE metadata[m]]
            /\ start' = "game" /\ UNCHANGED loose
  /\ UNCHANGED <<client, library, card, versionFile, rebuilt, packs, half>>

\* The game derives a file from its assets, in two writes.
Derive(m) ==
  /\ start = "game"
  /\ \/ metadata[m] = 0 /\ metadata' = [metadata EXCEPT ![m] = Cut]
     \/ metadata[m] = Cut /\ metadata' = [metadata EXCEPT ![m] = pack.build]
  /\ UNCHANGED <<staged, card, versionFile, start, rebuilt, packs, half>>

\* The program ends, in a fatal error, by its user or for want of power.
Stop ==
  /\ start # "off" /\ start' = "off"
  /\ half' = (half \/ (start = "clean" /\ rebuilt /\ Staged /\ loose.files # AssetFiles))
  /\ UNCHANGED <<staged, card, derivedFiles, rebuilt, packs>>

DataNext ==
  \/ \E b \in Builds : Stage(b)
  \/ BeginStart \/ WritePack \/ WriteIndex \/ Verify
  \/ UnlinkPack \/ UnlinkIndex \/ RenamePack \/ RenameIndex \/ OpenExisting
  \/ AbandonBuild
  \/ Refresh \/ UpdateVersion \/ Clean
  \/ \E m \in MetaFiles : Derive(m)
  \/ Stop

DataSpec == DataInit /\ [][DataNext]_dataVars

-----------------------------------------------------------------------------
Complete(p, i) == PairOpens(p, i) /\ p.id = i.id /\ p.good
                  /\ p.files = AssetFiles /\ p.build = library

\* Power may go at any moment of a start (main.c:737-764, asset_pack.c:446-641): the
\* release that the user staged is always on the card in whole, as extracted files or
\* as a pair that opens; and the game runs on a verified pair of that release, never
\* with metadata derived from another.  A removal of the extracted files that was
\* interrupted while the marker was there is left out: the next start takes the rest
\* for a release.
AssetsSound ==
  /\ library # 0 /\ ~half =>
       \/ loose.build = library /\ loose.files = AssetFiles
       \/ Complete(pack, packIndex)
  /\ start = "game" /\ ~half =>
       /\ Complete(pack, packIndex)
       /\ \A m \in MetaFiles : metadata[m] \in {0, Cut, library}
=============================================================================
