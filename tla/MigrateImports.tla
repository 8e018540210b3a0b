------------------------------ MODULE MigrateImports ------------------------------
(* scripts/migrate-imports.js: lists the Solidity files under the paths given *)
(* to it, then rewrites, one file at a time, the import paths that moved in    *)
(* version 4.0. Writing a file is two steps, for it is emptied first; the      *)
(* process may die between any two steps, and users run the script again.      *)
EXTENDS Naturals, Sequences, FiniteSets, SequencesExt

CONSTANTS
    Entries,        \* directory |-> the names in it; no loop
    Contents,       \* file |-> the contents it may have at first: sequences of imports
    Arguments,      \* what the script may be called with: sequences of paths
    MaxCrashes      \* bound: crashes of the process

VARIABLES
    disk,       \* file |-> contents
    phase,      \* "idle", "listing", "updating" or "failed"
    queue,      \* paths to look at
    files,      \* the Solidity files found
    writing,    \* file |-> contents for the files emptied and not yet written
    updated,    \* files the run reports as updated
    done,       \* the files of the last run that finished, and what it reported
    crashes

migrateVars == <<disk, phase, queue, files, writing, updated, done, crashes>>

Files == DOMAIN Contents
Directories == DOMAIN Entries
IsSolidity(file) == file # "contracts/README.md"

-----------------------------------------------------------------------------
(* Import paths. An import is [package, path]: getUpgradeablePath gives every  *)
(* path of the table its counterpart in the upgradeable package.               *)

\* The table: contracts that moved, under one old path or two, or were renamed.
PathUpdates == <<
    <<"math/Math", "utils/math/Math">>,
    <<"proxy/Initializable", "proxy/utils/Initializable">>,
    <<"utils/Initializable", "proxy/utils/Initializable">>,
    <<"proxy/UpgradeableProxy", "proxy/ERC1967/ERC1967Proxy">>,
    <<"utils/cryptography/draft-EIP712", "utils/cryptography/EIP712">> >>

Packages == {"contracts", "contracts-upgradeable"}

\* A fault: the upgradeable package is not looked at.
OnlyContracts == {"contracts"}

SearchedPackages == Packages

Import(package, path) == [package |-> package, path |-> path]

Old == {PathUpdates[i][1] : i \in DOMAIN PathUpdates}

NewPath(path) == PathUpdates[CHOOSE i \in DOMAIN PathUpdates : PathUpdates[i][1] = path][2]

\* No path is moved twice, so the order of the table does not matter.
ASSUME NoChains == \A i \in DOMAIN PathUpdates : PathUpdates[i][2] \notin Old

\* String.replace with a string replaces the first occurrence only.
IsReplaced(source, i) == \A j \in 1 .. i - 1 : source[j] # source[i]

UpdateImportPaths(source) ==
    [i \in DOMAIN source |->
        IF /\ source[i].package \in SearchedPackages
           /\ source[i].path \in Old
           /\ IsReplaced(source, i)
        THEN Import(source[i].package, NewPath(source[i].path))
        ELSE source[i]]

\* What files hold: imports from the two packages. A file with none is not one of
\* Files: the script never writes it, and <<>> stands for an emptied file.
Sources == Seq([package : Packages, path : STRING])

ASSUME ContentsAssumption ==
    /\ IsFiniteSet(Files)
    /\ \A f \in Files : Contents[f] \subseteq Sources \ {<<>>}

-----------------------------------------------------------------------------
(* The script                                                                 *)

Nothing == [f \in {} |-> <<>>]

Disks == {d \in [Files -> UNION {Contents[f] : f \in Files}] :
             \A f \in Files : d[f] \in Contents[f]}

NotCalled ==
    /\ phase = "idle"
    /\ queue = <<>>
    /\ files = <<>>
    /\ writing = Nothing
    /\ updated = {}
    /\ done = [files |-> {}, updated |-> {}]
    /\ crashes = 0

MigrateInit == disk \in Disks /\ NotCalled

Main ==
    /\ phase \in {"idle", "failed"}
    /\ queue' \in Arguments
    /\ phase' = "listing"
    /\ files' = <<>>
    /\ updated' = {}
    /\ done' = [files |-> {}, updated |-> {}]
    /\ UNCHANGED <<disk, writing, crashes>>

\* A fault: a file of another kind is passed over, but not taken off the queue.
ShiftSolidity(paths) ==
    IF Head(paths) \in Files /\ ~IsSolidity(Head(paths)) THEN paths ELSE Tail(paths)

Shift(paths) == Tail(paths)

\* One turn of the listing loop. fs.stat throws on a path that does not exist,
\* before any file has been touched.
ListNext ==
    /\ phase = "listing"
    /\ queue # <<>>
    /\ LET top == Head(queue)
       IN  /\ queue' = Shift(queue) \o (IF top \in Directories THEN Entries[top] ELSE <<>>)
           /\ files' = IF top \in Files /\ IsSolidity(top) THEN Append(files, top) ELSE files
           /\ phase' = IF top \in Files \union Directories THEN phase ELSE "failed"
    /\ UNCHANGED <<disk, writing, updated, done, crashes>>

EndListing ==
    /\ phase = "listing"
    /\ queue = <<>>
    /\ phase' = "updating"
    /\ done' = [done EXCEPT !.files = ToSet(files)]
    /\ UNCHANGED <<disk, queue, files, writing, updated, crashes>>

\* A fault: the promise of a write is not awaited.
NoAwait == TRUE

WriteAwaited == writing = Nothing

Unchanged(file) == UpdateImportPaths(disk[file]) = disk[file]

\* updateFile: a file that needs no update is read and left alone; another one
\* is emptied by the write that starts.
UpdateFile ==
    /\ phase = "updating"
    /\ files # <<>>
    /\ WriteAwaited
    /\ LET file == Head(files)
       IN  IF Unchanged(file)
           THEN UNCHANGED <<disk, writing, updated>>
           ELSE /\ disk' = [disk EXCEPT ![file] = <<>>]
                /\ writing' = [f \in DOMAIN writing \union {file} |->
                                  IF f = file THEN UpdateImportPaths(disk[file]) ELSE writing[f]]
                /\ updated' = updated \union {file}
    /\ files' = Tail(files)
    /\ UNCHANGED <<phase, queue, done, crashes>>

\* The file may not be written: the run fails, and what it has updated stays.
WriteRefused ==
    /\ phase = "updating"
    /\ files # <<>>
    /\ WriteAwaited
    /\ ~Unchanged(Head(files))
    /\ phase' = "failed"
    /\ files' = <<>>
    /\ done' = [files |-> {}, updated |-> {}]
    /\ UNCHANGED <<disk, queue, writing, updated, crashes>>

Written(file) ==
    /\ file \in DOMAIN writing
    /\ disk' = [disk EXCEPT ![file] = writing[file]]
    /\ writing' = [f \in DOMAIN writing \ {file} |-> writing[f]]
    /\ UNCHANGED <<phase, queue, files, updated, done, crashes>>

Finish ==
    /\ phase = "updating"
    /\ files = <<>>
    /\ WriteAwaited
    /\ phase' = "idle"
    /\ done' = [done EXCEPT !.updated = updated]
    /\ UNCHANGED <<disk, queue, files, writing, updated, crashes>>

Crash ==
    /\ phase \in {"listing", "updating"}
    /\ crashes < MaxCrashes
    /\ crashes' = crashes + 1
    /\ phase' = "idle"
    /\ queue' = <<>>
    /\ files' = <<>>
    /\ writing' = Nothing
    /\ updated' = {}
    /\ done' = [files |-> {}, updated |-> {}]
    /\ UNCHANGED disk

MigrateNext ==
    \/ Main
    \/ ListNext
    \/ EndListing
    \/ UpdateFile
    \/ WriteRefused
    \/ \E file \in Files : Written(file)
    \/ Finish
    \/ Crash

\* The script goes on unless it dies, and the file system completes a write.
MigrateFairness ==
    /\ WF_migrateVars(ListNext \/ EndListing \/ UpdateFile \/ WriteRefused \/ Finish)
    /\ \A file \in Files : WF_migrateVars(Written(file))

MigrateSpec == MigrateInit /\ [][MigrateNext]_migrateVars /\ MigrateFairness

-----------------------------------------------------------------------------
(* Properties                                                                 *)

OutdatedIn(file) == {i \in DOMAIN disk[file] : disk[file][i].path \in Old}

\* Type invariant.
MigrationTypeOK ==
    /\ phase \in {"idle", "listing", "updating", "failed"}
    /\ ToSet(files) \subseteq {f \in Files : IsSolidity(f)}
    /\ DOMAIN writing \subseteq Files
    /\ updated \subseteq Files
    /\ phase # "updating" => writing = Nothing

\* The files that have lost their imports are at most one for each crash, and
\* one being written: files are updated one after the other (lines 99-103 and
\* 140). Files are not empty at first.
OneFilePerCrash ==
    Cardinality({f \in Files : disk[f] = <<>>}) <= crashes + (IF phase = "updating" THEN 1 ELSE 0)

\* A crash costs at most the file that is being written.
LittleIsLost == MigrationTypeOK /\ OneFilePerCrash

Finished == phase = "idle" /\ done.files # {}

\* A run that ends with "No files were updated" leaves no path to update in
\* any file it was given, in either package (line 111).
NoneUpdatedMeansUpToDate ==
    (Finished /\ done.updated = {}) => \A f \in done.files : OutdatedIn(f) = {}

\* Every path is listed and every write completes: a run ends (lines 119-131).
RunsEnd == (phase \in {"listing", "updating"}) ~> (phase \in {"idle", "failed"})
=============================================================================
