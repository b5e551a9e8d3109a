---------------------------- MODULE TemplateCache ---------------------------
(***************************************************************************)
(* The template cache of a document worker: TemplateRegistry keeps every   *)
(* document template it has used on disk, with the rows it was written     *)
(* from.  A job reads the rows of its template again, changes the          *)
(* directory by the difference, and renders from it.                       *)
(*                                                                         *)
(* One template.  Users edit it meanwhile; the refresh is interrupted by   *)
(* the job timeout, by exceptions and by crashes, at any of its steps.     *)
(***************************************************************************)
EXTENDS Naturals, FiniteSets

CONSTANTS
    Files,       \* uuids of template files, whose content is in the row
    Assets,      \* uuids of template assets, whose content is in S3
    Paths,       \* file names
    NoPath,      \* the path of what does not exist
    NoFile,      \* the content of a path where there is no file
    MaxVersion,  \* bound: versions of one file or asset
    MaxFaults    \* bound: interruptions, crashes and cleaned paths

Entries == Files \cup Assets

(* A torn file has been opened for writing and not been written. *)
Written == [id: Entries, version: 0..MaxVersion, torn: BOOLEAN]

ASSUME TemplateAssumption ==
    /\ Files \cap Assets = {}
    /\ NoPath \notin Paths
    /\ NoFile \notin Written
    /\ MaxVersion \in Nat /\ MaxFaults \in Nat

VARIABLES
    template,    \* the database: path and version (updated_at) of every row
    bucket,      \* S3: version of every asset's object, 0: none
    registered,  \* TemplateRegistry.has_template
    known,       \* Template.db_template: the rows of the last refresh
    read,        \* the rows this job has read
    disk,        \* template_dir: what is at every path
    todo,        \* rows this refresh has not handled yet
    pc,          \* where prepare_template is
    removed,     \* history: paths of the assets this refresh has unlinked
    missing,     \* history: assets whose last download found no object
    torn,        \* history: paths of rewrites that were interrupted
    moved,       \* history: rows that were ever renamed
    faults       \* history: number of faults; since the directory was made

serverVars  == <<template, bucket>>
historyVars == <<removed, missing, torn, moved>>
vars == <<serverVars, registered, known, read, disk, todo, pc, historyVars, faults>>

-----------------------------------------------------------------------------
Entry == [path: Paths \cup {NoPath}, version: 0..MaxVersion]

Absent == [path |-> NoPath, version |-> 0]

Nothing == [e \in Entries |-> Absent]

Content == Written \cup {NoFile}

PC == {"idle", "fetch_assets", "make_directory", "files", "assets", "ready"}

Present(rows) == {e \in Entries : rows[e].path # NoPath}

Init ==
    /\ template = [e \in Entries |-> Absent]
    /\ bucket = [a \in Assets |-> 0]
    /\ registered = FALSE
    /\ known = Nothing
    /\ read = Nothing
    /\ disk = [p \in Paths |-> NoFile]
    /\ todo = {}
    /\ pc = "idle"
    /\ removed = {} /\ missing = {} /\ torn = {} /\ moved = {}
    /\ faults = [total |-> 0, interrupted |-> FALSE]

-----------------------------------------------------------------------------
(* The server: a path belongs to one row at a time, an edit changes        *)
(* updated_at, a uuid is not used again, and the object of an asset is put *)
(* before its row is committed.                                            *)

Free(p, e) == \A other \in Present(template) \ {e} : template[other].path # p

(* Rows that are there, or have never been. *)
Editable(e) == template[e].path # NoPath \/ template[e].version = 0

Edit(e, p, version) ==
    /\ Editable(e)
    /\ version <= MaxVersion
    /\ Free(p, e)
    /\ template' = [template EXCEPT ![e] = [path |-> p, version |-> version]]
    /\ moved' = IF template[e].path \in {NoPath, p} THEN moved ELSE moved \cup {e}
    /\ UNCHANGED <<bucket, registered, known, read, disk, todo, pc, removed,
                   missing, torn, faults>>

EditFile ==
    \E f \in Files, p \in Paths :
        Edit(f, p, template[f].version + 1)

PutObject ==
    \E a \in Assets :
        /\ Editable(a)
        /\ bucket[a] = template[a].version
        /\ bucket[a] < MaxVersion
        /\ bucket' = [bucket EXCEPT ![a] = @ + 1]
        /\ UNCHANGED <<template, registered, known, read, disk, todo, pc,
                       historyVars, faults>>

EditAsset ==
    \E a \in Assets, p \in Paths :
        /\ bucket[a] = template[a].version + 1
        /\ Edit(a, p, bucket[a])

Remove ==
    \E e \in Present(template) :
        /\ template' = [template EXCEPT ![e].path = NoPath]
        /\ UNCHANGED <<bucket, registered, known, read, disk, todo, pc,
                       historyVars, faults>>

RemoveObject ==
    \E a \in Assets :
        /\ template[a].path = NoPath /\ bucket[a] > 0
        /\ bucket' = [bucket EXCEPT ![a] = 0]
        /\ UNCHANGED <<template, registered, known, read, disk, todo, pc,
                       historyVars, faults>>

-----------------------------------------------------------------------------
(* Writing the directory *)

(* _store_file *)
StoreFile(f) ==
    /\ disk' = [disk EXCEPT ![read[f].path] =
                  [id |-> f, version |-> read[f].version, torn |-> FALSE]]
    /\ torn' = torn \ {read[f].path}
    /\ UNCHANGED missing

(* S3Storage._download_file: an object that is not there is no exception. *)
Downloaded(a) == bucket[a] > 0

(* _store_asset: the object that is there now, whatever its row said; an   *)
(* object that is not there is only logged.                                *)
StoreAsset(a) ==
    IF ~Downloaded(a)
    THEN missing' = missing \cup {a} /\ UNCHANGED <<disk, torn>>
    ELSE /\ disk' = [disk EXCEPT ![read[a].path] =
                       [id |-> a, version |-> bucket[a], torn |-> FALSE]]
         /\ torn' = torn \ {read[a].path}
         /\ missing' = missing \ {a}

Store(e) == (e \in Files /\ StoreFile(e)) \/ (e \in Assets /\ StoreAsset(e))

(* _update_file, _update_asset: equal updated_at and a file at the path    *)
(* mean that nothing has changed.  Mutant: the file is not looked for.     *)
UnchangedByTimestamp(e) == known[e].version = read[e].version

Unchanged(e) ==
    known[e].version = read[e].version /\ disk[read[e].path] # NoFile

(* _resolve_change *)
ToDelete == Present(known) \ Present(read)
ToAdd    == Present(read) \ Present(known)
ToCheck  == Present(read) \cap Present(known)

(* The rows of the phase: files are updated before assets. *)
Kind == IF pc = "files" THEN Files ELSE Assets

-----------------------------------------------------------------------------
(* TemplateRegistry.prepare_template: two SELECTs *)
FetchFiles ==
    /\ pc = "idle"
    /\ read' = [e \in Entries |-> IF e \in Files THEN template[e] ELSE Absent]
    /\ pc' = "fetch_assets"
    /\ UNCHANGED <<serverVars, registered, known, disk, todo, historyVars, faults>>

FetchAssets ==
    /\ pc = "fetch_assets"
    /\ read' = [e \in Entries |-> IF e \in Assets THEN template[e] ELSE read[e]]
    /\ pc' = IF registered THEN "files" ELSE "make_directory"
    /\ todo' = Files
    /\ UNCHANGED <<serverVars, registered, known, disk, historyVars, faults>>

(* Mutant: the directory of an earlier process is kept. *)
KeepDirectory ==
    /\ pc = "make_directory"
    /\ known' = Nothing
    /\ pc' = "files"
    /\ missing' = {} /\ torn' = {}
    /\ faults' = [faults EXCEPT !.interrupted = FALSE]
    /\ UNCHANGED <<serverVars, registered, read, disk, todo, removed, moved>>

(* prepare_fs: an empty directory, in which every row has to be stored.    *)
MakeDirectory ==
    /\ pc = "make_directory"
    /\ disk' = [p \in Paths |-> NoFile]
    /\ known' = Nothing
    /\ pc' = "files"
    /\ missing' = {} /\ torn' = {}
    /\ faults' = [faults EXCEPT !.interrupted = FALSE]
    /\ UNCHANGED <<serverVars, registered, read, todo, removed, moved>>

Delete(e) ==
    /\ e \in ToDelete
    /\ disk' = [disk EXCEPT ![known[e].path] = NoFile]
    /\ removed' = IF e \in Assets THEN removed \cup {known[e].path} ELSE removed
    /\ UNCHANGED <<missing, torn>>

Add(e) ==
    /\ e \in ToAdd
    /\ todo \cap ToDelete = {}
    /\ Store(e)
    /\ UNCHANGED removed

Check(e) ==
    /\ e \in ToCheck
    /\ todo \cap (ToDelete \cup ToAdd) = {}
    /\ IF Unchanged(e) THEN UNCHANGED <<disk, missing, torn>> ELSE Store(e)
    /\ UNCHANGED removed

(* One row of update_template_files or update_template_assets. *)
Handle ==
    /\ pc \in {"files", "assets"}
    /\ \E e \in todo :
         /\ todo' = todo \ {e}
         /\ \/ Delete(e) \/ Add(e) \/ Check(e)
            \/ /\ e \notin Present(known) \cup Present(read)
               /\ UNCHANGED <<disk, removed, missing, torn>>
    /\ UNCHANGED <<serverVars, registered, known, read, pc, moved, faults>>

(* The rows that were handled become the known ones. *)
Know(kind) == known' = [e \in Entries |-> IF e \in kind THEN read[e] ELSE known[e]]

FinishFiles ==
    /\ pc = "files" /\ todo = {}
    /\ Know(Files)
    /\ todo' = Assets
    /\ pc' = "assets"
    /\ UNCHANGED <<serverVars, registered, read, disk, historyVars, faults>>

(* Mutant: the refresh ends before its last rows. *)
FinishAssetsEarly ==
    /\ pc = "assets"
    /\ Know(Assets)
    /\ registered' = TRUE
    /\ read' = Nothing
    /\ pc' = "ready"
    /\ UNCHANGED <<serverVars, disk, todo, historyVars, faults>>

FinishAssets ==
    /\ pc = "assets" /\ todo = {}
    /\ Know(Assets)
    /\ registered' = TRUE
    /\ read' = Nothing
    /\ pc' = "ready"
    /\ UNCHANGED <<serverVars, disk, todo, historyVars, faults>>

(* The job renders and ends. *)
Render ==
    /\ pc = "ready"
    /\ pc' = "idle"
    /\ removed' = {}
    /\ UNCHANGED <<serverVars, registered, known, read, disk, todo, missing, torn,
                   moved, faults>>

-----------------------------------------------------------------------------
(* Faults *)

Fault == faults.total < MaxFaults

Interrupted ==
    /\ Fault
    /\ faults' = [total |-> faults.total + 1, interrupted |-> TRUE]
    /\ read' = Nothing
    /\ removed' = {}
    /\ pc' = "idle"
    /\ todo' = {}

(* An exception of S3 or of the file system, or the job timeout, between   *)
(* two rows.                                                               *)
Interrupt ==
    /\ pc \in {"files", "assets"}
    /\ Interrupted
    /\ UNCHANGED <<serverVars, registered, known, disk, missing, torn, moved>>

(* The timeout strikes when a file has been opened for writing.  Objects   *)
(* of S3 are moved into place when they are complete.                      *)
InterruptWrite ==
    /\ pc = "files"
    /\ \E f \in todo \cap Present(read) :
         /\ todo \cap ToDelete = {}
         /\ f \in ToAdd \/ (todo \cap ToAdd = {} /\ ~Unchanged(f))
         /\ disk' = [disk EXCEPT ![read[f].path] =
                       [id |-> f, version |-> read[f].version, torn |-> TRUE]]
         /\ torn' = IF known[f].version = read[f].version
                    THEN torn \cup {read[f].path} ELSE torn
    /\ Interrupted
    /\ UNCHANGED <<serverVars, registered, known, missing, moved>>

(* The process dies; the next one has an empty registry. *)
Crash ==
    /\ Fault
    /\ faults' = [faults EXCEPT !.total = @ + 1]
    /\ registered' = FALSE
    /\ known' = Nothing
    /\ read' = Nothing
    /\ removed' = {}
    /\ pc' = "idle" /\ todo' = {}
    /\ UNCHANGED <<serverVars, disk, missing, torn, moved>>

(* Something outside removes a file of the directory between two jobs. *)
CleanPath ==
    /\ pc = "idle"
    /\ Fault
    /\ faults' = [faults EXCEPT !.total = @ + 1]
    /\ \E p \in Paths :
         /\ disk[p] # NoFile
         /\ disk' = [disk EXCEPT ![p] = NoFile]
    /\ UNCHANGED <<serverVars, registered, known, read, todo, pc, historyVars>>

-----------------------------------------------------------------------------
ServerStep == EditFile \/ PutObject \/ EditAsset \/ Remove \/ RemoveObject

PrepareTemplate ==
    \/ FetchFiles \/ FetchAssets \/ MakeDirectory \/ Handle
    \/ FinishFiles \/ FinishAssets \/ Render

FaultStep == Interrupt \/ InterruptWrite \/ Crash \/ CleanPath

Next == ServerStep \/ PrepareTemplate \/ FaultStep

Spec == Init /\ [][Next]_vars

(* Jobs keep coming and go on. *)
FairSpec == Spec /\ WF_vars(PrepareTemplate)

-----------------------------------------------------------------------------
(* Every variable has the type of the code's value; a job renders from a   *)
(* registered template of which no row is left to handle.                  *)
TypeOK ==
    /\ template \in [Entries -> Entry]
    /\ bucket \in [Assets -> 0..MaxVersion]
    /\ registered \in BOOLEAN
    /\ known \in [Entries -> Entry]
    /\ read \in [Entries -> Entry]
    /\ disk \in [Paths -> Content]
    /\ todo \subseteq Entries
    /\ pc \in PC
    /\ removed \subseteq Paths /\ missing \subseteq Assets
    /\ torn \subseteq Paths /\ moved \subseteq Entries
    /\ faults \in [total: 0..MaxFaults, interrupted: BOOLEAN]
    /\ pc = "ready" => registered /\ todo = {}
    /\ pc \in {"files", "assets"} => todo \subseteq Kind

(* The path of e has the content of its row, or a later one of an asset.   *)
Fresh(e, rows) ==
    /\ disk[rows[e].path] # NoFile
    /\ disk[rows[e].path].id = e
    /\ ~disk[rows[e].path].torn
    /\ IF e \in Files THEN disk[rows[e].path].version = rows[e].version
                      ELSE disk[rows[e].path].version >= rows[e].version

(* Two SELECTs may see two versions of the template, with a file and an    *)
(* asset at the same path.                                                 *)
Clash(f) == \E a \in Present(known) \cap Assets : known[a].path = known[f].path

(* A job renders from the files and the assets it has read, although they  *)
(* are rewritten only when their timestamp changed and refreshes are       *)
(* interrupted: except a file that this refresh has unlinked again as an   *)
(* asset, one whose restoration was interrupted in the middle of the file, *)
(* and an asset that could not be downloaded.                              *)
TemplateIsFresh ==
    pc = "ready" =>
        /\ \A f \in Present(known) \cap Files :
              Fresh(f, known) \/ known[f].path \in removed \cup torn \/ Clash(f)
        /\ \A a \in (Present(known) \cap Assets) \ missing : Fresh(a, known)

(* What was deleted from the template is not on disk any more, unless it   *)
(* was renamed, or an interrupted refresh had written it.  A new process   *)
(* does not inherit the directory of the old one.                          *)
DeletedIsGone ==
    pc = "ready" /\ ~faults.interrupted =>
        \A p \in Paths : disk[p] # NoFile =>
            \/ disk[p].id \in moved
            \/ known[disk[p].id].path = p

(* When nobody edits the template any more, jobs find all of it on disk,   *)
(* whatever an earlier refresh unlinked, mixed or left unfinished.         *)
DirectoryHeals ==
    <>[](pc = "ready" =>
           \A e \in Present(template) \ missing :
               Fresh(e, template) \/ template[e].path \in torn)

=============================================================================
