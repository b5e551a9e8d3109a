----------------------------- MODULE TemplateSync ---------------------------
(***************************************************************************)
(* dsw-tdk put --watch: a template project is uploaded to a draft on the   *)
(* server, then every batch of changes that watchfiles reports is uploaded *)
(* as well.                                                                *)
(*                                                                         *)
(* TDKCore and the project each refer to a template in memory.  Usually it *)
(* is the same one, but a change of the descriptor makes the project load  *)
(* a new one without files, until the old one is put back.                 *)
(*                                                                         *)
(* The user edits files at any time, requests fail with or without effect, *)
(* and somebody may delete the draft.                                      *)
(***************************************************************************)
EXTENDS Naturals, FiniteSets

CONSTANTS
    Names,        \* files of the project
    Foreign,      \* a file that exists on the server only
    TemplateIds,  \* coordinates that the descriptor may state
    Descriptor, Readme,
    None,
    MaxEdits,     \* bound: changes of the user and starts of the program
    MaxFaults,    \* bound: failed requests, crashes and deleted drafts
    MaxItems      \* bound: files of all drafts at a time

Parts == Names \cup {Descriptor, Readme}

ASSUME SyncAssumption ==
    /\ Foreign \notin Names /\ {Descriptor, Readme} \cap Names = {}
    /\ Descriptor # Readme
    /\ MaxEdits \in Nat /\ MaxFaults \in Nat /\ MaxItems \in Nat
    /\ IsFiniteSet(Names) /\ Cardinality(Names) < MaxItems

VARIABLES
    disk,      \* the project directory; version 0: not there
    pending,   \* changes watchfiles has collected
    batch,     \* changes being processed
    remote,    \* drafts on the server
    held,      \* TDKCore.template
    fresh,     \* TemplateProject.template, None: the same object as held
    linked,    \* TDKCore.remote_uuid, by the coordinates of its draft
    force,     \* put --force
    pc,        \* where the program is
    after,     \* where store_remote returns to
    todo,      \* files that store_remote or update_file is handling
    excused,   \* history: parts whose last change was not uploaded
    doubtful,  \* history: files that the draft may have twice
    edits, faults

toolVars    == <<batch, held, fresh, linked, force, pc, after, todo>>
historyVars == <<excused, doubtful>>
vars == <<disk, pending, remote, toolVars, historyVars, edits, faults>>

-----------------------------------------------------------------------------
Version == 0..MaxEdits + 1
ItemIds == 1..MaxItems

Item  == [id: ItemIds, name: Names \cup {Foreign}, version: Version]
Draft == [meta: Version, readme: Version, items: SUBSET Item]

Change == [kind: {"updated", "deleted"}, part: Parts]

(* TemplateFile as the project keeps it; version 0: it does not. *)
Entry == [version: Version, remote: ItemIds \cup {None}]

NoFiles == [n \in Names |-> [version |-> 0, remote |-> None]]

Template == [id: TemplateIds, meta: Version, readme: Version, files: [Names -> Entry]]

PC == {"stopped", "store", "cleanup", "upload", "idle", "descriptor", "readme",
       "update", "files", "delete", "post"}

(* "Nothing" is no value of what it stands in for. *)
ASSUME NoneAssumption ==
    None \notin ItemIds /\ None \notin TemplateIds /\ None \notin Draft /\ None \notin Template

Project == IF fresh = None THEN held ELSE fresh

SetProject(t) ==
    IF fresh = None THEN held' = t /\ UNCHANGED fresh ELSE fresh' = t /\ UNCHANGED held

Tracked(t) == {n \in Names : t.files[n].version > 0}

(* load_files *)
FilesOnDisk == [n \in Names |-> [version |-> disk.files[n], remote |-> None]]

(* load_descriptor and load_readme *)
OnDisk(files) ==
    [id |-> disk.id, meta |-> disk.meta, readme |-> disk.readme, files |-> files]

Alive == linked # None /\ remote[linked] # None

Uuids(t) == {t.files[n].remote : n \in Names}

ItemsOf(d) == IF remote[d] = None THEN {} ELSE remote[d].items

(* A uuid is new: neither on the server nor remembered by the program. *)
FreeIds ==
    {i \in ItemIds :
        /\ \A d \in TemplateIds : \A item \in ItemsOf(d) : item.id # i
        /\ held # None => i \notin Uuids(held)
        /\ fresh # None => i \notin Uuids(fresh)}

NewId == CHOOSE i \in FreeIds : TRUE

(* A project on disk and what earlier uploads left on the server. *)
Init ==
    /\ \E id \in TemplateIds :
         disk = [files |-> [n \in Names |-> 1], id |-> id, meta |-> 1, readme |-> 1]
    /\ \E old \in SUBSET (Names \cup {Foreign}), draft \in BOOLEAN :
         \E uuid \in {f \in [old -> 1..Cardinality(old)] :
                        \A m, n \in old : f[m] = f[n] => m = n} :
           remote = [d \in TemplateIds |->
                       IF draft /\ d = disk.id
                       THEN [meta |-> 0, readme |-> 0, items |->
                              {[id |-> uuid[n], name |-> n, version |-> 0] : n \in old}]
                       ELSE None]
    /\ pending = {} /\ batch = {}
    /\ held = None /\ fresh = None /\ linked = None
    /\ force = FALSE
    /\ pc = "stopped" /\ after = "idle" /\ todo = {}
    /\ excused = {} /\ doubtful = {}
    /\ edits = 0 /\ faults = 0

-----------------------------------------------------------------------------
(* The user *)

Running == pc # "stopped"

(* watchfiles is started after the upload of put: earlier changes are not  *)
(* reported.                                                               *)
Watching == Running /\ after # "watch"

Report(kind, part) ==
    /\ edits < MaxEdits
    /\ edits' = edits + 1
    /\ IF Watching
       THEN pending' = pending \cup {[kind |-> kind, part |-> part]} /\ UNCHANGED excused
       ELSE excused' = excused \cup {part} /\ UNCHANGED pending
    /\ UNCHANGED <<remote, toolVars, doubtful, faults>>

Write ==
    \/ \E n \in Names :
         /\ disk' = [disk EXCEPT !.files[n] = edits + 2]
         /\ Report("updated", n)
    \/ \E id \in TemplateIds :
         /\ disk' = [disk EXCEPT !.meta = edits + 2, !.id = id]
         /\ Report("updated", Descriptor)
    \/ /\ disk' = [disk EXCEPT !.readme = edits + 2]
       /\ Report("updated", Readme)

Erase ==
    \/ \E n \in Names :
         /\ disk.files[n] > 0
         /\ disk' = [disk EXCEPT !.files[n] = 0]
         /\ Report("deleted", n)
    \/ /\ disk.meta > 0
       /\ disk' = [disk EXCEPT !.meta = 0]
       /\ Report("deleted", Descriptor)
    \/ /\ disk.readme > 0
       /\ disk' = [disk EXCEPT !.readme = 0]
       /\ Report("deleted", Readme)

(* main_routine of put: load_local, then store_remote *)
Put ==
    /\ pc \in {"stopped", "idle"}
    /\ edits < MaxEdits
    /\ edits' = edits + 1
    /\ disk.meta > 0 /\ disk.readme > 0
    /\ held' = OnDisk(FilesOnDisk)
    /\ fresh' = None /\ linked' = None
    /\ force' \in BOOLEAN
    /\ pc' = "store" /\ after' = "watch"
    /\ pending' = {} /\ batch' = {} /\ todo' = {}
    /\ excused' = {} /\ doubtful' = {}
    /\ UNCHANGED <<disk, remote, faults>>

-----------------------------------------------------------------------------
(* Requests: a fault is a request that raises, with or without effect. *)

Fault == faults < MaxFaults /\ faults' = faults + 1

Items == remote[linked].items

SetItems(items) == remote' = [remote EXCEPT ![linked].items = items]

(* update_template_draft *)
SetMetadata(d, t) ==
    remote' = [remote EXCEPT ![d] = [@ EXCEPT !.meta = t.meta, !.readme = t.readme]]

(* post_template_draft_file or _asset; the project keeps the response. *)
Post(n, version) ==
    LET posted == /\ FreeIds # {}
                  /\ SetItems(Items \cup {[id |-> NewId, name |-> n, version |-> version]})
    IN \/ /\ Alive /\ posted
          /\ SetProject([Project EXCEPT !.files[n] =
                           [version |-> version, remote |-> NewId]])
          /\ excused' = IF version = disk.files[n] THEN excused \ {n} ELSE excused
          /\ UNCHANGED <<doubtful, faults>>
       \/ /\ \/ ~Alive /\ UNCHANGED <<remote, faults>>
             \/ Fault /\ UNCHANGED remote
             \/ Fault /\ Alive /\ posted
          /\ excused' = excused \cup {n}
          /\ doubtful' = doubtful \cup {n}
          /\ UNCHANGED <<held, fresh>>

(* delete_template_draft_file or _asset; an unknown uuid is not an error. *)
Remove(id) == SetItems({i \in Items : i.id # id})

DeleteRaises(n, id) ==
    /\ Fault
    /\ UNCHANGED remote \/ (Alive /\ Remove(id))
    /\ doubtful' = doubtful \cup {n}

Known(id) == Alive /\ \E i \in Items : i.id = id

(* The parts that are uploaded with the draft itself. *)
Uploaded(t) ==
    {part \in {Descriptor, Readme} :
        IF part = Descriptor THEN t.meta = disk.meta ELSE t.readme = disk.readme}

(* Files of which the template has another version, or none. *)
OutOfDate(t) == {n \in Names : t.files[n].version # disk.files[n]}

(* An exception that process_changes logs, or that ends put: the rest of   *)
(* the batch is dropped.  Mutant: it is not.                               *)
DropLater ==
    /\ pc' = IF after = "watch" THEN "stopped" ELSE "idle"
    /\ doubtful' = Names
    /\ UNCHANGED <<batch, todo>>

Drop ==
    /\ pc' = IF after = "watch" THEN "stopped" ELSE "idle"
    /\ batch' = {} /\ todo' = {}
    /\ doubtful' = Names

-----------------------------------------------------------------------------
(* TDKCore.store_remote *)

Forced == force /\ after # "files"

StoreDraft ==
    /\ pc = "store"
    /\ linked' = held.id
    /\ \/ /\ remote[held.id] = None \/ Forced
          /\ remote' = [remote EXCEPT ![held.id] =
                          [meta |-> held.meta, readme |-> held.readme, items |-> {}]]
          /\ pc' = "upload"
          /\ UNCHANGED <<doubtful, faults>>
       \/ /\ remote[held.id] # None
          /\ IF Forced THEN Fault ELSE UNCHANGED faults
          /\ SetMetadata(held.id, held)
          /\ pc' = "cleanup"
          /\ doubtful' = doubtful \cup
               ({i.name : i \in remote[held.id].items} \ (Tracked(held) \cup {Foreign}))
    /\ todo' = Tracked(held)
    /\ excused' = (excused \ Uploaded(held)) \cup
                    (IF after = "files" THEN OutOfDate(held) ELSE {})
    /\ UNCHANGED <<disk, pending, batch, held, fresh, force, after, edits>>

(* Any of its requests raises.  update_descriptor catches that. *)
StoreFails ==
    /\ pc = "store"
    /\ Fault
    /\ \/ UNCHANGED <<remote, linked>>
       \/ /\ remote[held.id] = None \/ Forced
          /\ linked' = None
          /\ \/ UNCHANGED remote
             \/ \E meta \in {0, held.meta} :
                  remote' = [remote EXCEPT ![held.id] =
                               [meta |-> meta, readme |-> 0, items |-> {}]]
             \/ remote' = [remote EXCEPT ![held.id] = None]
       \/ /\ remote[held.id] # None /\ ~Forced
          /\ linked' = held.id
          /\ UNCHANGED remote \/ SetMetadata(held.id, held)
    /\ excused' = Parts
    /\ IF after = "files"
       THEN pc' = "files" /\ doubtful' = Names /\ UNCHANGED <<batch, todo>>
       ELSE Drop
    /\ after' = "idle"
    /\ UNCHANGED <<disk, pending, held, fresh, force, edits>>

RemoteFiles(n) == {i \in Items : i.name = n}

(* cleanup_remote_files *)
Cleanup ==
    /\ pc = "cleanup"
    /\ \E n \in todo :
         /\ todo' = todo \ {n}
         /\ \/ /\ Alive /\ SetItems(Items \ RemoteFiles(n))
               /\ UNCHANGED <<doubtful, faults>>
            \/ /\ ~Alive
               /\ UNCHANGED <<remote, doubtful, faults>>
            \/ /\ Alive /\ Fault
               /\ \E gone \in SUBSET RemoteFiles(n) : SetItems(Items \ gone)
               /\ doubtful' = doubtful \cup {n}
    /\ UNCHANGED <<disk, pending, batch, held, fresh, linked, force, pc, after,
                   excused, edits>>

EndCleanup ==
    /\ pc = "cleanup" /\ todo = {}
    /\ pc' = "upload"
    /\ todo' = Tracked(held)
    /\ UNCHANGED <<disk, pending, batch, remote, held, fresh, linked, force, after,
                   historyVars, edits, faults>>

(* store_remote_files *)
Upload ==
    /\ pc = "upload"
    /\ \E n \in todo :
         /\ todo' = todo \ {n}
         /\ Post(n, held.files[n].version)
    /\ UNCHANGED <<disk, pending, batch, linked, force, pc, after, edits>>

EndUpload ==
    /\ pc = "upload" /\ todo = {}
    /\ pc' = IF after = "files" THEN "files" ELSE "idle"
    /\ batch' = IF after = "files" THEN batch ELSE {}
    /\ after' = "idle"
    /\ UNCHANGED <<disk, pending, remote, held, fresh, linked, force, todo,
                   historyVars, edits, faults>>

-----------------------------------------------------------------------------
(* ChangesProcessor *)

Of(part) == {c \in batch : c.part = part}

Kinds(part) == {c.kind : c \in Of(part)}

TakeBatch ==
    /\ pc = "idle" /\ pending # {}
    /\ batch' = pending /\ pending' = {}
    /\ pc' = "descriptor"
    /\ UNCHANGED <<disk, remote, held, fresh, linked, force, after, todo,
                   historyVars, edits, faults>>

(* The last change that _split_changes meets counts. *)
ReloadDescriptor ==
    /\ pc = "descriptor"
    /\ \/ /\ Of(Descriptor) = {}
          /\ pc' = "readme"
          /\ UNCHANGED <<batch, held, fresh, todo, historyVars>>
       \/ /\ \/ "deleted" \in Kinds(Descriptor)
             \/ Of(Descriptor) # {} /\ disk.meta = 0
          /\ Drop
          /\ excused' = excused \cup {d.part : d \in batch}
          /\ UNCHANGED <<held, fresh>>
       \/ /\ "updated" \in Kinds(Descriptor) /\ disk.meta > 0 /\ disk.readme = 0
          /\ Drop
          /\ excused' = excused \cup {d.part : d \in batch}
          /\ fresh' = OnDisk(NoFiles)
          /\ UNCHANGED held
       \/ /\ "updated" \in Kinds(Descriptor) /\ disk.meta > 0 /\ disk.readme > 0
          /\ disk.id # Project.id
          /\ held' = OnDisk(FilesOnDisk)
          /\ fresh' = None
          /\ pc' = "store"
          /\ UNCHANGED <<batch, todo, historyVars>>
       \/ /\ "updated" \in Kinds(Descriptor) /\ disk.meta > 0 /\ disk.readme > 0
          /\ disk.id = Project.id
          /\ fresh' = OnDisk(NoFiles)
          /\ pc' = "readme"
          /\ UNCHANGED <<batch, held, todo, historyVars>>
    /\ UNCHANGED <<disk, pending, remote, linked, force, after, edits, faults>>

ReloadReadme ==
    /\ pc = "readme"
    /\ \/ /\ Of(Readme) = {}
          /\ pc' = "update"
          /\ UNCHANGED <<batch, held, fresh, todo, historyVars>>
       \/ /\ \/ "deleted" \in Kinds(Readme)
             \/ Of(Readme) # {} /\ disk.readme = 0
          /\ Drop
          /\ excused' = excused \cup {d.part : d \in batch}
          /\ UNCHANGED <<held, fresh>>
       \/ /\ "updated" \in Kinds(Readme) /\ disk.readme > 0
          /\ SetProject([Project EXCEPT !.readme = disk.readme])
          /\ pc' = "update"
          /\ UNCHANGED <<batch, todo, historyVars>>
    /\ UNCHANGED <<disk, pending, remote, linked, force, after, edits, faults>>

(* _update_descriptor: a draft that is gone is stored again, with the      *)
(* files the project knows, which are none after a change of the           *)
(* descriptor.  Mutant: the template with the files is not put back.       *)
KeepFresh == UNCHANGED <<held, fresh>>

PutBack == fresh' = None /\ UNCHANGED held

(* Mutant: the README is not part of the metadata. *)
DescriptorChanged == Of(Descriptor) # {}

MetadataChanged == Of(Descriptor) \cup Of(Readme) # {}

UpdateDescriptor ==
    /\ pc = "update"
    /\ \/ /\ ~MetadataChanged
          /\ pc' = "files"
          /\ UNCHANGED <<remote, held, fresh, after, historyVars, faults>>
       \/ /\ MetadataChanged
          /\ \/ /\ Alive
                /\ SetMetadata(linked, Project)
                /\ pc' = "files"
                /\ PutBack
                /\ excused' = excused \ Uploaded(Project)
                /\ UNCHANGED <<after, doubtful, faults>>
             \/ /\ ~Alive
                /\ held' = Project /\ fresh' = None
                /\ pc' = "store" /\ after' = "files"
                /\ UNCHANGED <<remote, historyVars, faults>>
             \/ /\ IF linked = None THEN UNCHANGED faults ELSE Fault
                /\ UNCHANGED remote \/ (Alive /\ SetMetadata(linked, Project))
                /\ pc' = "files"
                /\ PutBack
                /\ excused' = excused \cup {Descriptor, Readme}
                /\ UNCHANGED <<after, doubtful>>
    /\ UNCHANGED <<disk, pending, batch, linked, force, todo, edits>>

(* delete_file: a path that is not a file any more is skipped. *)
DeleteFile(n) ==
    /\ pc' = "files" /\ todo' = {}
    /\ IF disk.files[n] = 0 \/ n \notin Tracked(Project)
       THEN UNCHANGED <<remote, held, fresh, historyVars, faults>>
       ELSE /\ excused' = excused \cup {n}
            /\ LET id == Project.files[n].remote
               IN \/ /\ Known(id) /\ Remove(id)
                     /\ SetProject([Project EXCEPT !.files[n] =
                                      [version |-> 0, remote |-> None]])
                     /\ UNCHANGED <<doubtful, faults>>
                  \/ /\ ~Known(id)
                     /\ UNCHANGED <<remote, held, fresh, doubtful, faults>>
                  \/ /\ DeleteRaises(n, id)
                     /\ UNCHANGED <<held, fresh>>

(* Mutant: a file the project knows is not read again. *)
ContentKnown(n) ==
    IF n \in Tracked(Project) THEN Project.files[n].version ELSE disk.files[n]

(* load_file *)
ContentOf(n) == disk.files[n]

Loaded(n) ==
    [Project EXCEPT !.files[n] = [version |-> ContentOf(n), remote |-> @.remote]]

(* update_file, up to its first request: an unknown file is posted, a known *)
(* one is put, and posted again when that raises.                           *)
UpdateFile(n) ==
    IF disk.files[n] = 0
    THEN /\ pc' = "files" /\ todo' = {}
         /\ UNCHANGED <<remote, held, fresh, historyVars, faults>>
    ELSE /\ SetProject(Loaded(n))
         /\ LET id  == Project.files[n].remote
                put == SetItems({IF i.id = id THEN [i EXCEPT !.version = ContentOf(n)]
                                              ELSE i : i \in Items})
            IN \/ /\ n \notin Tracked(Project)
                  /\ pc' = "post" /\ todo' = {n}
                  /\ UNCHANGED <<remote, historyVars, faults>>
               \/ /\ n \in Tracked(Project) /\ Known(id)
                  /\ put
                  /\ pc' = "files" /\ todo' = {}
                  /\ excused' = excused \ {n}
                  /\ UNCHANGED <<doubtful, faults>>
               \/ /\ n \in Tracked(Project)
                  /\ \/ ~Known(id) /\ UNCHANGED <<remote, faults>>
                     \/ Fault /\ UNCHANGED remote
                     \/ Fault /\ Known(id) /\ put
                  /\ pc' = "delete" /\ todo' = {n}
                  /\ UNCHANGED historyVars

(* _process_file_changes: the changes of a batch are a set. *)
ProcessChange ==
    /\ pc = "files"
    /\ \E c \in batch :
         /\ c.part \in Names
         /\ batch' = batch \ {c}
         /\ IF c.kind = "deleted" THEN DeleteFile(c.part) ELSE UpdateFile(c.part)
    /\ UNCHANGED <<disk, pending, linked, force, after, edits>>

(* _update_template_file after an exception *)
DeleteOld ==
    /\ pc = "delete"
    /\ \E n \in todo :
         LET id == Project.files[n].remote
         IN \/ /\ IF Known(id) THEN Remove(id) ELSE UNCHANGED remote
               /\ UNCHANGED <<doubtful, faults>>
            \/ DeleteRaises(n, id)
    /\ pc' = "post"
    /\ UNCHANGED <<disk, pending, batch, held, fresh, linked, force, after, todo,
                   excused, edits>>

PostFile ==
    /\ pc = "post"
    /\ \E n \in todo : Post(n, Project.files[n].version)
    /\ pc' = "files" /\ todo' = {}
    /\ UNCHANGED <<disk, pending, batch, linked, force, after, edits>>

EndBatch ==
    /\ pc = "files"
    /\ \A c \in batch : c.part \notin Names
    /\ pc' = "idle" /\ batch' = {}
    /\ UNCHANGED <<disk, pending, remote, held, fresh, linked, force, after, todo,
                   historyVars, edits, faults>>

-----------------------------------------------------------------------------
Crash ==
    /\ Running /\ Fault
    /\ held' = None /\ fresh' = None /\ linked' = None
    /\ pending' = {} /\ batch' = {} /\ todo' = {}
    /\ pc' = "stopped" /\ after' = "idle" /\ force' = FALSE
    /\ UNCHANGED <<disk, remote, historyVars, edits>>

(* Somebody deletes the draft. *)
DropDraft ==
    /\ Fault
    /\ \E d \in TemplateIds :
         /\ remote[d] # None
         /\ remote' = [remote EXCEPT ![d] = None]
    /\ UNCHANGED <<disk, pending, toolVars, historyVars, edits>>

-----------------------------------------------------------------------------
User == Write \/ Erase \/ Put

StoreRemote == StoreDraft \/ StoreFails \/ Cleanup \/ EndCleanup \/ Upload \/ EndUpload

ProcessChanges ==
    \/ TakeBatch \/ ReloadDescriptor \/ ReloadReadme \/ UpdateDescriptor
    \/ ProcessChange \/ DeleteOld \/ PostFile \/ EndBatch

Next == User \/ StoreRemote \/ ProcessChanges \/ Crash \/ DropDraft

Spec == Init /\ [][Next]_vars

-----------------------------------------------------------------------------
AtRest == pc = "idle" /\ pending = {} /\ Alive

(* Every variable has the type of the code's value; store_remote works on  *)
(* one template that both objects share.                                   *)
TypeOK ==
    /\ disk \in [files: [Names -> Version], id: TemplateIds, meta: Version, readme: Version]
    /\ pending \subseteq Change /\ batch \subseteq Change
    /\ remote \in [TemplateIds -> Draft \cup {None}]
    /\ held \in Template \cup {None}
    /\ fresh \in Template \cup {None}
    /\ linked \in TemplateIds \cup {None}
    /\ force \in BOOLEAN
    /\ pc \in PC /\ after \in {"idle", "watch", "files"}
    /\ todo \subseteq Names
    /\ excused \subseteq Parts /\ doubtful \subseteq Names
    /\ edits \in 0..MaxEdits /\ faults \in 0..MaxFaults
    /\ (pc # "stopped" \/ linked # None) => held # None
    /\ pc \in {"store", "cleanup", "upload"} => fresh = None
    /\ pc \in {"idle", "stopped"} => batch = {}
    /\ after = "watch" => pc \in {"store", "cleanup", "upload"} /\ batch = {}

(* When all changes are processed, the draft has the content of every      *)
(* local file, whatever was renamed, edited twice or refused in between:   *)
(* except those whose last upload failed or was dropped, and those that a  *)
(* draft stored again got from a template that does not know their last    *)
(* version; the next edit of the file repeats it.                          *)
EveryFileIsUploaded ==
    AtRest => \A n \in Names \ excused : disk.files[n] > 0 =>
        \E i \in Items : i.name = n /\ i.version = disk.files[n]

(* The draft has a file once, under the uuid that the project remembers,   *)
(* unless requests or batches failed.                                      *)
FilesAreLinked ==
    AtRest => \A n \in Tracked(Project) \ doubtful :
        \A i \in Items : i.name = n => i.id = Project.files[n].remote

(* The README of the draft is the local one, although two templates in     *)
(* memory remember it.                                                     *)
ReadmeIsCurrent ==
    AtRest /\ Readme \notin excused /\ disk.readme > 0 =>
        remote[linked].readme = disk.readme

(* dsw-tdk put --watch "continually upload[s] changes": the draft has the  *)
(* metadata of template.json.                                              *)
MetadataIsCurrent ==
    AtRest /\ Descriptor \notin excused /\ disk.meta > 0 =>
        remote[linked].meta = disk.meta

=============================================================================
