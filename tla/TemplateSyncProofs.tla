-------------------------- MODULE TemplateSyncProofs -------------------------
(***************************************************************************)
(* Theorems about TemplateSync, for every set of files and coordinates and *)
(* any number of edits, of restarts and of faults.                         *)
(***************************************************************************)
EXTENDS TemplateSync, FiniteSetTheorems, TLAPS

-----------------------------------------------------------------------------
(* The inductive invariant *)

Upd(part) == [kind |-> "updated", part |-> part]

(* Where the program follows changes, and where it has the draft only. *)
Following == {"idle", "descriptor", "readme", "update", "files", "delete", "post"}

(* A uuid that a template remembers for a file belongs to no other file.   *)
Remembers(n) == {t.files[n].remote : t \in {held, fresh} \ {None}}

OwnIds ==
    \A n \in Names, d \in TemplateIds : \A i \in ItemsOf(d) :
        i.id \in Remembers(n) => i.name = n

(* There are two templates in memory from the reload of the descriptor to  *)
(* the update of the draft, or after a failure in between.                 *)
Diverged ==
    fresh # None =>
        \/ doubtful = Names
        \/ pc \in {"readme", "update"} /\ Of(Descriptor) # {}

TodoIsTracked ==
    pc \in {"upload", "delete", "post"} => todo \subseteq Tracked(Project)

OneAtATime == pc \in {"delete", "post"} => \E n \in Names : todo = {n}

(* The draft has no file of that name; all have the uuid the project knows. *)
Ids(n) == {i.id : i \in RemoteFiles(n)}

Absent(n) == Ids(n) = {}

Linked(n) == Ids(n) \subseteq {held.files[n].remote}

(* A file that waits for its upload, or that the project does not know, is  *)
(* absent from the draft; any other is linked, once the cleanup is over.    *)
LinkOf(n) ==
    /\ n \notin Tracked(held) => Absent(n)
    /\ n \in todo /\ pc \in {"upload", "post"} => Absent(n)
    /\ n \notin todo /\ pc = "cleanup" => Absent(n)
    /\ pc # "cleanup" => Linked(n)

LinkInv == Alive /\ pc # "store" => \A n \in Names \ doubtful : LinkOf(n)

(* The draft has the content of the file. *)
HasContent(n) == \E i \in Items : i.name = n /\ i.version = disk.files[n]

(* The project has read the last version of the file. *)
Current(n) == Project.files[n].version = disk.files[n]

(* A change of the file is yet to be processed, now or after the upload.   *)
Waits(n) == Upd(n) \in pending \/ (after = "files" /\ Upd(n) \in batch)

(* Why the draft has the content of a file, or will have it. *)
Content(n) ==
    /\ pc = "store" /\ after # "files" => Upd(n) \in pending \/ Current(n)
    /\ pc = "cleanup" /\ Alive => Waits(n) \/ Current(n)
    /\ pc = "upload" /\ Alive => Waits(n) \/ (n \in todo /\ Current(n)) \/ HasContent(n)
    /\ pc \in Following /\ Alive =>
          \/ Upd(n) \in pending \cup batch
          \/ IF pc \in {"delete", "post"} /\ n \in todo THEN Current(n) ELSE HasContent(n)

ContentInv == \A n \in Names \ excused : disk.files[n] > 0 => Content(n)

(* The same for the README, of which each template has a copy. *)
Coming == Upd(Readme) \in pending

HasReadme == Alive => remote[linked].readme = disk.readme

ReadmeInv ==
    Readme \notin excused /\ disk.readme > 0 =>
        /\ pc = "store" => Coming \/ held.readme = disk.readme
        /\ pc \in {"cleanup", "upload", "idle", "files", "delete", "post"} =>
              Coming \/ HasReadme
        /\ pc \in {"descriptor", "readme"} => Coming \/ Upd(Readme) \in batch \/ HasReadme
        /\ pc = "readme" /\ Of(Descriptor) # {} => Coming \/ Project.readme = disk.readme
        /\ pc = "update" =>
              Coming \/ (IF MetadataChanged THEN Project.readme = disk.readme ELSE HasReadme)

-----------------------------------------------------------------------------
(* The values of the program and of the server *)

LEMMA TemplateShape ==
    \A t \in Template :
        /\ t # None /\ t.id \in TemplateIds /\ t.meta \in Version /\ t.readme \in Version
        /\ \A n \in Names : /\ t.files[n].version \in Version
                            /\ t.files[n].remote \in ItemIds \cup {None}
        /\ Tracked(t) \subseteq Names
BY NoneAssumption DEF Template, Entry, Tracked

LEMMA FileChanged ==
    ASSUME NEW t \in Template, NEW n \in Names, NEW e \in Entry
    PROVE  LET u == [t EXCEPT !.files[n] = e] IN
           /\ u \in Template
           /\ u.files[n] = e
           /\ \A m \in Names \ {n} : u.files[m] = t.files[m]
           /\ u.id = t.id /\ u.meta = t.meta /\ u.readme = t.readme
<1>1. t.files \in [Names -> Entry]
  BY DEF Template
<1>2. [t.files EXCEPT ![n] = e] \in [Names -> Entry]
  BY <1>1
<1>. QED  BY <1>1, <1>2 DEF Template

LEMMA ProjectType ==
    ASSUME TypeOK, held # None
    PROVE  Project \in Template /\ held \in Template
BY DEF TypeOK, Project

LEMMA LoadedShape ==
    ASSUME TypeOK, held # None, NEW n \in Names
    PROVE  /\ Loaded(n) \in Template
           /\ Loaded(n).files[n].version = disk.files[n]
           /\ Loaded(n).files[n].remote = Project.files[n].remote
           /\ \A m \in Names \ {n} : Loaded(n).files[m] = Project.files[m]
           /\ Loaded(n).id = Project.id /\ Loaded(n).readme = Project.readme
<1>. DEFINE e == [version |-> disk.files[n], remote |-> Project.files[n].remote]
<1>1. Project \in Template
  BY ProjectType
<1>2. Project.files[n].remote \in ItemIds \cup {None} /\ disk.files[n] \in Version
  BY <1>1, TemplateShape DEF TypeOK
<1>3. e \in Entry
  BY <1>2 DEF Entry
<1>4. Loaded(n) = [Project EXCEPT !.files[n] = e]
  BY <1>1 DEF Loaded, ContentOf, Template
<1>. QED  BY <1>1, <1>3, <1>4, FileChanged

LEMMA SetProjectEffect ==
    ASSUME TypeOK, held # None, NEW t \in Template, SetProject(t)
    PROVE  /\ held' \in Template /\ fresh' \in Template \cup {None}
           /\ Project' = t
           /\ fresh' = None <=> fresh = None
           /\ fresh = None => held' = t
           /\ fresh # None => held' = held /\ fresh' = t
BY NoneAssumption DEF SetProject, Project, TypeOK

LEMMA DraftShape ==
    ASSUME TypeOK
    PROVE  /\ \A d \in TemplateIds : ItemsOf(d) \subseteq Item
           /\ Alive => /\ linked \in TemplateIds /\ remote[linked] \in Draft
                       /\ Items \subseteq Item /\ Items = ItemsOf(linked)
BY DEF TypeOK, ItemsOf, Draft, Alive, Items

LEMMA SetItemsEffect ==
    ASSUME TypeOK, Alive, NEW S, S \subseteq Item, SetItems(S)
    PROVE  /\ remote' \in [TemplateIds -> Draft \cup {None}]
           /\ remote'[linked] # None /\ remote'[linked].items = S
           /\ remote'[linked].readme = remote[linked].readme
           /\ \A d \in TemplateIds : d # linked => remote'[d] = remote[d]
<1>1. linked \in TemplateIds /\ remote[linked] \in Draft
  BY DraftShape
<1>2. [remote[linked] EXCEPT !.items = S] \in Draft
  BY <1>1 DEF Draft
<1>3. remote' = [remote EXCEPT ![linked] = [remote[linked] EXCEPT !.items = S]]
  BY DEF SetItems
<1>4. /\ [remote[linked] EXCEPT !.items = S].items = S
      /\ [remote[linked] EXCEPT !.items = S].readme = remote[linked].readme
  BY <1>1 DEF Draft
<1>. QED  BY <1>1, <1>2, <1>3, <1>4, NoneAssumption DEF TypeOK

LEMMA SetMetadataEffect ==
    ASSUME TypeOK, NEW d \in TemplateIds, remote[d] # None, NEW t \in Template,
           SetMetadata(d, t)
    PROVE  /\ remote' \in [TemplateIds -> Draft \cup {None}]
           /\ remote'[d] # None /\ remote'[d].items = remote[d].items
           /\ remote'[d].readme = t.readme
           /\ \A e \in TemplateIds : e # d => remote'[e] = remote[e]
<1>1. remote[d] \in Draft
  BY DEF TypeOK
<1>. DEFINE new == [remote[d] EXCEPT !.meta = t.meta, !.readme = t.readme]
<1>2. new \in Draft /\ new.items = remote[d].items /\ new.readme = t.readme
  BY <1>1, TemplateShape DEF Draft
<1>3. remote' = [remote EXCEPT ![d] = new]
  BY DEF SetMetadata
<1>. HIDE DEF new
<1>. QED  BY <1>2, <1>3, NoneAssumption DEF TypeOK

LEMMA NewIdIsFree ==
    FreeIds # {} =>
        /\ NewId \in ItemIds
        /\ \A d \in TemplateIds : \A i \in ItemsOf(d) : i.id # NewId
        /\ held # None => \A n \in Names : held.files[n].remote # NewId
        /\ fresh # None => \A n \in Names : fresh.files[n].remote # NewId
<1>. SUFFICES ASSUME FreeIds # {} PROVE NewId \in FreeIds
  BY DEF FreeIds, Uuids
<1>. QED  BY DEF NewId

-----------------------------------------------------------------------------
(* Requests about files, in terms of what the draft has afterwards *)

NewItem(n, version) == [id |-> NewId, name |-> n, version |-> version]

(* The draft still exists and has these items; nothing else has changed. *)
ItemsBecome(S) ==
    /\ remote' \in [TemplateIds -> Draft \cup {None}]
    /\ remote'[linked] # None /\ remote'[linked].items = S
    /\ remote'[linked].readme = remote[linked].readme
    /\ \A d \in TemplateIds : d # linked => remote'[d] = remote[d]

Posted(n, version) ==
    Alive /\ FreeIds # {} /\ ItemsBecome(Items \cup {NewItem(n, version)})

Remembered(n, version) ==
    [Project EXCEPT !.files[n] = [version |-> version, remote |-> NewId]]

LEMMA FaultType == ASSUME TypeOK, Fault PROVE faults' \in 0..MaxFaults
BY SyncAssumption DEF TypeOK, Fault

LEMMA PostEffect ==
    ASSUME TypeOK, held # None, NEW n \in Names, NEW version \in Version, Post(n, version)
    PROVE  /\ faults' \in 0..MaxFaults
           /\ \/ /\ Posted(n, version)
                 /\ Remembered(n, version) \in Template /\ SetProject(Remembered(n, version))
                 /\ excused' = IF version = disk.files[n] THEN excused \ {n} ELSE excused
                 /\ doubtful' = doubtful
              \/ /\ remote' = remote \/ Posted(n, version)
                 /\ excused' = excused \cup {n} /\ doubtful' = doubtful \cup {n}
                 /\ held' = held /\ fresh' = fresh
<1>. DEFINE post == FreeIds # {} /\ SetItems(Items \cup {NewItem(n, version)})
<1>1. ASSUME Alive, post PROVE Posted(n, version)
  <2>1. NewItem(n, version) \in Item
    BY <1>1, NewIdIsFree DEF NewItem, Item
  <2>2. ItemsBecome(Items \cup {NewItem(n, version)})
    BY <1>1, <2>1, DraftShape, SetItemsEffect DEF ItemsBecome
  <2>. QED  BY <1>1, <2>2 DEF Posted
<1>2. ASSUME Posted(n, version) PROVE Remembered(n, version) \in Template
  <2>1. [version |-> version, remote |-> NewId] \in Entry
    BY <1>2, NewIdIsFree DEF Posted, Entry
  <2>. QED  BY <2>1, ProjectType, FileChanged DEF Remembered
<1>3. \/ /\ Alive /\ post /\ SetProject(Remembered(n, version))
         /\ excused' = IF version = disk.files[n] THEN excused \ {n} ELSE excused
         /\ UNCHANGED <<doubtful, faults>>
      \/ /\ \/ ~Alive /\ UNCHANGED <<remote, faults>>
            \/ Fault /\ UNCHANGED remote
            \/ Fault /\ Alive /\ post
         /\ excused' = excused \cup {n}
         /\ doubtful' = doubtful \cup {n}
         /\ UNCHANGED <<held, fresh>>
  BY DEF Post, NewItem, Remembered
<1>. HIDE DEF post
<1>4. faults \in 0..MaxFaults
  BY DEF TypeOK
<1>. QED  BY <1>1, <1>2, <1>3, <1>4, FaultType

(* What follows for the types. *)
LEMMA PostType ==
    ASSUME TypeOK, held # None, NEW n \in Names, NEW version \in Version, Post(n, version)
    PROVE  /\ remote' \in [TemplateIds -> Draft \cup {None}]
           /\ held' \in Template /\ fresh' \in Template \cup {None}
           /\ fresh' = None <=> fresh = None
           /\ excused' \subseteq Parts /\ doubtful' \subseteq Names
           /\ faults' \in 0..MaxFaults
<1>1. /\ excused' \subseteq Parts /\ doubtful' \subseteq Names /\ faults' \in 0..MaxFaults
      /\ remote' \in [TemplateIds -> Draft \cup {None}]
  BY PostEffect DEF TypeOK, Parts, Posted, ItemsBecome
<1>2. /\ held' \in Template /\ fresh' \in Template \cup {None}
      /\ fresh' = None <=> fresh = None
  <2>1. CASE Remembered(n, version) \in Template /\ SetProject(Remembered(n, version))
    BY <2>1, SetProjectEffect
  <2>2. CASE held' = held /\ fresh' = fresh
    BY <2>2 DEF TypeOK
  <2>. QED  BY <2>1, <2>2, PostEffect
<1>. QED  BY <1>1, <1>2

Others(id) == {i \in Items : i.id # id}

LEMMA RemoveEffect ==
    ASSUME TypeOK, Alive, NEW id, Remove(id)
    PROVE  ItemsBecome(Others(id))
<1>1. Others(id) \subseteq Item
  BY DraftShape DEF Others
<1>. QED  BY <1>1, SetItemsEffect DEF Remove, Others, ItemsBecome

LEMMA DeleteRaisesEffect ==
    ASSUME TypeOK, NEW n \in Names, NEW id, DeleteRaises(n, id)
    PROVE  /\ faults' \in 0..MaxFaults
           /\ remote' = remote \/ (Alive /\ ItemsBecome(Others(id)))
           /\ doubtful' = doubtful \cup {n}
BY FaultType, RemoveEffect DEF DeleteRaises

LEMMA BecomeType ==
    ASSUME TypeOK, NEW S, remote' = remote \/ ItemsBecome(S)
    PROVE  remote' \in [TemplateIds -> Draft \cup {None}]
BY DEF TypeOK, ItemsBecome

-----------------------------------------------------------------------------
(* Every value has its type *)

LEMMA TypeInit == Init => TypeOK
<1>. SUFFICES ASSUME Init PROVE TypeOK
  OBVIOUS
<1>1. /\ 0 \in Version /\ 1 \in Version /\ 0 \in 0..MaxEdits /\ 0 \in 0..MaxFaults
      /\ None \notin ItemIds
  BY SyncAssumption, NoneAssumption DEF Version
<1>2. disk \in [files: [Names -> Version], id: TemplateIds, meta: Version, readme: Version]
  BY <1>1 DEF Init
<1>3. remote \in [TemplateIds -> Draft \cup {None}]
  <2>1. PICK old \in SUBSET (Names \cup {Foreign}), draft \in BOOLEAN :
          \E uuid \in {f \in [old -> 1..Cardinality(old)] :
                         \A m, n \in old : f[m] = f[n] => m = n} :
            remote = [d \in TemplateIds |->
                        IF draft /\ d = disk.id
                        THEN [meta |-> 0, readme |-> 0, items |->
                               {[id |-> uuid[n], name |-> n, version |-> 0] : n \in old}]
                        ELSE None]
    BY DEF Init
  <2>2. PICK uuid \in [old -> 1..Cardinality(old)] :
          remote = [d \in TemplateIds |->
                      IF draft /\ d = disk.id
                      THEN [meta |-> 0, readme |-> 0, items |->
                             {[id |-> uuid[n], name |-> n, version |-> 0] : n \in old}]
                      ELSE None]
    BY <2>1
  <2>3. /\ IsFiniteSet(Names \cup {Foreign})
        /\ Cardinality(Names \cup {Foreign}) = Cardinality(Names) + 1
    BY SyncAssumption, FS_AddElement
  <2>4. /\ Cardinality(old) \in Nat /\ Cardinality(Names) \in Nat
        /\ Cardinality(old) <= Cardinality(Names \cup {Foreign})
    BY <2>3, SyncAssumption, FS_Subset, FS_CardinalityType
  <2>5. \A n \in old : uuid[n] \in ItemIds
    BY <2>2, <2>3, <2>4, SyncAssumption DEF ItemIds
  <2>. DEFINE S == {[id |-> uuid[n], name |-> n, version |-> 0] : n \in old}
  <2>6. S \subseteq Item
    BY <2>1, <2>5, <1>1 DEF Item
  <2>. HIDE DEF S
  <2>7. [meta |-> 0, readme |-> 0, items |-> S] \in Draft
    BY <2>6, <1>1 DEF Draft
  <2>. QED  BY <2>2, <2>7 DEF S
<1>. QED  BY <1>1, <1>2, <1>3 DEF Init, TypeOK, PC, Parts

(* What the project on disk, or a template, makes of a version. *)
LEMMA DiskShape ==
    ASSUME TypeOK
    PROVE  /\ \A n \in Names : disk.files[n] \in Version
           /\ disk.id \in TemplateIds /\ disk.meta \in Version /\ disk.readme \in Version
           /\ FilesOnDisk \in [Names -> Entry] /\ NoFiles \in [Names -> Entry]
           /\ 0 \in Version
BY SyncAssumption DEF TypeOK, FilesOnDisk, NoFiles, Entry, Version

LEMMA LoadedFromDisk ==
    ASSUME TypeOK, NEW files \in [Names -> Entry]
    PROVE  OnDisk(files) \in Template
BY DiskShape DEF Template, OnDisk

LEMMA WriteType == TypeOK /\ (Write \/ Erase) => TypeOK'
<1>. SUFFICES ASSUME TypeOK, Write \/ Erase PROVE TypeOK'
  OBVIOUS
<1>. DEFINE DiskType ==
       [files: [Names -> Version], id: TemplateIds, meta: Version, readme: Version]
<1>1. PICK kind \in {"updated", "deleted"}, part \in Parts : Report(kind, part)
  BY DEF Write, Erase, Parts
<1>2. edits + 2 \in Version /\ 0 \in Version /\ edits' \in 0..MaxEdits
  BY <1>1, SyncAssumption DEF TypeOK, Report, Version
<1>3. disk \in DiskType
  BY DEF TypeOK
<1>4. disk' \in DiskType
  <2>1. CASE \E n \in Names, v \in {0, edits + 2} : disk' = [disk EXCEPT !.files[n] = v]
    <3>1. PICK n \in Names, v \in {0, edits + 2} : disk' = [disk EXCEPT !.files[n] = v]
      BY <2>1
    <3>2. [disk.files EXCEPT ![n] = v] \in [Names -> Version]
      BY <1>2, <1>3
    <3>3. disk' = [disk EXCEPT !.files = [disk.files EXCEPT ![n] = v]]
      BY <3>1, <1>3
    <3>. QED  BY <3>2, <3>3, <1>3
  <2>2. CASE \E id \in TemplateIds : disk' = [disk EXCEPT !.meta = edits + 2, !.id = id]
    BY <2>2, <1>2, <1>3
  <2>3. CASE \E v \in {0, edits + 2} :
               disk' = [disk EXCEPT !.meta = v] \/ disk' = [disk EXCEPT !.readme = v]
    BY <2>3, <1>2, <1>3
  <2>. QED  BY <2>1, <2>2, <2>3 DEF Write, Erase
<1>5. pending' \subseteq Change /\ excused' \subseteq Parts
  BY <1>1 DEF Report, Change, TypeOK
<1>. HIDE DEF DiskType
<1>6. /\ UNCHANGED <<remote, toolVars, doubtful, faults>>
      /\ disk' \in [files: [Names -> Version], id: TemplateIds, meta: Version, readme: Version]
  BY <1>1, <1>4 DEF Report, DiskType
<1>. QED  BY <1>2, <1>5, <1>6 DEF TypeOK, toolVars

LEMMA PutType == TypeOK /\ Put => TypeOK'
<1>. SUFFICES ASSUME TypeOK, Put PROVE TypeOK'
  OBVIOUS
<1>1. held' \in Template /\ edits' \in 0..MaxEdits /\ force' \in BOOLEAN
  BY LoadedFromDisk, DiskShape, SyncAssumption DEF TypeOK, Put
<1>2. held' # None
  BY <1>1, NoneAssumption
<1>3. /\ fresh' = None /\ linked' = None /\ pc' = "store" /\ after' = "watch"
      /\ pending' = {} /\ batch' = {} /\ todo' = {} /\ excused' = {} /\ doubtful' = {}
      /\ UNCHANGED <<disk, remote, faults>>
  BY DEF Put
<1>. QED  BY <1>1, <1>2, <1>3 DEF TypeOK, PC

LEMMA StoreType == TypeOK /\ (StoreDraft \/ StoreFails) => TypeOK'
<1>. SUFFICES ASSUME TypeOK, StoreDraft \/ StoreFails PROVE TypeOK'
  OBVIOUS
<1>1. pc = "store" /\ held \in Template /\ fresh = None
  BY ProjectType DEF TypeOK, StoreDraft, StoreFails
<1>2. held # None /\ held.id \in TemplateIds /\ held.meta \in Version /\ held.readme \in Version
      /\ Tracked(held) \subseteq Names /\ 0 \in Version
  BY <1>1, TemplateShape, DiskShape
<1>3. \A meta, readme \in Version : [meta |-> meta, readme |-> readme, items |-> {}] \in Draft
  BY DEF Draft
<1>4. /\ remote' \in [TemplateIds -> Draft \cup {None}]
      /\ linked' \in TemplateIds \cup {None}
      /\ excused' \subseteq Parts /\ doubtful' \subseteq Names
      /\ faults' \in 0..MaxFaults
  <2>1. CASE StoreDraft
    <3>1. CASE remote' = [remote EXCEPT ![held.id] =
                            [meta |-> held.meta, readme |-> held.readme, items |-> {}]]
               /\ UNCHANGED <<doubtful, faults>>
      BY <2>1, <3>1, <1>2, <1>3 DEF StoreDraft, TypeOK, Uploaded, OutOfDate, Parts
    <3>2. CASE /\ remote[held.id] # None
               /\ Fault \/ UNCHANGED faults
               /\ SetMetadata(held.id, held)
               /\ doubtful' = doubtful \cup
                    ({i.name : i \in remote[held.id].items} \ (Tracked(held) \cup {Foreign}))
      <4>1. remote[held.id].items \subseteq Item
        BY <3>2, <1>2 DEF TypeOK, Draft
      <4>2. doubtful' \subseteq Names
        BY <4>1, <3>2 DEF TypeOK, Item
      <4>3. faults' \in 0..MaxFaults
        BY <3>2, FaultType DEF TypeOK
      <4>4. remote' \in [TemplateIds -> Draft \cup {None}]
        BY <3>2, <1>1, <1>2, SetMetadataEffect
      <4>. QED  BY <2>1, <4>2, <4>3, <4>4, <1>2
             DEF StoreDraft, TypeOK, Uploaded, OutOfDate, Parts
    <3>. QED  BY <2>1, <3>1, <3>2 DEF StoreDraft
  <2>2. CASE StoreFails
    <3>1. excused' \subseteq Parts /\ faults' \in 0..MaxFaults /\ doubtful' \subseteq Names
      BY <2>2, FaultType DEF StoreFails, Drop
    <3>2. linked' \in TemplateIds \cup {None}
      BY <2>2, <1>2 DEF StoreFails, TypeOK
    <3>3. remote' \in [TemplateIds -> Draft \cup {None}]
      <4>1. CASE remote' = remote
        BY <4>1 DEF TypeOK
      <4>2. CASE \E meta \in {0, held.meta} :
                   remote' = [remote EXCEPT ![held.id] =
                                [meta |-> meta, readme |-> 0, items |-> {}]]
        BY <4>2, <1>2, <1>3 DEF TypeOK
      <4>3. CASE remote' = [remote EXCEPT ![held.id] = None]
        BY <4>3, <1>2 DEF TypeOK
      <4>4. CASE remote[held.id] # None /\ SetMetadata(held.id, held)
        BY <4>4, <1>1, <1>2, SetMetadataEffect
      <4>. QED  BY <2>2, <4>1, <4>2, <4>3, <4>4 DEF StoreFails
    <3>. QED  BY <3>1, <3>2, <3>3
  <2>. QED  BY <2>1, <2>2
<1>5. /\ UNCHANGED <<disk, pending, held, fresh, force, edits>>
      /\ pc' \in {"store", "cleanup", "upload", "files", "idle", "stopped"}
      /\ todo' \subseteq Names /\ batch' \subseteq Change /\ after' \in {"idle", "watch", "files"}
      /\ after' = "watch" => pc' \in {"cleanup", "upload"} /\ batch' = {}
      /\ pc' \in {"idle", "stopped"} => batch' = {}
  BY <1>2 DEF StoreDraft, StoreFails, Drop, TypeOK
<1>. QED  BY <1>1, <1>2, <1>4, <1>5 DEF TypeOK, PC

LEMMA TransferType == TypeOK /\ (Cleanup \/ EndCleanup \/ Upload \/ EndUpload) => TypeOK'
<1>. SUFFICES ASSUME TypeOK, Cleanup \/ EndCleanup \/ Upload \/ EndUpload PROVE TypeOK'
  OBVIOUS
<1>1. held \in Template /\ held # None /\ fresh = None
  BY ProjectType DEF TypeOK, Cleanup, EndCleanup, Upload, EndUpload
<1>2. CASE Cleanup
  <2>1. PICK n \in todo :
          /\ todo' = todo \ {n}
          /\ \/ /\ Alive /\ SetItems(Items \ RemoteFiles(n))
                /\ UNCHANGED <<doubtful, faults>>
             \/ /\ ~Alive
                /\ UNCHANGED <<remote, doubtful, faults>>
             \/ /\ Alive /\ Fault
                /\ \E gone \in SUBSET RemoteFiles(n) : SetItems(Items \ gone)
                /\ doubtful' = doubtful \cup {n}
    BY <1>2 DEF Cleanup
  <2>2. /\ faults' \in 0..MaxFaults /\ todo' \subseteq Names
        /\ doubtful' \subseteq Names
    BY <2>1, FaultType DEF TypeOK
  <2>3. \/ remote' = remote
        \/ Alive /\ \E gone : SetItems(Items \ gone)
    BY <2>1
  <2>4. remote' \in [TemplateIds -> Draft \cup {None}]
    BY <2>3, DraftShape, SetItemsEffect DEF TypeOK
  <2>. QED  BY <1>2, <2>2, <2>4 DEF Cleanup, TypeOK
<1>3. CASE EndCleanup
  <2>1. todo' \subseteq Names /\ pc' = "upload"
    BY <1>3, <1>1, TemplateShape DEF EndCleanup
  <2>. QED  BY <1>3, <2>1, <1>1 DEF EndCleanup, TypeOK, PC, historyVars
<1>4. CASE Upload
  <2>1. PICK n \in todo : todo' = todo \ {n} /\ Post(n, held.files[n].version)
    BY <1>4 DEF Upload
  <2>2. n \in Names /\ held.files[n].version \in Version
    BY <1>1, TemplateShape DEF TypeOK
  <2>3. /\ remote' \in [TemplateIds -> Draft \cup {None}]
        /\ held' \in Template /\ fresh' = None
        /\ excused' \subseteq Parts /\ doubtful' \subseteq Names
        /\ faults' \in 0..MaxFaults
    BY <2>1, <2>2, <1>1, PostType
  <2>4. held' # None
    BY <2>3, NoneAssumption
  <2>. QED  BY <1>4, <2>1, <2>3, <2>4 DEF Upload, TypeOK
<1>5. CASE EndUpload
  <2>1. pc' \in {"files", "idle"} /\ batch' \subseteq Change /\ (pc' = "idle" => batch' = {})
    BY <1>5 DEF EndUpload, TypeOK
  <2>. QED  BY <1>5, <2>1, <1>1 DEF EndUpload, TypeOK, PC, historyVars
<1>. QED  BY <1>2, <1>3, <1>4, <1>5

LEMMA ChangesOf ==
    ASSUME TypeOK, NEW part
    PROVE  /\ Of(part) \subseteq batch
           /\ Kinds(part) = {} <=> Of(part) = {}
           /\ Kinds(part) \subseteq {"updated", "deleted"}
           /\ "updated" \in Kinds(part) => Upd(part) \in batch
BY DEF Of, Kinds, Upd, TypeOK, Change

LEMMA DropType ==
    ASSUME TypeOK, Drop
    PROVE  /\ pc' \in PC /\ (pc' \in {"idle", "stopped"})
           /\ batch' = {} /\ todo' = {} /\ doubtful' \subseteq Names
BY DEF Drop, PC

LEMMA ReloadType == TypeOK /\ (ReloadDescriptor \/ ReloadReadme) => TypeOK'
<1>. SUFFICES ASSUME TypeOK, ReloadDescriptor \/ ReloadReadme PROVE TypeOK'
  OBVIOUS
<1>1. pc \in {"descriptor", "readme"} /\ held # None /\ Project \in Template
  BY ProjectType DEF TypeOK, ReloadDescriptor, ReloadReadme
<1>2. OnDisk(NoFiles) \in Template /\ OnDisk(FilesOnDisk) \in Template
  BY LoadedFromDisk, DiskShape
<1>3. [Project EXCEPT !.readme = disk.readme] \in Template
  BY <1>1, DiskShape DEF Template
<1>4. held' \in Template /\ fresh' \in Template \cup {None}
  <2>1. CASE (held' = held /\ fresh' = fresh) \/ (fresh' = OnDisk(NoFiles) /\ held' = held)
    BY <2>1, <1>1, <1>2 DEF TypeOK
  <2>2. CASE held' = OnDisk(FilesOnDisk) /\ fresh' = None
    BY <2>2, <1>2
  <2>3. CASE SetProject([Project EXCEPT !.readme = disk.readme])
    BY <2>3, <1>1, <1>3, SetProjectEffect
  <2>. QED  BY <2>1, <2>2, <2>3 DEF ReloadDescriptor, ReloadReadme
<1>5. {d.part : d \in batch} \subseteq Parts
  BY DEF TypeOK, Change
<1>6. /\ excused' \subseteq Parts /\ doubtful' \subseteq Names
      /\ batch' \subseteq Change /\ todo' \subseteq Names
      /\ pc' \in PC /\ (pc' \in {"idle", "stopped"} => batch' = {})
      /\ pc' \in {"store", "cleanup", "upload"} => fresh' = None
  <2>1. CASE Drop /\ excused' = excused \cup {d.part : d \in batch}
    BY <2>1, <1>5, DropType DEF TypeOK
  <2>2. CASE /\ UNCHANGED <<batch, todo, historyVars>>
             /\ pc' \in {"readme", "update"} \/ (pc' = "store" /\ fresh' = None)
    BY <2>2 DEF TypeOK, historyVars, PC
  <2>. QED  BY <2>1, <2>2 DEF ReloadDescriptor, ReloadReadme
<1>7. /\ UNCHANGED <<disk, pending, remote, linked, force, after, edits, faults>>
      /\ held' # None /\ after # "watch"
  BY <1>1, <1>4, NoneAssumption DEF ReloadDescriptor, ReloadReadme, TypeOK
<1>. QED  BY <1>4, <1>6, <1>7 DEF TypeOK

LEMMA UpdateDescriptorType == TypeOK /\ UpdateDescriptor => TypeOK'
<1>. SUFFICES ASSUME TypeOK, UpdateDescriptor PROVE TypeOK'
  OBVIOUS
<1>1. pc = "update" /\ held # None /\ held \in Template /\ Project \in Template
  BY ProjectType DEF TypeOK, UpdateDescriptor
<1>2. ASSUME Alive, SetMetadata(linked, Project)
      PROVE  remote' \in [TemplateIds -> Draft \cup {None}]
  BY <1>1, <1>2, SetMetadataEffect DEF Alive, TypeOK
<1>3. /\ remote' \in [TemplateIds -> Draft \cup {None}]
      /\ held' \in Template /\ fresh' \in Template \cup {None}
      /\ excused' \subseteq Parts /\ doubtful' = doubtful
      /\ faults' \in 0..MaxFaults /\ after' \in {after, "files"}
      /\ pc' = "files" \/ (pc' = "store" /\ fresh' = None)
  BY <1>1, <1>2, FaultType DEF UpdateDescriptor, TypeOK, PutBack, historyVars, Parts
<1>4. UNCHANGED <<disk, pending, batch, linked, force, todo, edits>> /\ held' # None
      /\ after # "watch"
  BY <1>3, NoneAssumption DEF UpdateDescriptor, TypeOK
<1>. QED  BY <1>3, <1>4 DEF TypeOK, PC

(* What update_file does with a file that is there. *)
PutItem(n) ==
    {IF i.id = Project.files[n].remote THEN [i EXCEPT !.version = disk.files[n]] ELSE i :
        i \in Items}

LEMMA PutItemEffect ==
    ASSUME TypeOK, held # None, Alive, NEW n \in Names, SetItems(PutItem(n))
    PROVE  ItemsBecome(PutItem(n))
<1>1. \A i \in Items : [i EXCEPT !.version = disk.files[n]] \in Item /\ i \in Item
  BY DraftShape, DiskShape DEF Item
<1>2. PutItem(n) \subseteq Item
  BY <1>1 DEF PutItem
<1>. QED  BY <1>2, SetItemsEffect DEF ItemsBecome

LEMMA UpdateCases ==
    ASSUME TypeOK, held # None, NEW n \in Names, UpdateFile(n)
    PROVE  \/ /\ disk.files[n] = 0
              /\ pc' = "files" /\ todo' = {}
              /\ UNCHANGED <<remote, held, fresh, historyVars, faults>>
           \/ /\ disk.files[n] # 0 /\ SetProject(Loaded(n))
              /\ \/ /\ n \notin Tracked(Project)
                    /\ pc' = "post" /\ todo' = {n}
                    /\ UNCHANGED <<remote, historyVars, faults>>
                 \/ /\ n \in Tracked(Project) /\ Known(Project.files[n].remote)
                    /\ ItemsBecome(PutItem(n))
                    /\ pc' = "files" /\ todo' = {}
                    /\ excused' = excused \ {n}
                    /\ UNCHANGED <<doubtful, faults>>
                 \/ /\ n \in Tracked(Project)
                    /\ \/ remote' = remote
                       \/ Known(Project.files[n].remote) /\ ItemsBecome(PutItem(n))
                    /\ faults' \in 0..MaxFaults
                    /\ pc' = "delete" /\ todo' = {n}
                    /\ UNCHANGED historyVars
<1>. DEFINE id == Project.files[n].remote
            put == SetItems(PutItem(n))
<1>1. CASE disk.files[n] = 0
  BY <1>1 DEF UpdateFile
<1>2. CASE disk.files[n] # 0
  <2>1. /\ SetProject(Loaded(n))
        /\ \/ /\ n \notin Tracked(Project)
              /\ pc' = "post" /\ todo' = {n}
              /\ UNCHANGED <<remote, historyVars, faults>>
           \/ /\ n \in Tracked(Project) /\ Known(id)
              /\ put
              /\ pc' = "files" /\ todo' = {}
              /\ excused' = excused \ {n}
              /\ UNCHANGED <<doubtful, faults>>
           \/ /\ n \in Tracked(Project)
              /\ \/ ~Known(id) /\ UNCHANGED <<remote, faults>>
                 \/ Fault /\ UNCHANGED remote
                 \/ Fault /\ Known(id) /\ put
              /\ pc' = "delete" /\ todo' = {n}
              /\ UNCHANGED historyVars
    BY <1>2 DEF UpdateFile, PutItem, ContentOf
  <2>2. Known(id) /\ put => ItemsBecome(PutItem(n))
    BY PutItemEffect DEF Known
  <2>3. faults \in 0..MaxFaults /\ (Fault => faults' \in 0..MaxFaults)
    BY FaultType DEF TypeOK
  <2>. HIDE DEF id, put
  <2>. QED  BY <1>2, <2>1, <2>2, <2>3 DEF id
<1>. QED  BY <1>1, <1>2

LEMMA DeleteCases ==
    ASSUME TypeOK, held # None, NEW n \in Names, DeleteFile(n)
    PROVE  /\ pc' = "files" /\ todo' = {}
           /\ faults' \in 0..MaxFaults
           /\ \/ UNCHANGED <<remote, held, fresh, historyVars>>
              \/ /\ excused' = excused \cup {n}
                 /\ \/ /\ Alive /\ n \in Tracked(Project)
                       /\ ItemsBecome(Others(Project.files[n].remote))
                       /\ SetProject([Project EXCEPT !.files[n] =
                                        [version |-> 0, remote |-> None]])
                       /\ doubtful' = doubtful
                    \/ UNCHANGED <<remote, held, fresh, doubtful>>
                    \/ /\ \/ remote' = remote
                          \/ Alive /\ ItemsBecome(Others(Project.files[n].remote))
                       /\ doubtful' = doubtful \cup {n}
                       /\ UNCHANGED <<held, fresh>>
<1>. DEFINE id == Project.files[n].remote
<1>1. CASE disk.files[n] = 0 \/ n \notin Tracked(Project)
  BY <1>1 DEF DeleteFile, TypeOK
<1>2. CASE ~(disk.files[n] = 0 \/ n \notin Tracked(Project))
  <2>1. /\ pc' = "files" /\ todo' = {} /\ excused' = excused \cup {n}
        /\ \/ /\ Known(id) /\ Remove(id)
              /\ SetProject([Project EXCEPT !.files[n] = [version |-> 0, remote |-> None]])
              /\ UNCHANGED <<doubtful, faults>>
           \/ /\ ~Known(id)
              /\ UNCHANGED <<remote, held, fresh, doubtful, faults>>
           \/ /\ DeleteRaises(n, id)
              /\ UNCHANGED <<held, fresh>>
    BY <1>2 DEF DeleteFile
  <2>2. Known(id) /\ Remove(id) => Alive /\ ItemsBecome(Others(id))
    BY RemoveEffect DEF Known
  <2>3. DeleteRaises(n, id) =>
          /\ faults' \in 0..MaxFaults
          /\ remote' = remote \/ (Alive /\ ItemsBecome(Others(id)))
          /\ doubtful' = doubtful \cup {n}
    BY DeleteRaisesEffect
  <2>4. faults \in 0..MaxFaults
    BY DEF TypeOK
  <2>. HIDE DEF id
  <2>. QED  BY <1>2, <2>1, <2>2, <2>3, <2>4 DEF id
<1>. QED  BY <1>1, <1>2

LEMMA ProcessChangeType == TypeOK /\ ProcessChange => TypeOK'
<1>. SUFFICES ASSUME TypeOK, ProcessChange PROVE TypeOK'
  OBVIOUS
<1>1. pc = "files" /\ held # None /\ held \in Template /\ Project \in Template
  BY ProjectType DEF TypeOK, ProcessChange
<1>2. PICK c \in batch : /\ c.part \in Names /\ batch' = batch \ {c}
                         /\ IF c.kind = "deleted" THEN DeleteFile(c.part)
                                                  ELSE UpdateFile(c.part)
  BY DEF ProcessChange
<1>. DEFINE n == c.part
<1>3. n \in Names
  BY <1>2
<1>4. /\ held' \in Template /\ fresh' \in Template \cup {None}
      /\ remote' \in [TemplateIds -> Draft \cup {None}]
      /\ excused' \subseteq Parts /\ doubtful' \subseteq Names
      /\ faults' \in 0..MaxFaults
      /\ pc' \in {"files", "delete", "post"} /\ todo' \subseteq Names
  <2>. HIDE DEF n
  <2>1. CASE DeleteFile(n)
    <3>1. [Project EXCEPT !.files[n] = [version |-> 0, remote |-> None]] \in Template
      BY <1>1, <1>3, DiskShape, FileChanged DEF Entry
    <3>2. held' \in Template /\ fresh' \in Template \cup {None}
      BY <2>1, <3>1, <1>1, <1>3, DeleteCases, SetProjectEffect DEF TypeOK
    <3>3. remote' \in [TemplateIds -> Draft \cup {None}]
      BY <2>1, <1>1, <1>3, DeleteCases, BecomeType DEF TypeOK
    <3>. QED  BY <2>1, <3>2, <3>3, <1>1, <1>3, DeleteCases DEF TypeOK, historyVars, Parts
  <2>2. CASE UpdateFile(n)
    <3>1. Loaded(n) \in Template
      BY <1>1, <1>3, LoadedShape
    <3>2. held' \in Template /\ fresh' \in Template \cup {None}
      BY <2>2, <3>1, <1>1, <1>3, UpdateCases, SetProjectEffect DEF TypeOK
    <3>3. remote' \in [TemplateIds -> Draft \cup {None}]
      BY <2>2, <1>1, <1>3, UpdateCases, BecomeType DEF TypeOK
    <3>. QED  BY <2>2, <3>2, <3>3, <1>1, <1>3, UpdateCases DEF TypeOK, historyVars, Parts
  <2>. QED  BY <1>2, <2>1, <2>2 DEF n
<1>5. /\ UNCHANGED <<disk, pending, linked, force, after, edits>> /\ held' # None
      /\ batch' \subseteq Change /\ (batch' # {} => batch # {})
  BY <1>2, <1>4, NoneAssumption DEF ProcessChange, TypeOK
<1>. QED  BY <1>4, <1>5 DEF TypeOK, PC

LEMMA BatchType == TypeOK /\ (TakeBatch \/ DeleteOld \/ PostFile \/ EndBatch) => TypeOK'
<1>. SUFFICES ASSUME TypeOK, TakeBatch \/ DeleteOld \/ PostFile \/ EndBatch PROVE TypeOK'
  OBVIOUS
<1>1. pc # "stopped" /\ held # None /\ held \in Template /\ Project \in Template
  BY ProjectType DEF TypeOK, TakeBatch, DeleteOld, PostFile, EndBatch
<1>2. CASE TakeBatch
  <2>1. pc = "idle" /\ after # "watch"
    BY <1>2 DEF TakeBatch, TypeOK
  <2>. QED  BY <1>2, <2>1, <1>1 DEF TakeBatch, TypeOK, PC, historyVars
<1>3. CASE DeleteOld
  <2>1. PICK n \in todo :
          LET id == Project.files[n].remote
          IN \/ /\ IF Known(id) THEN Remove(id) ELSE UNCHANGED remote
                /\ UNCHANGED <<doubtful, faults>>
             \/ DeleteRaises(n, id)
    BY <1>3 DEF DeleteOld
  <2>2. n \in Names
    BY DEF TypeOK
  <2>. DEFINE id == Project.files[n].remote
  <2>3. remote' = remote \/ (Alive /\ ItemsBecome(Others(id)))
    BY <2>1, <2>2, RemoveEffect, DeleteRaisesEffect DEF Known
  <2>4. /\ faults' \in 0..MaxFaults /\ doubtful' \subseteq Names
        /\ remote' \in [TemplateIds -> Draft \cup {None}]
    BY <2>1, <2>2, <2>3, DeleteRaisesEffect, BecomeType DEF TypeOK
  <2>. QED  BY <1>3, <2>4, <1>1 DEF DeleteOld, TypeOK, PC
<1>4. CASE PostFile
  <2>1. PICK n \in todo : Post(n, Project.files[n].version)
    BY <1>4 DEF PostFile
  <2>2. n \in Names /\ Project.files[n].version \in Version
    BY <1>1, TemplateShape DEF TypeOK
  <2>3. /\ remote' \in [TemplateIds -> Draft \cup {None}]
        /\ held' \in Template /\ fresh' \in Template \cup {None}
        /\ excused' \subseteq Parts /\ doubtful' \subseteq Names
        /\ faults' \in 0..MaxFaults
    BY <2>1, <2>2, <1>1, PostType
  <2>4. held' # None
    BY <2>3, NoneAssumption
  <2>. QED  BY <1>4, <2>3, <2>4 DEF PostFile, TypeOK, PC
<1>5. CASE EndBatch
  BY <1>5, <1>1 DEF EndBatch, TypeOK, PC, historyVars
<1>. QED  BY <1>2, <1>3, <1>4, <1>5

LEMMA FailureType == TypeOK /\ (Crash \/ DropDraft) => TypeOK'
<1>. SUFFICES ASSUME TypeOK, Crash \/ DropDraft PROVE TypeOK'
  OBVIOUS
<1>1. faults' \in 0..MaxFaults
  BY FaultType DEF Crash, DropDraft
<1>2. CASE Crash
  BY <1>1, <1>2 DEF Crash, TypeOK, PC, historyVars
<1>3. CASE DropDraft
  <2>1. remote' \in [TemplateIds -> Draft \cup {None}]
    BY <1>3 DEF DropDraft, TypeOK
  <2>. QED  BY <1>1, <1>3, <2>1 DEF DropDraft, TypeOK, toolVars, historyVars
<1>. QED  BY <1>2, <1>3

LEMMA TypeStep == TypeOK /\ [Next]_vars => TypeOK'
<1>. SUFFICES ASSUME TypeOK, [Next]_vars PROVE TypeOK'
  OBVIOUS
<1>1. CASE UNCHANGED vars
  BY <1>1 DEF vars, toolVars, historyVars, TypeOK
<1>2. CASE Next
  BY <1>2, WriteType, PutType, StoreType, TransferType, ReloadType, UpdateDescriptorType,
     ProcessChangeType, BatchType, FailureType
     DEF Next, User, StoreRemote, ProcessChanges
<1>. QED  BY <1>1, <1>2

(* All variables have their types in every behaviour; while the draft is   *)
(* stored, TDKCore and the project share one template, which a failure in  *)
(* between cannot change.                                                  *)
THEOREM TypeCorrect == Spec => []TypeOK
BY TypeInit, TypeStep, PTL DEF Spec

-----------------------------------------------------------------------------
(* The README of the draft *)

LEMMA HasReadmeKept ==
    ASSUME HasReadme, NEW S, remote' = remote \/ (Alive /\ ItemsBecome(S)),
           linked' = linked, disk' = disk
    PROVE  HasReadme'
BY DEF HasReadme, Alive, ItemsBecome

LEMMA NamesAreNoReadme == Readme \notin Names /\ Readme # Descriptor
BY SyncAssumption

(* Steps that only handle files, or the end of them. *)
LEMMA ReadmeFiles ==
    ASSUME TypeOK, ReadmeInv,
           pc \in {"cleanup", "upload", "files", "delete", "post"},
           pc' \in {"cleanup", "upload", "idle", "files", "delete", "post"},
           pending' = pending, disk' = disk, linked' = linked,
           Readme \in excused => Readme \in excused',
           NEW S, remote' = remote \/ (Alive /\ ItemsBecome(S))
    PROVE  ReadmeInv'
<1>1. SUFFICES ASSUME Readme \notin excused', disk'.readme > 0
               PROVE  Coming' \/ HasReadme'
  BY DEF ReadmeInv
<1>2. Coming \/ HasReadme
  BY <1>1 DEF ReadmeInv
<1>. QED  BY <1>2, HasReadmeKept DEF Coming

LEMMA ReadmeInit == Init => ReadmeInv
BY DEF Init, ReadmeInv

LEMMA ReadmeUser == TypeOK /\ ReadmeInv /\ User => ReadmeInv'
<1>. SUFFICES ASSUME TypeOK, ReadmeInv, User, Readme \notin excused', disk'.readme > 0
              PROVE  ReadmeInv'
  BY DEF ReadmeInv
<1>1. CASE Put
  BY <1>1, LoadedFromDisk, DiskShape DEF Put, ReadmeInv, OnDisk
<1>2. CASE \E part \in Names \cup {Descriptor}, kind \in {"updated", "deleted"} :
             Report(kind, part) /\ disk'.readme = disk.readme
  <2>1. PICK part \in Names \cup {Descriptor}, kind \in {"updated", "deleted"} :
          Report(kind, part) /\ disk'.readme = disk.readme
    BY <1>2
  <2>2. /\ Readme \notin excused /\ (Coming => Coming')
        /\ UNCHANGED <<remote, toolVars>>
    BY <2>1, NamesAreNoReadme DEF Report, Coming
  <2>3. /\ Project' = Project /\ Of(Descriptor)' = Of(Descriptor)
        /\ MetadataChanged' = MetadataChanged /\ (HasReadme => HasReadme')
    BY <2>1, <2>2 DEF Project, Of, MetadataChanged, HasReadme, Alive, toolVars
  <2>. QED  BY <2>1, <2>2, <2>3 DEF ReadmeInv, toolVars
<1>3. CASE \E kind \in {"updated", "deleted"} :
             Report(kind, Readme) /\ (kind = "deleted" => disk'.readme = 0)
  <2>1. Report("updated", Readme)
    BY <1>3
  <2>2. pending' = pending \cup {Upd(Readme)}
    BY <2>1 DEF Report, Upd
  <2>3. Coming'
    BY <2>2 DEF Coming, Upd
  <2>. QED  BY <2>3 DEF ReadmeInv
<1>4. CASE Write \/ Erase
  <2>1. disk \in [files: [Names -> Version], id: TemplateIds, meta: Version,
                  readme: Version]
    BY DEF TypeOK
  <2>. QED  BY <1>2, <1>3, <1>4, <2>1 DEF Write, Erase
<1>. QED  BY <1>1, <1>4 DEF User

LEMMA ReadmeStore == TypeOK /\ ReadmeInv /\ StoreRemote => ReadmeInv'
<1>. SUFFICES ASSUME TypeOK, ReadmeInv, StoreRemote PROVE ReadmeInv'
  OBVIOUS
<1>1. held \in Template /\ held # None /\ fresh = None
  BY ProjectType
     DEF TypeOK, StoreRemote, StoreDraft, StoreFails, Cleanup, EndCleanup, Upload, EndUpload
<1>2. CASE StoreDraft
  <2>1. SUFFICES ASSUME Readme \notin excused', disk'.readme > 0
                 PROVE  Coming' \/ HasReadme'
    BY <1>2 DEF ReadmeInv, StoreDraft
  <2>2. held.id \in TemplateIds
    BY <1>1, TemplateShape
  <2>3. remote'[held.id] # None => remote'[held.id].readme = held.readme
    <3>1. CASE remote' = [remote EXCEPT ![held.id] =
                            [meta |-> held.meta, readme |-> held.readme, items |-> {}]]
      BY <3>1, <2>2 DEF TypeOK
    <3>2. CASE remote[held.id] # None /\ SetMetadata(held.id, held)
      BY <3>2, <1>1, <2>2, SetMetadataEffect
    <3>. QED  BY <1>2, <3>1, <3>2 DEF StoreDraft
  <2>4. Readme \notin excused \/ held.readme = disk.readme
    BY <1>2, <2>1, NamesAreNoReadme DEF StoreDraft, Uploaded
  <2>5. Coming \/ held.readme = disk.readme
    BY <1>2, <2>1, <2>4 DEF StoreDraft, ReadmeInv
  <2>. QED  BY <1>2, <2>3, <2>5 DEF StoreDraft, Coming, HasReadme, Alive
<1>3. CASE StoreFails
  BY <1>3 DEF StoreFails, ReadmeInv, Parts
<1>4. CASE Cleanup
  <2>1. \/ remote' = remote
        \/ Alive /\ \E gone : SetItems(Items \ gone)
    BY <1>4 DEF Cleanup
  <2>2. \E S : remote' = remote \/ (Alive /\ ItemsBecome(S))
    BY <2>1, DraftShape, SetItemsEffect DEF ItemsBecome
  <2>. QED  BY <1>4, <2>2, ReadmeFiles DEF Cleanup
<1>5. CASE Upload
  <2>1. PICK n \in todo : Post(n, held.files[n].version)
    BY <1>5 DEF Upload
  <2>2. n \in Names /\ held.files[n].version \in Version
    BY <1>1, TemplateShape DEF TypeOK
  <2>3. \E S : remote' = remote \/ (Alive /\ ItemsBecome(S))
    BY <2>1, <2>2, <1>1, PostEffect DEF Posted
  <2>4. Readme \in excused => Readme \in excused'
    BY <2>1, <2>2, <1>1, PostEffect, NamesAreNoReadme
  <2>. QED  BY <1>5, <2>3, <2>4, ReadmeFiles DEF Upload
<1>6. CASE EndCleanup \/ EndUpload
  BY <1>6, ReadmeFiles DEF EndCleanup, EndUpload, historyVars
<1>. QED  BY <1>2, <1>3, <1>4, <1>5, <1>6 DEF StoreRemote

(* What the steps of update_file and delete_file have in common. *)
LEMMA FileRequests ==
    ASSUME TypeOK, ProcessChange \/ DeleteOld \/ PostFile
    PROVE  /\ \E S : remote' = remote \/ (Alive /\ ItemsBecome(S))
           /\ Readme \in excused => Readme \in excused'
           /\ fresh' = None <=> fresh = None
           /\ doubtful \subseteq doubtful'
<1>1. held # None /\ Project \in Template
  BY ProjectType DEF TypeOK, ProcessChange, DeleteOld, PostFile
<1>2. CASE ProcessChange
  <2>1. PICK n \in Names : DeleteFile(n) \/ UpdateFile(n)
    BY <1>2 DEF ProcessChange
  <2>2. /\ Loaded(n) \in Template
        /\ [Project EXCEPT !.files[n] = [version |-> 0, remote |-> None]] \in Template
    BY <1>1, DiskShape, FileChanged, LoadedShape DEF Entry
  <2>3. fresh' = None <=> fresh = None
    BY <2>1, <2>2, <1>1, DeleteCases, UpdateCases, SetProjectEffect
  <2>. QED  BY <2>1, <2>3, <1>1, DeleteCases, UpdateCases, NamesAreNoReadme
            DEF historyVars, Known
<1>3. CASE DeleteOld
  <2>1. PICK n \in todo :
          LET id == Project.files[n].remote
          IN \/ /\ IF Known(id) THEN Remove(id) ELSE UNCHANGED remote
                /\ UNCHANGED <<doubtful, faults>>
             \/ DeleteRaises(n, id)
    BY <1>3 DEF DeleteOld
  <2>2. n \in Names
    BY DEF TypeOK
  <2>. DEFINE id == Project.files[n].remote
  <2>3. remote' = remote \/ (Alive /\ ItemsBecome(Others(id)))
    BY <2>1, <2>2, RemoveEffect, DeleteRaisesEffect DEF Known
  <2>4. doubtful \subseteq doubtful'
    BY <2>1, <2>2, DeleteRaisesEffect
  <2>. QED  BY <1>3, <2>3, <2>4 DEF DeleteOld
<1>4. CASE PostFile
  <2>1. PICK n \in todo : Post(n, Project.files[n].version)
    BY <1>4 DEF PostFile
  <2>2. n \in Names /\ Project.files[n].version \in Version
    BY <1>1, TemplateShape DEF TypeOK
  <2>3. \E S : remote' = remote \/ (Alive /\ ItemsBecome(S))
    BY <2>1, <2>2, <1>1, PostEffect DEF Posted
  <2>4. /\ Readme \in excused => Readme \in excused'
        /\ doubtful \subseteq doubtful'
    BY <2>1, <2>2, <1>1, PostEffect, NamesAreNoReadme
  <2>. QED  BY <2>1, <2>2, <2>3, <2>4, <1>1, PostType
<1>. QED  BY <1>2, <1>3, <1>4

LEMMA ReadmeReload == TypeOK /\ ReadmeInv /\ (ReloadDescriptor \/ ReloadReadme) => ReadmeInv'
<1>. SUFFICES ASSUME TypeOK, ReadmeInv, ReloadDescriptor \/ ReloadReadme,
                     Readme \notin excused', disk'.readme > 0
              PROVE  ReadmeInv'
  BY DEF ReadmeInv
<1>1. /\ disk' = disk /\ linked' = linked /\ remote' = remote /\ pending' = pending
      /\ after' = after /\ pc \in {"descriptor", "readme"} /\ after # "watch"
  BY DEF ReloadDescriptor, ReloadReadme, TypeOK
<1>2. (HasReadme => HasReadme') /\ (Coming => Coming')
  BY <1>1 DEF HasReadme, Alive, Coming
<1>3. held # None /\ Project \in Template
  BY <1>1, ProjectType DEF TypeOK
<1>4. Of(Readme) = {} => Upd(Readme) \notin batch
  BY DEF Of, Upd
<1>. DEFINE Dropped == Drop /\ excused' = excused \cup {d.part : d \in batch}
<1>5. CASE Dropped
  <2>1. Readme \notin excused /\ Upd(Readme) \notin batch
    BY <1>5 DEF Upd
  <2>. QED  BY <1>1, <1>2, <1>5, <2>1 DEF ReadmeInv, Drop
<1>6. CASE ReloadDescriptor /\ ~Dropped
  <2>1. Coming \/ Upd(Readme) \in batch \/ HasReadme
    BY <1>1, <1>6 DEF ReadmeInv, ReloadDescriptor, historyVars
  <2>2. CASE Of(Descriptor) = {} /\ pc' = "readme" /\ UNCHANGED <<batch, historyVars>>
    <3>1. Of(Descriptor)' = {}
      BY <2>2 DEF Of
    <3>. QED  BY <1>1, <1>2, <2>1, <2>2, <3>1 DEF ReadmeInv
  <2>3. CASE held' = OnDisk(FilesOnDisk) /\ pc' = "store"
    BY <1>1, <2>3 DEF ReadmeInv, OnDisk
  <2>4. CASE fresh' = OnDisk(NoFiles) /\ pc' = "readme" /\ UNCHANGED batch
    <3>1. OnDisk(NoFiles) \in Template
      BY LoadedFromDisk, DiskShape
    <3>2. Project' = OnDisk(NoFiles)
      BY <2>4, <3>1, NoneAssumption DEF Project
    <3>. QED  BY <1>1, <1>2, <2>1, <2>4, <3>2 DEF ReadmeInv, OnDisk
  <2>. QED  BY <1>5, <1>6, <2>2, <2>3, <2>4 DEF ReloadDescriptor
<1>7. CASE ReloadReadme /\ ~Dropped
  <2>1. pc = "readme" /\ pc' = "update" /\ UNCHANGED <<batch, historyVars>>
    BY <1>7 DEF ReloadReadme
  <2>2. Readme \notin excused
    BY <2>1 DEF historyVars
  <2>3. MetadataChanged' <=> MetadataChanged
    BY <2>1 DEF MetadataChanged, Of
  <2>4. CASE Of(Readme) = {} /\ held' = held /\ fresh' = fresh
    <3>1. Project' = Project
      BY <2>4 DEF Project
    <3>2. MetadataChanged <=> Of(Descriptor) # {}
      BY <2>4 DEF MetadataChanged
    <3>. QED  BY <1>1, <1>2, <1>4, <2>1, <2>2, <2>3, <2>4, <3>1, <3>2 DEF ReadmeInv
  <2>5. CASE /\ "updated" \in Kinds(Readme)
             /\ SetProject([Project EXCEPT !.readme = disk.readme])
    <3>1. [Project EXCEPT !.readme = disk.readme] \in Template
      BY <1>3, DiskShape DEF Template
    <3>2. Project' = [Project EXCEPT !.readme = disk.readme]
      BY <1>3, <2>5, <3>1, SetProjectEffect
    <3>3. Project'.readme = disk'.readme
      BY <1>1, <1>3, <3>2 DEF Template
    <3>4. MetadataChanged
      BY <2>5, ChangesOf DEF MetadataChanged
    <3>. QED  BY <2>1, <2>3, <3>3, <3>4 DEF ReadmeInv
  <2>. QED  BY <1>7, <2>4, <2>5 DEF ReloadReadme
<1>. QED  BY <1>5, <1>6, <1>7 DEF ReloadDescriptor, ReloadReadme

LEMMA ReadmeUpdate == TypeOK /\ ReadmeInv /\ UpdateDescriptor => ReadmeInv'
<1>. SUFFICES ASSUME TypeOK, ReadmeInv, UpdateDescriptor,
                     Readme \notin excused', disk'.readme > 0
              PROVE  ReadmeInv'
  BY DEF ReadmeInv
<1>1. /\ disk' = disk /\ linked' = linked /\ pending' = pending /\ pc = "update"
      /\ held # None /\ Project \in Template
  BY ProjectType DEF UpdateDescriptor, TypeOK
<1>2. Coming => Coming'
  BY <1>1 DEF Coming
<1>3. CASE ~MetadataChanged /\ pc' = "files" /\ UNCHANGED <<remote, historyVars>>
  <2>1. HasReadme => HasReadme'
    BY <1>1, <1>3 DEF HasReadme, Alive
  <2>. QED  BY <1>1, <1>2, <1>3, <2>1 DEF ReadmeInv, historyVars
<1>4. CASE /\ MetadataChanged /\ Alive
           /\ SetMetadata(linked, Project)
           /\ pc' = "files"
           /\ excused' = excused \ Uploaded(Project)
  <2>1. remote'[linked].readme = Project.readme
    BY <1>1, <1>4, SetMetadataEffect DEF Alive, TypeOK
  <2>2. Readme \notin excused \/ Project.readme = disk.readme
    BY <1>4, NamesAreNoReadme DEF Uploaded
  <2>3. Coming \/ HasReadme'
    BY <1>1, <1>4, <2>1, <2>2 DEF ReadmeInv, HasReadme
  <2>. QED  BY <1>2, <1>4, <2>3 DEF ReadmeInv
<1>5. CASE MetadataChanged /\ held' = Project /\ pc' = "store" /\ UNCHANGED historyVars
  BY <1>1, <1>2, <1>5 DEF ReadmeInv, historyVars
<1>6. CASE excused' = excused \cup {Descriptor, Readme}
  BY <1>6
<1>. QED  BY <1>3, <1>4, <1>5, <1>6 DEF UpdateDescriptor

LEMMA ReadmeStep == TypeOK /\ ReadmeInv /\ [Next]_vars => ReadmeInv'
<1>. SUFFICES ASSUME TypeOK, ReadmeInv, [Next]_vars PROVE ReadmeInv'
  OBVIOUS
<1>1. CASE User \/ StoreRemote
  BY <1>1, ReadmeUser, ReadmeStore
<1>2. CASE TakeBatch
  <2>1. HasReadme => HasReadme'
    BY <1>2 DEF TakeBatch, HasReadme, Alive
  <2>. QED  BY <1>2, <2>1 DEF TakeBatch, ReadmeInv, Coming, historyVars
<1>3. CASE ReloadDescriptor \/ ReloadReadme
  BY <1>3, ReadmeReload
<1>4. CASE UpdateDescriptor
  BY <1>4, ReadmeUpdate
<1>5. CASE ProcessChange
  <2>1. pc = "files" /\ pc' \in {"files", "delete", "post"}
    BY <1>5 DEF ProcessChange, DeleteFile, UpdateFile
  <2>. QED  BY <1>5, <2>1, FileRequests, ReadmeFiles DEF ProcessChange
<1>6. CASE DeleteOld \/ PostFile
  BY <1>6, FileRequests, ReadmeFiles DEF DeleteOld, PostFile
<1>7. CASE EndBatch
  BY <1>7, ReadmeFiles DEF EndBatch, historyVars
<1>8. CASE Crash
  BY <1>8 DEF Crash, ReadmeInv
<1>9. CASE DropDraft
  <2>1. /\ UNCHANGED <<disk, pending, toolVars, historyVars>>
        /\ linked # None /\ remote'[linked] # None => remote'[linked] = remote[linked]
    BY <1>9 DEF DropDraft, TypeOK
  <2>2. /\ HasReadme => HasReadme'
        /\ Project' = Project /\ Of(Descriptor)' = Of(Descriptor)
        /\ MetadataChanged' = MetadataChanged /\ Coming' = Coming
    BY <2>1 DEF HasReadme, Alive, Project, Of, MetadataChanged, Coming, toolVars
  <2>. QED  BY <2>1, <2>2 DEF ReadmeInv, toolVars, historyVars
<1>10. CASE UNCHANGED vars
  <2>1. /\ HasReadme' = HasReadme
        /\ Project' = Project /\ Of(Descriptor)' = Of(Descriptor)
        /\ MetadataChanged' = MetadataChanged /\ Coming' = Coming
    BY <1>10 DEF HasReadme, Alive, Project, Of, MetadataChanged, Coming, vars, toolVars
  <2>. QED  BY <1>10, <2>1 DEF ReadmeInv, vars, toolVars, historyVars
<1>. QED  BY <1>1, <1>2, <1>3, <1>4, <1>5, <1>6, <1>7, <1>8, <1>9, <1>10
          DEF Next, ProcessChanges

(* The README of the draft is the local one whenever all changes are       *)
(* processed, although two templates in memory remember it: a change of    *)
(* the descriptor and of the README in one batch, a README that goes       *)
(* missing, a draft stored again and any number of failed requests         *)
(* included.                                                               *)
THEOREM ReadmeCorrect == Spec => []ReadmeIsCurrent
<1>1. TypeOK /\ ReadmeInv => ReadmeIsCurrent
  BY DEF ReadmeInv, ReadmeIsCurrent, AtRest, Coming, HasReadme
<1>2. Spec => []ReadmeInv
  BY TypeCorrect, ReadmeInit, ReadmeStep, PTL DEF Spec
<1>. QED  BY <1>1, <1>2, TypeCorrect, PTL

-----------------------------------------------------------------------------
(* Files and their uuids *)

LEMMA DivergedInit == Init => Diverged /\ TodoIsTracked /\ OneAtATime /\ LinkInv
BY DEF Init, Diverged, TodoIsTracked, OneAtATime, LinkInv, Alive

(* A batch is with the template that the project has just loaded, until    *)
(* update_descriptor puts the old one back.                                *)
LEMMA DivergedStep == TypeOK /\ Diverged /\ [Next]_vars => Diverged'
<1>. SUFFICES ASSUME TypeOK, Diverged, [Next]_vars, fresh' # None PROVE Diverged'
  BY DEF Diverged
<1>1. CASE Write \/ Erase \/ DropDraft \/ UNCHANGED vars
  <2>1. UNCHANGED <<fresh, doubtful, pc, batch>>
    BY <1>1 DEF Write, Erase, Report, DropDraft, vars, toolVars, historyVars
  <2>. QED  BY <2>1 DEF Diverged, Of
<1>2. CASE Put \/ Crash
  BY <1>2 DEF Put, Crash
<1>3. CASE StoreRemote
  <2>1. fresh = None
    BY <1>3 DEF TypeOK, StoreRemote, StoreDraft, StoreFails, Cleanup, EndCleanup, Upload,
              EndUpload
  <2>2. fresh' = None
    BY <1>3, <2>1 DEF StoreRemote, StoreDraft, StoreFails, Cleanup, EndCleanup, Upload,
                    EndUpload, Post, SetProject
  <2>. QED  BY <2>2
<1>4. CASE ReloadDescriptor
  <2>1. CASE Drop
    BY <2>1 DEF Drop, Diverged
  <2>2. CASE Of(Descriptor) = {} /\ pc' = "readme" /\ UNCHANGED <<batch, held, fresh, todo, historyVars>>
    BY <1>4, <2>2 DEF Diverged, Of, historyVars, ReloadDescriptor
  <2>3. CASE "updated" \in Kinds(Descriptor) /\ pc' = "readme" /\ UNCHANGED batch
    <3>1. Of(Descriptor)' # {}
      BY <2>3 DEF Of, Kinds
    <3>. QED  BY <2>3, <3>1 DEF Diverged
  <2>. QED  BY <1>4, <2>1, <2>2, <2>3 DEF ReloadDescriptor
<1>5. CASE ReloadReadme
  <2>1. CASE Drop
    BY <2>1 DEF Drop, Diverged
  <2>2. CASE pc' = "update" /\ UNCHANGED <<batch, historyVars>> /\ fresh # None
    <3>1. Of(Descriptor)' = Of(Descriptor)
      BY <2>2 DEF Of
    <3>. QED  BY <1>5, <2>2, <3>1 DEF Diverged, historyVars, ReloadReadme
  <2>3. fresh # None \/ Drop
    BY <1>5 DEF ReloadReadme, SetProject
  <2>. QED  BY <1>5, <2>1, <2>2, <2>3 DEF ReloadReadme
<1>6. CASE UpdateDescriptor
  <2>1. ~MetadataChanged /\ UNCHANGED <<fresh, historyVars>>
    BY <1>6 DEF UpdateDescriptor, PutBack
  <2>2. Of(Descriptor) = {}
    BY <2>1 DEF MetadataChanged
  <2>. QED  BY <1>6, <2>1, <2>2 DEF Diverged, historyVars
<1>7. CASE TakeBatch \/ EndBatch
  BY <1>7 DEF TakeBatch, EndBatch, Diverged, historyVars
<1>8. CASE ProcessChange \/ DeleteOld \/ PostFile
  <2>1. pc \in {"files", "delete", "post"}
    BY <1>8 DEF ProcessChange, DeleteOld, PostFile
  <2>2. doubtful = Names
    BY <1>8, <2>1, FileRequests DEF Diverged
  <2>3. doubtful' = Names
    BY <1>8, <2>2, FileRequests, TypeStep DEF TypeOK
  <2>. QED  BY <2>3 DEF Diverged
<1>. QED  BY <1>1, <1>2, <1>3, <1>4, <1>5, <1>6, <1>7, <1>8
          DEF Next, User, ProcessChanges

LEMMA RememberedShape ==
    ASSUME TypeOK, held # None, FreeIds # {}, NEW n \in Names, NEW version \in Version
    PROVE  LET t == Remembered(n, version) IN
           /\ t \in Template
           /\ t.files[n].version = version /\ t.files[n].remote = NewId
           /\ \A m \in Names \ {n} : t.files[m] = Project.files[m]
           /\ t.readme = Project.readme
<1>1. [version |-> version, remote |-> NewId] \in Entry
  BY NewIdIsFree DEF Entry
<1>. QED  BY <1>1, ProjectType, FileChanged DEF Remembered

(* A file that is posted, as the project and the server have it afterwards. *)
LEMMA PostCases ==
    ASSUME TypeOK, held # None, NEW n \in Names, NEW version \in Version, Post(n, version)
    PROVE  /\ \A m \in Names \ {n} : Project'.files[m] = Project.files[m]
           /\ \/ /\ Posted(n, version)
                 /\ Project'.files[n].version = version /\ Project'.files[n].remote = NewId
                 /\ excused' = IF version = disk.files[n] THEN excused \ {n} ELSE excused
                 /\ doubtful' = doubtful
              \/ /\ remote' = remote \/ Posted(n, version)
                 /\ excused' = excused \cup {n} /\ doubtful' = doubtful \cup {n}
                 /\ held' = held /\ fresh' = fresh
<1>1. CASE /\ Posted(n, version)
           /\ Remembered(n, version) \in Template /\ SetProject(Remembered(n, version))
           /\ excused' = IF version = disk.files[n] THEN excused \ {n} ELSE excused
           /\ doubtful' = doubtful
  <2>1. Project' = Remembered(n, version)
    BY <1>1, SetProjectEffect
  <2>. QED  BY <1>1, <2>1, RememberedShape DEF Posted
<1>2. CASE /\ remote' = remote \/ Posted(n, version)
           /\ excused' = excused \cup {n} /\ doubtful' = doubtful \cup {n}
           /\ held' = held /\ fresh' = fresh
  <2>1. Project' = Project
    BY <1>2 DEF Project
  <2>. QED  BY <1>2, <2>1
<1>. QED  BY <1>1, <1>2, PostEffect

LEMMA TodoStep == TypeOK /\ TodoIsTracked /\ [Next]_vars => TodoIsTracked'
<1>. SUFFICES ASSUME TypeOK, TodoIsTracked, [Next]_vars, pc' \in {"upload", "delete", "post"}
              PROVE  todo' \subseteq Tracked(Project')
  BY DEF TodoIsTracked, Tracked, Project
<1>1. CASE Write \/ Erase \/ DropDraft \/ UNCHANGED vars
  <2>1. UNCHANGED <<held, fresh, pc, todo>>
    BY <1>1 DEF Write, Erase, Report, DropDraft, vars, toolVars, historyVars
  <2>. QED  BY <2>1 DEF TodoIsTracked, Tracked, Project
<1>2. CASE StoreDraft \/ EndCleanup
  <2>1. todo' = Tracked(held) /\ Project' = held
    BY <1>2 DEF StoreDraft, EndCleanup, Project, TypeOK
  <2>. QED  BY <2>1 DEF Tracked
<1>3. CASE Upload
  <2>1. PICK n \in todo : todo' = todo \ {n} /\ Post(n, held.files[n].version)
    BY <1>3 DEF Upload
  <2>2. /\ fresh = None /\ held # None /\ held \in Template
        /\ n \in Names /\ held.files[n].version \in Version
    BY <1>3, ProjectType, TemplateShape DEF Upload, TypeOK
  <2>3. \A m \in Names \ {n} : Project'.files[m] = Project.files[m]
    BY <2>1, <2>2, PostCases
  <2>4. \A m \in todo : m \in Names /\ Project.files[m].version > 0
    BY <1>3 DEF Upload, TodoIsTracked, Tracked
  <2>. QED  BY <2>1, <2>3, <2>4 DEF Tracked
<1>4. CASE ProcessChange
  <2>1. PICK n \in Names : UpdateFile(n)
    BY <1>4 DEF ProcessChange, DeleteFile
  <2>2. held # None
    BY <1>4 DEF ProcessChange, TypeOK
  <2>3. disk.files[n] # 0 /\ SetProject(Loaded(n)) /\ todo' = {n}
    BY <2>1, <2>2, UpdateCases
  <2>4. Project'.files[n].version = disk.files[n] /\ disk.files[n] \in Nat \ {0}
    BY <2>2, <2>3, LoadedShape, SetProjectEffect, DiskShape, SyncAssumption DEF Version
  <2>. QED  BY <2>3, <2>4 DEF Tracked
<1>5. CASE DeleteOld
  BY <1>5 DEF DeleteOld, TodoIsTracked, Tracked, Project
<1>6. CASE Put \/ Crash \/ StoreFails \/ Cleanup \/ EndUpload \/ TakeBatch \/ ReloadDescriptor
           \/ ReloadReadme \/ UpdateDescriptor \/ PostFile \/ EndBatch
  <2>1. pc' \notin {"upload", "delete", "post"}
    BY <1>6 DEF Put, Crash, StoreFails, Cleanup, EndUpload, TakeBatch, ReloadDescriptor,
              ReloadReadme, UpdateDescriptor, PostFile, EndBatch, Drop
  <2>. QED  BY <2>1
<1>. QED  BY <1>1, <1>2, <1>3, <1>4, <1>5, <1>6 DEF Next, User, StoreRemote, ProcessChanges

LEMMA OneStep == TypeOK /\ OneAtATime /\ [Next]_vars => OneAtATime'
<1>. SUFFICES ASSUME TypeOK, OneAtATime, [Next]_vars, pc' \in {"delete", "post"}
              PROVE  \E n \in Names : todo' = {n}
  BY DEF OneAtATime
<1>1. CASE UNCHANGED <<pc, todo>>
  BY <1>1 DEF OneAtATime
<1>2. CASE ProcessChange
  <2>1. PICK n \in Names : UpdateFile(n)
    BY <1>2 DEF ProcessChange, DeleteFile
  <2>. QED  BY <2>1 DEF UpdateFile
<1>3. CASE DeleteOld
  BY <1>3 DEF DeleteOld, OneAtATime
<1>4. CASE Put \/ Crash \/ StoreRemote \/ TakeBatch \/ ReloadDescriptor
           \/ ReloadReadme \/ UpdateDescriptor \/ PostFile \/ EndBatch
  <2>1. pc' \notin {"delete", "post"}
    BY <1>4 DEF Put, Crash, StoreRemote, StoreDraft, StoreFails, Cleanup, EndCleanup, Upload,
              EndUpload, TakeBatch, ReloadDescriptor, ReloadReadme, UpdateDescriptor,
              PostFile, EndBatch, Drop
  <2>. QED  BY <2>1
<1>5. CASE Write \/ Erase \/ DropDraft \/ UNCHANGED vars
  BY <1>1, <1>5 DEF Write, Erase, Report, DropDraft, vars, toolVars
<1>. QED  BY <1>2, <1>3, <1>4, <1>5 DEF Next, User, ProcessChanges

LEMMA LinkKept ==
    ASSUME NEW n \in Names, LinkOf(n), Ids(n)' \subseteq Ids(n),
           n \in Tracked(held') <=> n \in Tracked(held),
           held'.files[n].remote = held.files[n].remote,
           n \in todo' /\ pc' \in {"upload", "post"} => Absent(n),
           n \notin todo' /\ pc' = "cleanup" => Absent(n),
           pc # "cleanup" \/ Absent(n)
    PROVE  LinkOf(n)'
<1>1. Absent(n) => Absent(n)'
  BY DEF Absent
<1>2. Linked(n) \/ Absent(n) => Linked(n)'
  BY DEF Linked, Absent
<1>. QED  BY <1>1, <1>2 DEF LinkOf, Tracked

(* The uuids of a file after the requests of the program. *)
LEMMA FewerIds ==
    ASSUME NEW n \in Names, NEW S, S \subseteq Items, linked' = linked,
           remote' = remote \/ ItemsBecome(S)
    PROVE  Ids(n)' \subseteq Ids(n)
BY DEF Ids, RemoteFiles, Items, ItemsBecome

LEMMA PutIds ==
    ASSUME TypeOK, Alive, NEW m \in Names, NEW n \in Names, linked' = linked,
           remote' = remote \/ ItemsBecome(PutItem(m))
    PROVE  Ids(n)' \subseteq Ids(n)
<1>1. CASE remote' = remote
  BY <1>1 DEF Ids, RemoteFiles, Items
<1>2. CASE ItemsBecome(PutItem(m))
  <2>1. \A i \in Items : LET j == [i EXCEPT !.version = disk.files[m]]
                         IN j.id = i.id /\ j.name = i.name
    BY DraftShape DEF Item
  <2>2. \A j \in PutItem(m) : \E i \in Items : j.id = i.id /\ j.name = i.name
    BY <2>1 DEF PutItem
  <2>3. Items' = PutItem(m)
    BY <1>2 DEF Items, ItemsBecome
  <2>. QED  BY <2>2, <2>3 DEF Ids, RemoteFiles
<1>. QED  BY <1>1, <1>2

LEMMA PostedIds ==
    ASSUME NEW m \in Names, NEW version, linked' = linked, NEW n \in Names,
           remote' = remote \/ Posted(m, version)
    PROVE  /\ n # m => Ids(n)' \subseteq Ids(n)
           /\ Ids(m)' \subseteq Ids(m) \cup {NewId}
BY DEF Ids, RemoteFiles, Items, ItemsBecome, Posted, NewItem

LEMMA OthersIds ==
    ASSUME NEW n \in Names, NEW id, linked' = linked, ItemsBecome(Others(id))
    PROVE  Ids(n)' = Ids(n) \ {id}
BY DEF Ids, RemoteFiles, Items, ItemsBecome, Others

LEMMA LinkStore ==
    TypeOK /\ TodoIsTracked /\ LinkInv /\ StoreRemote => LinkInv'
<1>. SUFFICES ASSUME TypeOK, TodoIsTracked, LinkInv, StoreRemote, Alive', pc' # "store",
                     NEW n \in Names \ doubtful'
              PROVE  LinkOf(n)'
  BY DEF LinkInv
<1>1. held \in Template /\ held # None /\ fresh = None /\ Project = held /\ todo \subseteq Names
  BY ProjectType
     DEF TypeOK, StoreRemote, StoreDraft, StoreFails, Cleanup, EndCleanup, Upload, EndUpload,
         Project
<1>2. CASE StoreDraft
  <2>1. held.id \in TemplateIds /\ linked' = held.id /\ held' = held
    BY <1>1, <1>2, TemplateShape DEF StoreDraft
  <2>2. CASE /\ remote' = [remote EXCEPT ![held.id] =
                             [meta |-> held.meta, readme |-> held.readme, items |-> {}]]
             /\ pc' = "upload"
    <3>1. Items' = {}
      BY <2>1, <2>2 DEF Items, TypeOK
    <3>2. Ids(n)' = {}
      BY <3>1 DEF Ids, RemoteFiles
    <3>. QED  BY <2>2, <3>2 DEF LinkOf, Absent, Linked
  <2>3. CASE /\ remote[held.id] # None
             /\ SetMetadata(held.id, held)
             /\ pc' = "cleanup"
             /\ doubtful' = doubtful \cup
                  ({i.name : i \in remote[held.id].items} \ (Tracked(held) \cup {Foreign}))
    <3>1. Items' = remote[held.id].items
      BY <1>1, <2>1, <2>3, SetMetadataEffect DEF Items
    <3>2. n \notin Tracked(held) => Ids(n)' = {}
      BY <3>1, <2>3, SyncAssumption DEF Ids, RemoteFiles
    <3>3. todo' = Tracked(held) /\ Tracked(held') = Tracked(held)
      BY <1>2, <2>1 DEF StoreDraft
    <3>. QED  BY <2>3, <3>2, <3>3 DEF LinkOf, Absent, Tracked
  <2>. QED  BY <1>2, <2>2, <2>3 DEF StoreDraft
<1>3. CASE StoreFails
  BY <1>3 DEF StoreFails, Drop
<1>5. CASE Cleanup
  <2>1. PICK m \in todo :
          /\ todo' = todo \ {m}
          /\ \/ /\ Alive /\ SetItems(Items \ RemoteFiles(m))
                /\ UNCHANGED <<doubtful, faults>>
             \/ /\ ~Alive
                /\ UNCHANGED <<remote, doubtful, faults>>
             \/ /\ Alive /\ Fault
                /\ \E gone \in SUBSET RemoteFiles(m) : SetItems(Items \ gone)
                /\ doubtful' = doubtful \cup {m}
    BY <1>5 DEF Cleanup
  <2>2. Alive
    BY <2>1, <1>5 DEF Alive, Cleanup
  <2>3. PICK gone : /\ SetItems(Items \ gone)
                    /\ gone = RemoteFiles(m) \/ n # m
                    /\ n \notin doubtful
    BY <2>1, <2>2
  <2>4. ItemsBecome(Items \ gone)
    BY <2>2, <2>3, DraftShape, SetItemsEffect DEF ItemsBecome
  <2>5. Ids(n)' \subseteq Ids(n)
    BY <1>5, <2>4, FewerIds DEF Cleanup
  <2>6. gone = RemoteFiles(m) => Ids(m)' = {}
    BY <1>5, <2>4 DEF Ids, RemoteFiles, Items, ItemsBecome, Cleanup
  <2>7. pc' = "cleanup" /\ pc = "cleanup" /\ held' = held /\ LinkOf(n)
    BY <1>5, <2>2, <2>3 DEF Cleanup, LinkInv
  <2>8. CASE n = m
    BY <2>3, <2>6, <2>7, <2>8 DEF LinkOf, Absent
  <2>9. CASE n # m
    BY <2>1, <2>5, <2>7, <2>9 DEF LinkOf, Absent, Tracked
  <2>. QED  BY <2>8, <2>9
<1>6. CASE EndCleanup
  <2>1. Alive /\ n \notin doubtful
    BY <1>6 DEF EndCleanup, historyVars, Alive
  <2>2. LinkOf(n) /\ Absent(n)
    BY <1>6, <2>1 DEF EndCleanup, LinkInv, LinkOf
  <2>3. Ids(n)' = Ids(n)
    BY <1>6 DEF EndCleanup, Ids, RemoteFiles, Items
  <2>. QED  BY <1>6, <2>2, <2>3, LinkKept DEF EndCleanup
<1>7. CASE Upload
  <2>1. PICK m \in todo : todo' = todo \ {m} /\ Post(m, held.files[m].version)
    BY <1>7 DEF Upload
  <2>. DEFINE v == held.files[m].version
  <2>2. m \in Names /\ v \in Version /\ v > 0
    BY <1>1, <1>7, <2>1, TemplateShape DEF Upload, TodoIsTracked, Tracked
  <2>3. Post(m, v)
    BY <2>1
  <2>. HIDE DEF v
  <2>4. /\ Alive /\ n \notin doubtful /\ linked' = linked
    BY <1>1, <1>7, <2>2, <2>3, PostEffect DEF Upload, Alive, Posted
  <2>5. LinkOf(n) /\ pc = "upload" /\ pc' = "upload"
    BY <1>7, <2>4 DEF Upload, LinkInv
  <2>6. fresh' = None /\ Project' = held'
    BY <1>1, <2>2, <2>3, PostType DEF Project
  <2>7. CASE n = m
    <3>1. /\ Posted(m, v)
          /\ held'.files[m].version = v /\ held'.files[m].remote = NewId
      BY <1>1, <2>2, <2>3, <2>6, <2>7, PostCases
    <3>2. Ids(n) = {}
      BY <2>1, <2>5, <2>7 DEF LinkOf, Absent
    <3>3. Ids(n)' \subseteq {NewId}
      BY <2>2, <2>4, <2>7, <3>1, <3>2, PostedIds
    <3>4. n \in Tracked(held') /\ n \notin todo'
      BY <2>1, <2>2, <2>7, <3>1 DEF Tracked
    <3>. QED  BY <2>5, <2>7, <3>1, <3>3, <3>4 DEF LinkOf, Linked, Tracked
  <2>8. CASE n # m
    <3>1. held'.files[n] = held.files[n]
      BY <1>1, <2>2, <2>3, <2>6, <2>8, PostCases
    <3>2. remote' = remote \/ Posted(m, v)
      BY <1>1, <2>2, <2>3, PostCases
    <3>3. Ids(n)' \subseteq Ids(n)
      BY <2>2, <2>4, <2>8, <3>2, PostedIds
    <3>. QED  BY <2>1, <2>5, <3>1, <3>3, LinkKept DEF LinkOf, Tracked
  <2>. QED  BY <2>7, <2>8
<1>8. CASE EndUpload
  <2>1. LinkOf(n)
    BY <1>8 DEF EndUpload, historyVars, Alive, LinkInv
  <2>2. Ids(n)' = Ids(n)
    BY <1>8 DEF EndUpload, Ids, RemoteFiles, Items
  <2>. QED  BY <1>8, <2>1, <2>2, LinkKept DEF EndUpload
<1>. QED  BY <1>2, <1>3, <1>5, <1>6, <1>7, <1>8 DEF StoreRemote

(* update_file, delete_file and what follows them, for a file that is not  *)
(* doubtful afterwards: then the two templates are one.                    *)
LEMMA OneTemplate ==
    ASSUME TypeOK, Diverged, ProcessChange \/ DeleteOld \/ PostFile, Alive',
           NEW n \in Names \ doubtful'
    PROVE  /\ fresh = None /\ fresh' = None /\ Project = held /\ Project' = held'
           /\ Alive /\ linked' = linked /\ n \notin doubtful
           /\ pc \in {"files", "delete", "post"} /\ held # None /\ held \in Template
<1>1. pc \in {"files", "delete", "post"} /\ linked' = linked
  BY DEF ProcessChange, DeleteOld, PostFile
<1>2. n \notin doubtful
  BY FileRequests
<1>3. fresh = None /\ fresh' = None
  BY <1>1, <1>2, FileRequests DEF Diverged
<1>4. held # None /\ held \in Template
  BY <1>1, ProjectType DEF TypeOK
<1>5. Alive
  BY <1>1, FileRequests DEF Alive
<1>. QED  BY <1>1, <1>2, <1>3, <1>4, <1>5 DEF Project

LEMMA LinkProcess ==
    TypeOK /\ Diverged /\ LinkInv /\ ProcessChange => LinkInv'
<1>. SUFFICES ASSUME TypeOK, Diverged, LinkInv, ProcessChange, Alive', pc' # "store",
                     NEW n \in Names \ doubtful'
              PROVE  LinkOf(n)'
  BY DEF LinkInv
<1>1. /\ fresh = None /\ fresh' = None /\ Project = held /\ Project' = held'
      /\ Alive /\ linked' = linked /\ n \notin doubtful
      /\ pc = "files" /\ held # None /\ held \in Template
  BY OneTemplate DEF ProcessChange
<1>2. LinkOf(n) /\ Linked(n)
  BY <1>1 DEF LinkInv, LinkOf
<1>3. PICK m \in Names : DeleteFile(m) \/ UpdateFile(m)
  BY DEF ProcessChange
<1>4. CASE DeleteFile(m)
  <2>1. pc' = "files" /\ todo' = {}
    BY <1>1, <1>3, <1>4, DeleteCases
  <2>2. CASE UNCHANGED <<remote, held, fresh>>
    <3>1. Ids(n)' = Ids(n)
      BY <1>1, <2>2 DEF Ids, RemoteFiles, Items
    <3>. QED  BY <1>1, <1>2, <2>1, <2>2, <3>1, LinkKept
  <2>3. CASE /\ ItemsBecome(Others(held.files[m].remote))
             /\ SetProject([held EXCEPT !.files[m] = [version |-> 0, remote |-> None]])
    <3>1. Ids(n)' = Ids(n) \ {held.files[m].remote}
      BY <1>1, <2>3, OthersIds
    <3>2. held' = [held EXCEPT !.files[m] = [version |-> 0, remote |-> None]]
      BY <1>1, <2>3 DEF SetProject
    <3>3. CASE n = m
      <4>1. Ids(n)' = {}
        BY <1>2, <3>1, <3>3 DEF Linked
      <4>. QED  BY <2>1, <4>1 DEF LinkOf, Absent, Linked
    <3>4. CASE n # m
      <4>1. held'.files[n] = held.files[n]
        BY <1>1, <3>2, <3>4 DEF Template
      <4>. QED  BY <1>1, <1>2, <2>1, <3>1, <4>1, LinkKept DEF Tracked
    <3>. QED  BY <3>3, <3>4
  <2>4. CASE ItemsBecome(Others(held.files[m].remote)) /\ held' = held
    <3>1. Ids(n)' \subseteq Ids(n)
      BY <1>1, <2>4, OthersIds
    <3>. QED  BY <1>1, <1>2, <2>1, <2>4, <3>1, LinkKept
  <2>. QED  BY <1>1, <1>3, <1>4, <2>2, <2>3, <2>4, DeleteCases
<1>5. CASE UpdateFile(m)
  <2>1. CASE UNCHANGED <<remote, held, fresh>> /\ pc' = "files"
    <3>1. Ids(n)' = Ids(n)
      BY <1>1, <2>1 DEF Ids, RemoteFiles, Items
    <3>. QED  BY <1>1, <1>2, <2>1, <3>1, LinkKept
  <2>2. CASE disk.files[m] # 0 /\ SetProject(Loaded(m))
    <3>1. held' = Loaded(m)
      BY <1>1, <2>2 DEF SetProject
    <3>2. /\ held'.files[m].version = disk.files[m]
          /\ held'.files[m].remote = held.files[m].remote
          /\ \A o \in Names \ {m} : held'.files[o] = held.files[o]
      BY <1>1, <3>1, LoadedShape
    <3>3. m \in Tracked(held')
      BY <2>2, <3>2, DiskShape, SyncAssumption DEF Tracked, Version
    <3>4. /\ remote' = remote \/ ItemsBecome(PutItem(m))
          /\ \/ pc' \in {"files", "delete"} /\ m \in Tracked(held)
             \/ pc' = "post" /\ todo' = {m} /\ m \notin Tracked(held)
      BY <1>1, <1>3, <1>5, <2>2, UpdateCases
    <3>5. Ids(n)' \subseteq Ids(n)
      BY <1>1, <3>4, PutIds
    <3>6. held'.files[n].remote = held.files[n].remote
      BY <3>2
    <3>7. CASE n = m /\ m \notin Tracked(held)
      <4>1. Ids(n) = {}
        BY <1>2, <3>7 DEF LinkOf, Absent
      <4>. QED  BY <3>5, <4>1 DEF LinkOf, Absent, Linked
    <3>8. CASE n # m \/ m \in Tracked(held)
      <4>1. n \in Tracked(held') <=> n \in Tracked(held)
        BY <3>2, <3>3, <3>8 DEF Tracked
      <4>. QED  BY <1>1, <1>2, <3>4, <3>5, <3>6, <3>8, <4>1, LinkKept
    <3>. QED  BY <3>7, <3>8
  <2>. QED  BY <1>1, <1>3, <1>5, <2>1, <2>2, UpdateCases
<1>. QED  BY <1>3, <1>4, <1>5

LEMMA LinkOldNew ==
    TypeOK /\ Diverged /\ TodoIsTracked /\ OneAtATime /\ LinkInv /\ (DeleteOld \/ PostFile)
      => LinkInv'
<1>. SUFFICES ASSUME TypeOK, Diverged, TodoIsTracked, OneAtATime, LinkInv,
                     DeleteOld \/ PostFile,
                     Alive', pc' # "store", NEW n \in Names \ doubtful'
              PROVE  LinkOf(n)'
  BY DEF LinkInv
<1>1. /\ fresh = None /\ fresh' = None /\ Project = held /\ Project' = held'
      /\ Alive /\ linked' = linked /\ n \notin doubtful
      /\ pc \in {"delete", "post"} /\ held # None /\ held \in Template
  BY OneTemplate DEF DeleteOld, PostFile
<1>2. LinkOf(n) /\ Linked(n)
  BY <1>1 DEF LinkInv, LinkOf
<1>3. CASE DeleteOld
  <2>1. PICK m \in todo :
          LET id == Project.files[m].remote
          IN \/ /\ IF Known(id) THEN Remove(id) ELSE UNCHANGED remote
                /\ UNCHANGED <<doubtful, faults>>
             \/ DeleteRaises(m, id)
    BY <1>3 DEF DeleteOld
  <2>. DEFINE id == held.files[m].remote
  <2>2. m \in Names
    BY DEF TypeOK
  <2>3. pc' = "post" /\ held' = held /\ todo' = todo
    BY <1>3 DEF DeleteOld
  <2>4. Ids(n)' \subseteq Ids(n) /\ (n = m => Ids(n)' = {})
    <3>1. CASE Known(id) /\ Remove(id)
      <4>1. Ids(n)' = Ids(n) \ {id}
        BY <1>1, <3>1, RemoveEffect, OthersIds
      <4>. QED  BY <1>2, <4>1 DEF Linked
    <3>2. CASE ~Known(id) /\ UNCHANGED remote
      <4>1. Ids(n)' = Ids(n) /\ id \notin Ids(n)
        BY <1>1, <3>2 DEF Known, Ids, RemoteFiles, Items
      <4>. QED  BY <1>2, <4>1 DEF Linked
    <3>3. CASE DeleteRaises(m, id)
      <4>1. /\ n # m
            /\ remote' = remote \/ ItemsBecome(Others(id))
        BY <2>2, <3>3, DeleteRaisesEffect
      <4>2. Ids(n)' \subseteq Ids(n)
        BY <1>1, <4>1, FewerIds DEF Others
      <4>. QED  BY <4>1, <4>2
    <3>. QED  BY <1>1, <2>1, <3>1, <3>2, <3>3
  <2>5. CASE n = m
    BY <2>3, <2>4, <2>5, <1>2 DEF LinkOf, Absent, Linked
  <2>6. CASE n # m
    <3>1. n \notin todo
      BY <1>3, <2>1, <2>6 DEF DeleteOld, OneAtATime
    <3>. QED  BY <1>1, <1>2, <2>3, <2>4, <3>1, LinkKept
  <2>. QED  BY <2>5, <2>6
<1>4. CASE PostFile
  <2>1. PICK m \in todo : Post(m, held.files[m].version)
    BY <1>1, <1>4 DEF PostFile
  <2>. DEFINE v == held.files[m].version
  <2>2. m \in Names /\ v \in Version /\ v > 0
    BY <1>1, <1>4, <2>1, TemplateShape DEF PostFile, TodoIsTracked, Tracked
  <2>3. Post(m, v)
    BY <2>1
  <2>. HIDE DEF v
  <2>4. pc = "post" /\ pc' = "files" /\ todo' = {}
    BY <1>4 DEF PostFile
  <2>7. CASE n = m
    <3>1. /\ Posted(m, v)
          /\ held'.files[m].version = v /\ held'.files[m].remote = NewId
      BY <1>1, <2>2, <2>3, <2>7, PostCases
    <3>2. Ids(n) = {}
      BY <1>2, <2>1, <2>4, <2>7 DEF LinkOf, Absent
    <3>3. Ids(n)' \subseteq {NewId}
      BY <1>1, <2>2, <2>7, <3>1, <3>2, PostedIds
    <3>4. n \in Tracked(held')
      BY <2>2, <2>7, <3>1 DEF Tracked
    <3>. QED  BY <2>4, <2>7, <3>1, <3>3, <3>4 DEF LinkOf, Linked, Tracked
  <2>8. CASE n # m
    <3>1. held'.files[n] = held.files[n]
      BY <1>1, <2>2, <2>3, <2>8, PostCases
    <3>2. remote' = remote \/ Posted(m, v)
      BY <1>1, <2>2, <2>3, PostCases
    <3>3. Ids(n)' \subseteq Ids(n)
      BY <1>1, <2>2, <2>8, <3>2, PostedIds
    <3>. QED  BY <2>4, <1>2, <3>1, <3>3, LinkKept DEF Tracked
  <2>. QED  BY <2>7, <2>8
<1>. QED  BY <1>3, <1>4

LEMMA LinkReload ==
    TypeOK /\ LinkInv /\ (ReloadDescriptor \/ ReloadReadme \/ UpdateDescriptor) => LinkInv'
<1>. SUFFICES ASSUME TypeOK, LinkInv, ReloadDescriptor \/ ReloadReadme \/ UpdateDescriptor,
                     Alive', pc' # "store", NEW n \in Names \ doubtful'
              PROVE  LinkOf(n)'
  BY DEF LinkInv
<1>1. pc \in {"descriptor", "readme", "update"} /\ linked' = linked /\ held # None
  BY DEF ReloadDescriptor, ReloadReadme, UpdateDescriptor, TypeOK
<1>2. CASE Drop
  BY <1>2 DEF Drop
<1>3. CASE ~Drop
  <2>1. doubtful' = doubtful /\ pc' \in {"readme", "update", "files"}
    BY <1>3 DEF ReloadDescriptor, ReloadReadme, UpdateDescriptor, historyVars
  <2>2. Alive /\ Ids(n)' = Ids(n)
    <3>1. CASE remote' = remote
      BY <1>1, <3>1 DEF Alive, Ids, RemoteFiles, Items
    <3>2. CASE Alive /\ SetMetadata(linked, Project)
      <4>1. remote'[linked].items = remote[linked].items
        BY <1>1, <3>2, ProjectType, SetMetadataEffect DEF Alive, TypeOK
      <4>. QED  BY <1>1, <3>2, <4>1 DEF Ids, RemoteFiles, Items
    <3>. QED  BY <3>1, <3>2 DEF ReloadDescriptor, ReloadReadme, UpdateDescriptor
  <2>3. LinkOf(n)
    BY <1>1, <2>1, <2>2 DEF LinkInv
  <2>4. held'.files = held.files
    <3>1. CASE held' = held
      BY <3>1
    <3>2. CASE SetProject([Project EXCEPT !.readme = disk.readme])
      BY <1>1, <3>2, ProjectType DEF SetProject, Project, Template
    <3>. QED  BY <1>3, <2>1, <3>1, <3>2
             DEF ReloadDescriptor, ReloadReadme, UpdateDescriptor, PutBack
  <2>. QED  BY <1>1, <2>1, <2>2, <2>3, <2>4, LinkKept DEF Tracked
<1>. QED  BY <1>2, <1>3

LEMMA LinkStep ==
    TypeOK /\ Diverged /\ TodoIsTracked /\ OneAtATime /\ LinkInv /\ [Next]_vars => LinkInv'
<1>. SUFFICES ASSUME TypeOK, Diverged, TodoIsTracked, OneAtATime, LinkInv, [Next]_vars
              PROVE  LinkInv'
  OBVIOUS
<1>1. CASE StoreRemote
  BY <1>1, LinkStore
<1>2. CASE ProcessChange \/ DeleteOld \/ PostFile
  BY <1>2, LinkProcess, LinkOldNew
<1>3. CASE ReloadDescriptor \/ ReloadReadme \/ UpdateDescriptor
  BY <1>3, LinkReload
<1>4. CASE Put \/ Crash
  BY <1>4 DEF Put, Crash, LinkInv, Alive
<1>5. CASE Write \/ Erase \/ DropDraft \/ TakeBatch \/ EndBatch \/ UNCHANGED vars
  <2>. SUFFICES ASSUME Alive', pc' # "store", NEW n \in Names \ doubtful'
                PROVE  LinkOf(n)'
    BY DEF LinkInv
  <2>1. UNCHANGED <<held, linked, todo, doubtful>>
    BY <1>5 DEF Write, Erase, Report, DropDraft, TakeBatch, EndBatch, vars, toolVars,
              historyVars
  <2>2. Alive /\ Ids(n)' = Ids(n)
    <3>1. remote' = remote \/ DropDraft
      BY <1>5 DEF Write, Erase, Report, TakeBatch, EndBatch, vars
    <3>2. ASSUME DropDraft PROVE remote'[linked] = remote[linked]
      BY <2>1, <3>2 DEF DropDraft, TypeOK, Alive
    <3>. QED  BY <2>1, <3>1, <3>2 DEF Alive, Ids, RemoteFiles, Items
  <2>3. pc' = pc \/ (pc' \in {"descriptor", "idle"} /\ pc \in {"idle", "files"})
    BY <1>5 DEF Write, Erase, Report, DropDraft, TakeBatch, EndBatch, vars, toolVars
  <2>4. LinkOf(n)
    BY <2>1, <2>2, <2>3 DEF LinkInv
  <2>. QED  BY <2>1, <2>2, <2>3, <2>4, LinkKept DEF LinkOf
<1>. QED  BY <1>1, <1>2, <1>3, <1>4, <1>5 DEF Next, User, ProcessChanges

(* When all changes are processed, a file that the project knows is on the *)
(* draft at most under the uuid that the project remembers for it, unless  *)
(* a request about it failed or its batch was dropped: neither a rename of *)
(* the template, nor a draft stored again, nor a post in place of a put    *)
(* that failed leaves a second copy.                                       *)
THEOREM LinksCorrect == Spec => []FilesAreLinked
<1>1. TypeOK /\ Diverged /\ LinkInv => FilesAreLinked
  <2>. SUFFICES ASSUME TypeOK, Diverged, LinkInv, AtRest,
                       NEW n \in Tracked(Project) \ doubtful,
                       NEW i \in Items, i.name = n
                PROVE  i.id = Project.files[n].remote
    BY DEF FilesAreLinked
  <2>1. n \in Names /\ fresh = None /\ Alive /\ pc = "idle"
    BY DEF Diverged, AtRest, Tracked
  <2>2. Linked(n)
    BY <2>1 DEF LinkInv, LinkOf
  <2>. QED  BY <2>1, <2>2 DEF Linked, Ids, RemoteFiles, Project
<1>2. Spec => [](Diverged /\ TodoIsTracked /\ OneAtATime /\ LinkInv)
  BY TypeCorrect, DivergedInit, DivergedStep, TodoStep, OneStep, LinkStep, PTL DEF Spec
<1>. QED  BY <1>1, <1>2, TypeCorrect, PTL

-----------------------------------------------------------------------------
(* A uuid belongs to one file *)

(* A step that gives no draft a file it did not have. *)
NoNewItems ==
    \A d \in TemplateIds : \A i \in ItemsOf(d)' :
        \E j \in ItemsOf(d) : j.id = i.id /\ j.name = i.name

LEMMA OwnKept ==
    ASSUME OwnIds, TypeOK', NoNewItems,
           \A n \in Names : Remembers(n)' \subseteq Remembers(n) \cup {None}
    PROVE  OwnIds'
<1>. SUFFICES ASSUME NEW n \in Names, NEW d \in TemplateIds, NEW i \in ItemsOf(d)',
                     i.id \in Remembers(n)'
              PROVE  i.name = n
  BY DEF OwnIds
<1>1. PICK j \in ItemsOf(d) : j.id = i.id /\ j.name = i.name
  BY DEF NoNewItems
<1>2. i.id # None
  BY NoneAssumption DEF TypeOK, ItemsOf, Draft, Item
<1>. QED  BY <1>1, <1>2 DEF OwnIds

LEMMA RemoteKept == remote' = remote => NoNewItems
BY DEF NoNewItems, ItemsOf

LEMMA ItemsKept ==
    ASSUME TypeOK, Alive, NEW S, ItemsBecome(S),
           \A i \in S : \E j \in Items : j.id = i.id /\ j.name = i.name
    PROVE  NoNewItems
BY DEF NoNewItems, ItemsBecome, ItemsOf, Items, Alive

LEMMA PutKeepsItems ==
    ASSUME TypeOK, Alive, NEW n, ItemsBecome(PutItem(n))
    PROVE  NoNewItems
<1>1. \A i \in Items : LET j == [i EXCEPT !.version = disk.files[n]]
                       IN j.id = i.id /\ j.name = i.name
  BY DraftShape DEF Item
<1>2. \A j \in PutItem(n) : \E i \in Items : i.id = j.id /\ i.name = j.name
  BY <1>1 DEF PutItem
<1>. QED  BY <1>2, ItemsKept

LEMMA OthersKeepItems ==
    ASSUME TypeOK, Alive, NEW id, ItemsBecome(Others(id))
    PROVE  NoNewItems
BY ItemsKept DEF Others

LEMMA MetadataKeepsItems ==
    ASSUME TypeOK, NEW d \in TemplateIds, remote[d] # None, NEW t \in Template,
           SetMetadata(d, t)
    PROVE  NoNewItems
BY SetMetadataEffect DEF NoNewItems, ItemsOf

(* What a template remembers after the project has changed it. *)
LEMMA RemembersProject ==
    ASSUME TypeOK, held # None, NEW t \in Template, SetProject(t), NEW n \in Names, NEW new,
           t.files[n].remote \in {Project.files[n].remote, new}
    PROVE  Remembers(n)' \subseteq Remembers(n) \cup {new}
<1>1. Project \in {held, fresh} \ {None}
  BY DEF Project
<1>2. Project.files[n].remote \in Remembers(n)
  BY <1>1 DEF Remembers
<1>3. \A u \in {held', fresh'} \ {None} : u = t \/ u \in {held, fresh} \ {None}
  BY DEF SetProject
<1>. QED  BY <1>2, <1>3 DEF Remembers

LEMMA RemembersSame ==
    ASSUME held' \in {held, fresh, None}, fresh' \in {held, fresh, None}, NEW n
    PROVE  Remembers(n)' \subseteq Remembers(n)
BY DEF Remembers

LEMMA OwnPost ==
    ASSUME TypeOK, OwnIds, held # None, NEW m \in Names, NEW version \in Version,
           Post(m, version), linked' = linked, TypeOK'
    PROVE  OwnIds'
<1>1. CASE remote' = remote /\ held' = held /\ fresh' = fresh
  BY <1>1, RemoteKept, RemembersSame, OwnKept
<1>2. CASE Posted(m, version)
  <2>1. /\ \A d \in TemplateIds : \A i \in ItemsOf(d) : i.id # NewId
        /\ \A n \in Names : NewId \notin Remembers(n)
        /\ NewId # None
    BY <1>2, NewIdIsFree, NoneAssumption DEF Posted, Remembers
  <2>2. \A d \in TemplateIds : \A i \in ItemsOf(d)' :
          i \in ItemsOf(d) \/ i = NewItem(m, version)
    BY <1>2 DEF Posted, ItemsBecome, ItemsOf, Items, Alive
  <2>3. \A n \in Names :
          Remembers(n)' \subseteq Remembers(n) \cup (IF n = m THEN {NewId} ELSE {})
    <3>1. CASE held' = held /\ fresh' = fresh
      BY <3>1, RemembersSame
    <3>2. CASE SetProject(Remembered(m, version))
      <4>1. TAKE n \in Names
      <4>. DEFINE t == Remembered(m, version)
      <4>2. /\ t \in Template /\ t.files[m].remote = NewId
            /\ n # m => t.files[n] = Project.files[n]
        BY <1>2, RememberedShape DEF Posted
      <4>3. SetProject(t)
        BY <3>2
      <4>. HIDE DEF t
      <4>4. CASE n = m
        <5>1. t.files[n].remote \in {Project.files[n].remote, NewId}
          BY <4>2, <4>4
        <5>2. Remembers(n)' \subseteq Remembers(n) \cup {NewId}
          BY <4>2, <4>3, <5>1, RemembersProject
        <5>. QED  BY <4>4, <5>2
      <4>5. CASE n # m
        <5>1. /\ Project \in {held, fresh} \ {None}
              /\ \A u \in {held', fresh'} \ {None} : u = t \/ u \in {held, fresh} \ {None}
          BY <4>3 DEF Project, SetProject
        <5>. QED  BY <4>2, <4>5, <5>1 DEF Remembers
      <4>. QED  BY <4>4, <4>5
    <3>. QED  BY <3>1, <3>2, PostEffect
  <2>4. NewItem(m, version).name = m /\ NewItem(m, version).id = NewId
    BY DEF NewItem
  <2>. SUFFICES ASSUME NEW n \in Names, NEW d \in TemplateIds, NEW i \in ItemsOf(d)',
                       i.id \in Remembers(n)'
                PROVE  i.name = n
    BY DEF OwnIds
  <2>. QED  BY <2>1, <2>2, <2>3, <2>4 DEF OwnIds
<1>. QED  BY <1>1, <1>2, PostEffect

LEMMA OwnInit == Init => OwnIds
BY DEF Init, OwnIds, Remembers

LEMMA OwnStore == TypeOK /\ OwnIds /\ StoreRemote /\ TypeOK' => OwnIds'
<1>. SUFFICES ASSUME TypeOK, OwnIds, StoreRemote, TypeOK' PROVE OwnIds'
  OBVIOUS
<1>1. held \in Template /\ held # None /\ fresh = None /\ held.id \in TemplateIds
  BY ProjectType, TemplateShape
     DEF TypeOK, StoreRemote, StoreDraft, StoreFails, Cleanup, EndCleanup, Upload, EndUpload
<1>2. CASE Upload
  <2>1. PICK n \in todo : Post(n, held.files[n].version)
    BY <1>2 DEF Upload
  <2>2. n \in Names /\ held.files[n].version \in Version
    BY <1>1, TemplateShape DEF TypeOK
  <2>. QED  BY <1>1, <1>2, <2>1, <2>2, OwnPost DEF Upload
<1>3. CASE StoreDraft \/ StoreFails \/ Cleanup \/ EndCleanup \/ EndUpload
  <2>1. held' = held /\ fresh' = fresh
    BY <1>3 DEF StoreDraft, StoreFails, Cleanup, EndCleanup, EndUpload
  <2>2. NoNewItems
    <3>1. ASSUME NEW meta, NEW readme,
                 remote' = [remote EXCEPT ![held.id] =
                              [meta |-> meta, readme |-> readme, items |-> {}]]
          PROVE  NoNewItems
      BY <1>1, <3>1, NoneAssumption DEF NoNewItems, ItemsOf, TypeOK
    <3>2. ASSUME remote' = [remote EXCEPT ![held.id] = None] PROVE NoNewItems
      BY <1>1, <3>2 DEF NoNewItems, ItemsOf, TypeOK
    <3>3. ASSUME remote[held.id] # None, SetMetadata(held.id, held) PROVE NoNewItems
      BY <1>1, <3>3, MetadataKeepsItems
    <3>4. CASE Cleanup
      <4>1. remote' = remote \/ (Alive /\ \E gone : SetItems(Items \ gone))
        BY <3>4 DEF Cleanup
      <4>2. ASSUME NEW gone, Alive, SetItems(Items \ gone) PROVE NoNewItems
        <5>1. ItemsBecome(Items \ gone)
          BY <4>2, DraftShape, SetItemsEffect DEF ItemsBecome
        <5>. QED  BY <4>2, <5>1, ItemsKept
      <4>. QED  BY <4>1, <4>2, RemoteKept
    <3>5. CASE StoreDraft
      BY <3>1, <3>3, <3>5 DEF StoreDraft
    <3>6. CASE StoreFails
      BY <3>1, <3>2, <3>3, <3>6, RemoteKept DEF StoreFails
    <3>. QED  BY <1>3, <3>4, <3>5, <3>6, RemoteKept DEF EndCleanup, EndUpload
  <2>. QED  BY <2>1, <2>2, RemembersSame, OwnKept
<1>. QED  BY <1>2, <1>3 DEF StoreRemote

LEMMA OwnProcess ==
    TypeOK /\ OwnIds /\ (ProcessChange \/ DeleteOld \/ PostFile) /\ TypeOK' => OwnIds'
<1>. SUFFICES ASSUME TypeOK, OwnIds, ProcessChange \/ DeleteOld \/ PostFile, TypeOK'
              PROVE  OwnIds'
  OBVIOUS
<1>1. held # None /\ Project \in Template
  BY ProjectType DEF TypeOK, ProcessChange, DeleteOld, PostFile
<1>2. CASE PostFile
  <2>1. PICK n \in todo : Post(n, Project.files[n].version)
    BY <1>2 DEF PostFile
  <2>2. n \in Names /\ Project.files[n].version \in Version
    BY <1>1, TemplateShape DEF TypeOK
  <2>. QED  BY <1>1, <1>2, <2>1, <2>2, OwnPost DEF PostFile
<1>3. CASE DeleteOld
  <2>1. PICK n \in todo :
          LET id == Project.files[n].remote
          IN \/ /\ IF Known(id) THEN Remove(id) ELSE UNCHANGED remote
                /\ UNCHANGED <<doubtful, faults>>
             \/ DeleteRaises(n, id)
    BY <1>3 DEF DeleteOld
  <2>2. n \in Names
    BY DEF TypeOK
  <2>. DEFINE id == Project.files[n].remote
  <2>3. remote' = remote \/ (Alive /\ ItemsBecome(Others(id)))
    BY <2>1, <2>2, RemoveEffect, DeleteRaisesEffect DEF Known
  <2>. QED  BY <1>3, <2>3, RemoteKept, OthersKeepItems, RemembersSame, OwnKept DEF DeleteOld
<1>4. CASE ProcessChange
  <2>1. PICK m \in Names : DeleteFile(m) \/ UpdateFile(m)
    BY <1>4 DEF ProcessChange
  <2>2. NoNewItems
    BY <1>1, <2>1, DeleteCases, UpdateCases, RemoteKept, OthersKeepItems, PutKeepsItems
       DEF Known
  <2>3. CASE held' = held /\ fresh' = fresh
    BY <2>2, <2>3, RemembersSame, OwnKept
  <2>4. CASE SetProject([Project EXCEPT !.files[m] = [version |-> 0, remote |-> None]])
    <3>. DEFINE t == [Project EXCEPT !.files[m] = [version |-> 0, remote |-> None]]
    <3>1. [version |-> 0, remote |-> None] \in Entry
      BY DiskShape DEF Entry
    <3>2. /\ t \in Template
          /\ \A n \in Names : t.files[n].remote \in {Project.files[n].remote, None}
      BY <1>1, <2>1, <3>1, FileChanged
    <3>3. SetProject(t)
      BY <2>4
    <3>. HIDE DEF t
    <3>. QED  BY <1>1, <2>2, <3>2, <3>3, RemembersProject, OwnKept
  <2>5. CASE SetProject(Loaded(m))
    <3>1. /\ Loaded(m) \in Template
          /\ \A n \in Names : Loaded(m).files[n].remote \in {Project.files[n].remote, None}
      BY <1>1, LoadedShape
    <3>. QED  BY <1>1, <2>2, <2>5, <3>1, RemembersProject, OwnKept
  <2>. QED  BY <1>1, <2>1, <2>3, <2>4, <2>5, DeleteCases, UpdateCases
<1>. QED  BY <1>2, <1>3, <1>4

LEMMA OwnStep == TypeOK /\ OwnIds /\ [Next]_vars => OwnIds'
<1>. SUFFICES ASSUME TypeOK, OwnIds, [Next]_vars, TypeOK' PROVE OwnIds'
  BY TypeStep
<1>1. CASE StoreRemote
  BY <1>1, OwnStore
<1>2. CASE ProcessChange \/ DeleteOld \/ PostFile
  BY <1>2, OwnProcess
<1>3. CASE Write \/ Erase \/ DropDraft \/ Crash \/ TakeBatch \/ EndBatch \/ UNCHANGED vars
  <2>1. NoNewItems
    <3>1. CASE remote' = remote
      BY <3>1, RemoteKept
    <3>2. CASE DropDraft
      BY <3>2 DEF DropDraft, NoNewItems, ItemsOf, TypeOK
    <3>. QED  BY <1>3, <3>1, <3>2 DEF Write, Erase, Report, Crash, TakeBatch, EndBatch, vars
  <2>2. held' \in {held, None} /\ fresh' \in {fresh, None}
    BY <1>3 DEF Write, Erase, Report, DropDraft, Crash, TakeBatch, EndBatch, vars, toolVars
  <2>. QED  BY <2>1, <2>2, RemembersSame, OwnKept
<1>4. CASE Put \/ ReloadDescriptor
  <2>1. \A u \in {held', fresh'} \ {None} :
          \/ u \in {held, fresh} \ {None}
          \/ \A n \in Names : u.files[n].remote = None
    BY <1>4 DEF Put, ReloadDescriptor, OnDisk, FilesOnDisk, NoFiles
  <2>2. \A n \in Names : Remembers(n)' \subseteq Remembers(n) \cup {None}
    BY <2>1 DEF Remembers
  <2>. QED  BY <1>4, <2>2, RemoteKept, OwnKept DEF Put, ReloadDescriptor
<1>5. CASE ReloadReadme
  <2>1. held # None /\ Project \in Template
    BY <1>5, ProjectType DEF ReloadReadme, TypeOK
  <2>. DEFINE t == [Project EXCEPT !.readme = disk.readme]
  <2>2. t \in Template /\ t.files = Project.files
    BY <2>1, DiskShape DEF Template
  <2>. HIDE DEF t
  <2>3. NoNewItems
    BY <1>5, RemoteKept DEF ReloadReadme
  <2>4. CASE held' = held /\ fresh' = fresh
    BY <2>3, <2>4, RemembersSame, OwnKept
  <2>5. CASE SetProject(t)
    <3>1. \A n \in Names : t.files[n].remote \in {Project.files[n].remote, None}
      BY <2>2
    <3>2. ASSUME NEW n \in Names PROVE Remembers(n)' \subseteq Remembers(n) \cup {None}
      BY <2>1, <2>2, <2>5, <3>1, RemembersProject
    <3>. QED  BY <2>3, <3>2, OwnKept
  <2>. QED  BY <1>5, <2>4, <2>5 DEF ReloadReadme, t
<1>6. CASE UpdateDescriptor
  <2>1. held # None /\ Project \in Template
    BY <1>6, ProjectType DEF UpdateDescriptor, TypeOK
  <2>2. NoNewItems
    <3>1. ASSUME Alive, SetMetadata(linked, Project) PROVE NoNewItems
      BY <2>1, <3>1, MetadataKeepsItems DEF Alive, TypeOK
    <3>. QED  BY <1>6, <3>1, RemoteKept DEF UpdateDescriptor
  <2>3. held' \in {held, fresh} /\ fresh' \in {fresh, None}
    BY <1>6 DEF UpdateDescriptor, PutBack, Project
  <2>. QED  BY <2>2, <2>3, RemembersSame, OwnKept
<1>. QED  BY <1>1, <1>2, <1>3, <1>4, <1>5, <1>6 DEF Next, User, ProcessChanges

-----------------------------------------------------------------------------
(* The content of the files *)

LEMMA ContentInit == Init => ContentInv
BY DEF Init, ContentInv, Content, Following

LEMMA ContentUser == TypeOK /\ ContentInv /\ User => ContentInv'
<1>. SUFFICES ASSUME TypeOK, ContentInv, User, NEW n \in Names \ excused',
                     disk'.files[n] > 0
              PROVE  Content(n)'
  BY DEF ContentInv
<1>1. CASE Put
  BY <1>1 DEF Put, Content, Current, Project, OnDisk, FilesOnDisk, Following
<1>2. CASE Write \/ Erase
  <2>1. PICK kind \in {"updated", "deleted"}, part \in Parts :
          /\ Report(kind, part)
          /\ part # n => disk'.files[n] = disk.files[n]
          /\ part = n => kind = "updated"
    <3>1. /\ disk \in [files: [Names -> Version], id: TemplateIds, meta: Version,
                       readme: Version]
          /\ n \in Names
      BY DEF TypeOK
    <3>2. CASE \E m \in Names, v \in Nat :
                 /\ disk' = [disk EXCEPT !.files[m] = v]
                 /\ Report("updated", m) \/ (v = 0 /\ Report("deleted", m))
      <4>1. PICK m \in Names, v \in Nat :
                 /\ disk' = [disk EXCEPT !.files[m] = v]
                 /\ Report("updated", m) \/ (v = 0 /\ Report("deleted", m))
        BY <3>2
      <4>2. disk'.files[n] = IF m = n THEN v ELSE disk.files[n]
        BY <3>1, <4>1
      <4>. QED  BY <4>1, <4>2 DEF Parts
    <3>3. CASE \E kind \in {"updated", "deleted"}, part \in {Descriptor, Readme} :
                 Report(kind, part) /\ disk'.files = disk.files
      BY <3>3, SyncAssumption DEF Parts
    <3>4. edits + 2 \in Nat /\ 0 \in Nat
      BY SyncAssumption DEF TypeOK
    <3>5. CASE Write
      BY <3>1, <3>2, <3>3, <3>4, <3>5 DEF Write
    <3>6. CASE Erase
      BY <3>1, <3>2, <3>3, <3>4, <3>6 DEF Erase
    <3>. QED  BY <1>2, <3>5, <3>6
  <2>2. /\ UNCHANGED <<remote, toolVars>> /\ n \notin excused
        /\ pending \subseteq pending'
    BY <2>1 DEF Report
  <2>3. CASE part = n
    <3>1. Watching /\ Upd(n) \in pending'
      BY <2>1, <2>3 DEF Report, Upd
    <3>2. Waits(n)'
      BY <3>1 DEF Waits, Upd
    <3>. QED  BY <3>1, <3>2 DEF Content
  <2>4. CASE part # n
    <3>1. disk'.files[n] = disk.files[n]
      BY <2>1, <2>4
    <3>2. Content(n)
      BY <2>2, <3>1 DEF ContentInv
    <3>3. /\ Current(n) => Current(n)'
          /\ Waits(n) => Waits(n)'
          /\ HasContent(n) => HasContent(n)'
          /\ Alive' = Alive
      BY <2>2, <3>1
         DEF Current, Project, Waits, HasContent, Items, Alive, Upd, toolVars
    <3>. QED  BY <2>2, <3>2, <3>3 DEF Content, Upd, toolVars
  <2>. QED  BY <2>3, <2>4
<1>. QED  BY <1>1, <1>2 DEF User

LEMMA ContentStore == TypeOK /\ ContentInv /\ StoreRemote => ContentInv'
<1>. SUFFICES ASSUME TypeOK, ContentInv, StoreRemote, NEW n \in Names \ excused',
                     disk'.files[n] > 0
              PROVE  Content(n)'
  BY DEF ContentInv
<1>1. /\ held \in Template /\ held # None /\ fresh = None /\ Project = held
      /\ disk' = disk /\ pending' = pending /\ n \in Names
  BY ProjectType
     DEF TypeOK, StoreRemote, StoreDraft, StoreFails, Cleanup, EndCleanup, Upload, EndUpload,
         Project
<1>2. CASE StoreDraft
  <2>1. n \notin excused /\ (after = "files" => n \notin OutOfDate(held))
    BY <1>2, SyncAssumption DEF StoreDraft, Uploaded
  <2>2. Content(n)
    BY <1>1, <2>1 DEF ContentInv
  <2>3. Upd(n) \in pending \/ Current(n)
    BY <1>1, <1>2, <2>1, <2>2 DEF Content, OutOfDate, Current, StoreDraft
  <2>4. Current(n) => Current(n)' /\ n \in Tracked(held)
    BY <1>1, <1>2 DEF Current, Project, Tracked, StoreDraft
  <2>5. Waits(n)' \/ (Current(n)' /\ n \in todo')
    BY <1>1, <1>2, <2>3, <2>4 DEF StoreDraft, Waits, Upd
  <2>6. pc' \in {"cleanup", "upload"}
    BY <1>2 DEF StoreDraft
  <2>. QED  BY <2>5, <2>6 DEF Content, Following
<1>3. CASE StoreFails
  BY <1>3 DEF StoreFails, Parts
<1>4. CASE Cleanup
  <2>1. remote' = remote \/ Alive
    BY <1>4 DEF Cleanup
  <2>2. /\ Alive' => Alive
        /\ n \notin excused /\ pc = "cleanup" /\ pc' = "cleanup"
        /\ Current(n) => Current(n)'
        /\ Waits(n) => Waits(n)'
    BY <1>1, <1>4, <2>1 DEF Cleanup, Alive, Current, Project, Waits, Upd
  <2>3. Content(n)
    BY <1>1, <2>2 DEF ContentInv
  <2>. QED  BY <2>2, <2>3 DEF Content, Following
<1>5. CASE EndCleanup
  <2>1. /\ Alive' => Alive
        /\ n \notin excused /\ pc = "cleanup" /\ pc' = "upload"
        /\ Current(n) => Current(n)' /\ n \in todo'
        /\ Waits(n) => Waits(n)'
    BY <1>1, <1>5
       DEF EndCleanup, Alive, Current, Project, Waits, Upd, Tracked, historyVars
  <2>2. Content(n)
    BY <1>1, <2>1 DEF ContentInv
  <2>. QED  BY <2>1, <2>2 DEF Content, Following
<1>6. CASE Upload
  <2>1. PICK m \in todo : todo' = todo \ {m} /\ Post(m, held.files[m].version)
    BY <1>6 DEF Upload
  <2>. DEFINE v == held.files[m].version
  <2>2. m \in Names /\ v \in Version
    BY <1>1, <2>1, TemplateShape DEF TypeOK
  <2>3. Post(m, v)
    BY <2>1
  <2>4. n = m => v = Project.files[n].version
    BY <1>1
  <2>. HIDE DEF v
  <2>5. /\ linked' = linked /\ pc = "upload" /\ pc' = "upload"
        /\ Waits(n) => Waits(n)'
    BY <1>1, <1>6 DEF Upload, Waits, Upd
  <2>6. remote' = remote \/ Posted(m, v)
    BY <1>1, <2>2, <2>3, PostEffect
  <2>7. Alive' => Alive
    BY <2>5, <2>6 DEF Alive, Posted
  <2>8. HasContent(n) => HasContent(n)'
    BY <1>1, <2>5, <2>6 DEF HasContent, Items, Posted, ItemsBecome
  <2>9. CASE n # m
    <3>1. Current(n) => Current(n)'
      BY <1>1, <2>2, <2>3, <2>9, PostCases DEF Current
    <3>2. n \notin excused
      BY <1>1, <2>2, <2>3, <2>9, PostCases
    <3>3. Content(n)
      BY <1>1, <3>2 DEF ContentInv
    <3>. QED  BY <2>1, <2>5, <2>7, <2>8, <2>9, <3>1, <3>3 DEF Content, Following
  <2>10. CASE n = m
    <3>1. /\ Posted(m, v)
          /\ excused' = IF v = disk.files[m] THEN excused \ {m} ELSE excused
      BY <1>1, <2>2, <2>3, <2>10, PostCases
    <3>2. CASE v = disk.files[m]
      <4>1. NewItem(m, v) \in Items' /\ NewItem(m, v).name = m /\ NewItem(m, v).version = v
        BY <2>5, <3>1 DEF Posted, ItemsBecome, Items, NewItem
      <4>2. HasContent(n)'
        BY <1>1, <2>10, <3>2, <4>1 DEF HasContent
      <4>. QED  BY <2>5, <4>2 DEF Content, Following
    <3>3. CASE v # disk.files[m]
      <4>1. Content(n) /\ ~Current(n)
        BY <1>1, <2>4, <2>10, <3>1, <3>3 DEF ContentInv, Current
      <4>. QED  BY <2>5, <2>7, <2>8, <4>1 DEF Content, Following
    <3>. QED  BY <3>2, <3>3
  <2>. QED  BY <2>9, <2>10
<1>7. CASE EndUpload
  <2>1. /\ Alive' => Alive
        /\ n \notin excused /\ pc = "upload" /\ pc' \in {"files", "idle"} /\ todo = {}
        /\ HasContent(n) => HasContent(n)'
        /\ Waits(n) => Upd(n) \in (pending \cup batch)'
    BY <1>1, <1>7
       DEF EndUpload, Alive, HasContent, Items, Waits, Upd, historyVars
  <2>2. Content(n)
    BY <1>1, <2>1 DEF ContentInv
  <2>. QED  BY <2>1, <2>2 DEF Content, Following, Upd
<1>. QED  BY <1>2, <1>3, <1>4, <1>5, <1>6, <1>7 DEF StoreRemote

(* A file keeps its content while a uuid of another file is removed or put. *)
LEMMA ContentKept ==
    ASSUME TypeOK, OwnIds, Alive, held # None, linked' = linked, disk' = disk,
           NEW m \in Names, NEW n \in Names, n # m,
           \/ remote' = remote
           \/ ItemsBecome(Others(Project.files[m].remote))
           \/ ItemsBecome(PutItem(m)),
           HasContent(n)
    PROVE  HasContent(n)'
<1>1. PICK i \in Items : i.name = n /\ i.version = disk.files[n]
  BY DEF HasContent
<1>2. Project.files[m].remote \in Remembers(m)
  BY DEF Remembers, Project
<1>3. linked \in TemplateIds /\ i \in ItemsOf(linked)
  BY DraftShape
<1>4. i.id # Project.files[m].remote
  BY <1>1, <1>2, <1>3 DEF OwnIds
<1>5. i \in Items'
  BY <1>4 DEF Items, ItemsBecome, Others, PutItem
<1>. QED  BY <1>1, <1>5 DEF HasContent

LEMMA ContentReload ==
    TypeOK /\ ContentInv /\ (ReloadDescriptor \/ ReloadReadme \/ UpdateDescriptor)
      => ContentInv'
<1>. SUFFICES ASSUME TypeOK, ContentInv,
                     ReloadDescriptor \/ ReloadReadme \/ UpdateDescriptor,
                     NEW n \in Names \ excused', disk'.files[n] > 0
              PROVE  Content(n)'
  BY DEF ContentInv
<1>1. /\ pc \in {"descriptor", "readme", "update"} /\ linked' = linked /\ disk' = disk
      /\ pending' = pending /\ n \in Names /\ held # None
  BY DEF ReloadDescriptor, ReloadReadme, UpdateDescriptor, TypeOK
<1>. DEFINE Kept == /\ n \notin excused
                    /\ \/ Upd(n) \in batch => Upd(n) \in batch'
                       \/ pc' = "store" /\ after' = "files"
            Reread == held' = OnDisk(FilesOnDisk) /\ fresh' = None /\ pc' = "store"
<1>2. Kept \/ Reread
  <2>1. CASE Drop /\ excused' = excused \cup {d.part : d \in batch}
    <3>1. Upd(n) \notin batch
      BY <2>1 DEF Upd
    <3>. QED  BY <2>1, <3>1
  <2>2. CASE UpdateDescriptor
    <3>1. n \notin {Descriptor, Readme}
      BY <1>1, SyncAssumption
    <3>. QED  BY <2>2, <3>1 DEF UpdateDescriptor, Uploaded, historyVars
  <2>3. CASE UNCHANGED <<batch, historyVars>>
    BY <2>3 DEF historyVars
  <2>. QED  BY <2>1, <2>2, <2>3 DEF ReloadDescriptor, ReloadReadme
<1>3. CASE Reread
  BY <1>1, <1>3 DEF Content, Current, Project, OnDisk, FilesOnDisk, Following
<1>4. CASE Kept /\ ~Reread
  <2>1. pc' \in {"readme", "update", "files", "idle", "stopped"}
        \/ (pc' = "store" /\ after' = "files")
    BY <1>4 DEF ReloadDescriptor, ReloadReadme, UpdateDescriptor, Drop
  <2>2. /\ Alive' => Alive
        /\ HasContent(n) => HasContent(n)'
    <3>1. CASE remote' = remote
      BY <1>1, <3>1 DEF Alive, HasContent, Items
    <3>2. CASE Alive /\ SetMetadata(linked, Project)
      <4>1. remote'[linked].items = remote[linked].items
        BY <1>1, <3>2, ProjectType, SetMetadataEffect DEF Alive, TypeOK
      <4>. QED  BY <1>1, <3>2, <4>1 DEF HasContent, Items
    <3>. QED  BY <3>1, <3>2 DEF ReloadDescriptor, ReloadReadme, UpdateDescriptor
  <2>3. Content(n)
    BY <1>1, <1>4 DEF ContentInv
  <2>. QED  BY <1>1, <1>4, <2>1, <2>2, <2>3 DEF Content, Following, Upd
<1>. QED  BY <1>2, <1>3, <1>4

LEMMA ContentProcess == TypeOK /\ OwnIds /\ ContentInv /\ ProcessChange => ContentInv'
<1>. SUFFICES ASSUME TypeOK, OwnIds, ContentInv, ProcessChange,
                     NEW n \in Names \ excused', disk'.files[n] > 0
              PROVE  Content(n)'
  BY DEF ContentInv
<1>. SUFFICES ASSUME Alive' PROVE Content(n)'
  BY DEF Content, ProcessChange, DeleteFile, UpdateFile
<1>1. /\ pc = "files" /\ linked' = linked /\ disk' = disk /\ n \in Names
      /\ pending' = pending /\ held # None /\ Project \in Template
  BY ProjectType DEF ProcessChange, TypeOK
<1>2. PICK c \in batch : /\ c.part \in Names /\ batch' = batch \ {c}
                         /\ IF c.kind = "deleted" THEN DeleteFile(c.part)
                                                  ELSE UpdateFile(c.part)
  BY DEF ProcessChange
<1>. DEFINE m == c.part
<1>3. m \in Names /\ (c = Upd(n) => n = m /\ c.kind # "deleted")
  BY <1>2 DEF Upd
<1>4. Alive
  BY <1>1, FileRequests DEF Alive
<1>5. pc' \in {"files", "delete", "post"} /\ (todo' = {m} \/ todo' = {})
  BY <1>2 DEF DeleteFile, UpdateFile
<1>6. (c.kind = "deleted" /\ DeleteFile(m)) \/ (c.kind # "deleted" /\ UpdateFile(m))
  BY <1>2
<1>7. Upd(n) \in pending \cup batch => Upd(n) \in (pending \cup batch)' \/ c = Upd(n)
  BY <1>1, <1>2
<1>8. Content(n)' <=> \/ Upd(n) \in (pending \cup batch)'
                      \/ IF pc' \in {"delete", "post"} /\ n \in todo'
                         THEN Current(n)' ELSE HasContent(n)'
  BY <1>5 DEF Content, Following, Upd
<1>. HIDE DEF m
<1>9. CASE n # m
  <2>1. n \notin excused
    BY <1>1, <1>3, <1>6, <1>9, DeleteCases, UpdateCases DEF historyVars
  <2>2. Content(n)
    BY <1>1, <2>1 DEF ContentInv
  <2>3. Upd(n) \in (pending \cup batch)' \/ HasContent(n)
    BY <1>1, <1>3, <1>4, <1>7, <1>9, <2>2 DEF Content, Following
  <2>4. \/ remote' = remote
        \/ ItemsBecome(Others(Project.files[m].remote))
        \/ ItemsBecome(PutItem(m))
    BY <1>1, <1>3, <1>6, DeleteCases, UpdateCases
  <2>5. HasContent(n) => HasContent(n)'
    BY <1>1, <1>3, <1>4, <1>9, <2>4, ContentKept
  <2>. QED  BY <1>5, <1>8, <1>9, <2>3, <2>5
<1>10. CASE n = m /\ c.kind = "deleted" /\ DeleteFile(m)
  <2>1. UNCHANGED <<remote, historyVars>> /\ todo' = {}
    BY <1>1, <1>3, <1>10, DeleteCases
  <2>2. Content(n)
    BY <1>1, <2>1 DEF ContentInv, historyVars
  <2>3. HasContent(n) => HasContent(n)'
    BY <1>1, <2>1 DEF HasContent, Items
  <2>4. Upd(n) \in (pending \cup batch)' \/ HasContent(n)
    BY <1>1, <1>3, <1>4, <1>7, <1>10, <2>2 DEF Content, Following
  <2>. QED  BY <1>8, <1>10, <2>1, <2>3, <2>4
<1>11. CASE n = m /\ UpdateFile(m)
  <2>1. disk.files[m] # 0 /\ SetProject(Loaded(m))
    BY <1>1, <1>3, <1>11, UpdateCases
  <2>2. Current(n)'
    <3>1. Project' = Loaded(m)
      BY <1>1, <1>3, <2>1, LoadedShape, SetProjectEffect
    <3>. QED  BY <1>1, <1>3, <1>11, <3>1, LoadedShape DEF Current
  <2>3. CASE pc' \in {"delete", "post"} /\ todo' = {m}
    BY <1>8, <1>11, <2>2, <2>3
  <2>4. CASE /\ Known(Project.files[m].remote) /\ ItemsBecome(PutItem(m))
             /\ pc' = "files"
    <3>1. PICK i \in Items : i.id = Project.files[m].remote
      BY <2>4 DEF Known
    <3>2. i.name = m /\ i \in Item
      <4>1. Project.files[m].remote \in Remembers(m)
        BY <1>1 DEF Remembers, Project
      <4>. QED  BY <1>3, <1>4, <3>1, <4>1, DraftShape DEF OwnIds
    <3>. DEFINE j == [i EXCEPT !.version = disk.files[m]]
    <3>3. j \in PutItem(m)
      BY <3>1 DEF PutItem
    <3>4. j.name = m /\ j.version = disk.files[m]
      BY <3>2 DEF Item
    <3>5. Items' = PutItem(m)
      BY <1>1, <2>4 DEF Items, ItemsBecome
    <3>. HIDE DEF j
    <3>6. HasContent(n)'
      BY <1>1, <1>11, <3>3, <3>4, <3>5 DEF HasContent
    <3>. QED  BY <1>8, <2>4, <3>6
  <2>. QED  BY <1>1, <1>3, <1>11, <2>1, <2>3, <2>4, UpdateCases
<1>. QED  BY <1>6, <1>9, <1>10, <1>11

LEMMA ContentOldNew ==
    TypeOK /\ OwnIds /\ OneAtATime /\ ContentInv /\ (DeleteOld \/ PostFile) => ContentInv'
<1>. SUFFICES ASSUME TypeOK, OwnIds, OneAtATime, ContentInv, DeleteOld \/ PostFile,
                     NEW n \in Names \ excused', disk'.files[n] > 0
              PROVE  Content(n)'
  BY DEF ContentInv
<1>. SUFFICES ASSUME Alive' PROVE Content(n)'
  BY DEF Content, DeleteOld, PostFile
<1>1. /\ pc \in {"delete", "post"} /\ linked' = linked /\ disk' = disk /\ n \in Names
      /\ pending' = pending /\ batch' = batch /\ held # None /\ Project \in Template
  BY ProjectType DEF DeleteOld, PostFile, TypeOK
<1>2. PICK m \in Names : todo = {m}
  BY <1>1 DEF OneAtATime
<1>3. Alive
  BY <1>1, FileRequests DEF Alive
<1>4. Content(n) => \/ Upd(n) \in (pending \cup batch)'
                    \/ n = m /\ Current(n)
                    \/ n # m /\ HasContent(n)
  BY <1>1, <1>2, <1>3 DEF Content, Following
<1>5. CASE DeleteOld
  <2>1. n \notin excused /\ Current(n)' = Current(n) /\ todo' = {m} /\ pc' = "post"
    BY <1>2, <1>5 DEF DeleteOld, Current, Project
  <2>2. remote' = remote \/ ItemsBecome(Others(Project.files[m].remote))
    <3>1. LET id == Project.files[m].remote
          IN \/ /\ IF Known(id) THEN Remove(id) ELSE UNCHANGED remote
                /\ UNCHANGED <<doubtful, faults>>
             \/ DeleteRaises(m, id)
      BY <1>2, <1>5 DEF DeleteOld
    <3>. QED  BY <1>2, <3>1, RemoveEffect, DeleteRaisesEffect DEF Known
  <2>3. n # m /\ HasContent(n) => HasContent(n)'
    BY <1>1, <1>2, <1>3, <2>2, ContentKept
  <2>4. Content(n)
    BY <1>1, <2>1 DEF ContentInv
  <2>. QED  BY <1>2, <1>4, <2>1, <2>3, <2>4 DEF Content, Upd
<1>6. CASE PostFile
  <2>. DEFINE v == Project.files[m].version
  <2>1. Post(m, v) /\ pc' = "files"
    BY <1>2, <1>6 DEF PostFile
  <2>2. v \in Version /\ (v = disk.files[m] <=> Current(m))
    BY <1>1, <1>2, TemplateShape DEF Current
  <2>. HIDE DEF v
  <2>3. remote' = remote \/ Posted(m, v)
    BY <1>1, <1>2, <2>1, <2>2, PostEffect
  <2>4. HasContent(n) => HasContent(n)'
    BY <1>1, <2>3 DEF HasContent, Items, Posted, ItemsBecome
  <2>5. CASE n = m /\ v = disk.files[m]
    <3>1. Posted(m, v)
      BY <1>1, <2>1, <2>2, <2>5, PostCases
    <3>2. NewItem(m, v) \in Items' /\ NewItem(m, v).name = m /\ NewItem(m, v).version = v
      BY <1>1, <3>1 DEF Posted, ItemsBecome, Items, NewItem
    <3>3. HasContent(n)'
      BY <1>1, <2>5, <3>2 DEF HasContent
    <3>. QED  BY <2>1, <3>3 DEF Content
  <2>6. CASE n # m \/ v # disk.files[m]
    <3>1. n \notin excused
      BY <1>1, <1>2, <2>1, <2>2, <2>6, PostCases
    <3>2. Content(n) /\ ~(n = m /\ Current(n))
      BY <1>1, <2>2, <2>6, <3>1 DEF ContentInv
    <3>. QED  BY <1>4, <2>1, <2>4, <3>2 DEF Content, Upd
  <2>. QED  BY <2>5, <2>6
<1>. QED  BY <1>5, <1>6

LEMMA ContentStep == TypeOK /\ OwnIds /\ OneAtATime /\ ContentInv /\ [Next]_vars => ContentInv'
<1>. SUFFICES ASSUME TypeOK, OwnIds, OneAtATime, ContentInv, [Next]_vars PROVE ContentInv'
  OBVIOUS
<1>1. CASE User \/ StoreRemote
  BY <1>1, ContentUser, ContentStore
<1>2. CASE ReloadDescriptor \/ ReloadReadme \/ UpdateDescriptor
  BY <1>2, ContentReload
<1>3. CASE ProcessChange \/ DeleteOld \/ PostFile
  BY <1>3, ContentProcess, ContentOldNew
<1>4. CASE Crash
  BY <1>4 DEF Crash, ContentInv, Content, Following
<1>5. CASE TakeBatch \/ EndBatch \/ DropDraft \/ UNCHANGED vars
  <2>. SUFFICES ASSUME NEW n \in Names \ excused', disk'.files[n] > 0
                PROVE  Content(n)'
    BY DEF ContentInv
  <2>1. UNCHANGED <<disk, held, fresh, linked, after, todo, excused>>
    BY <1>5 DEF TakeBatch, EndBatch, DropDraft, vars, toolVars, historyVars
  <2>2. /\ Alive' => Alive
        /\ Alive' /\ HasContent(n) => HasContent(n)'
    <3>1. CASE remote' = remote
      BY <2>1, <3>1 DEF Alive, HasContent, Items
    <3>2. CASE DropDraft
      <4>1. Alive' => Alive /\ remote'[linked] = remote[linked]
        BY <2>1, <3>2 DEF DropDraft, Alive, TypeOK
      <4>. QED  BY <2>1, <4>1 DEF HasContent, Items
    <3>. QED  BY <1>5, <3>1, <3>2 DEF TakeBatch, EndBatch, vars
  <2>3. Content(n) /\ n \in Names
    BY <2>1 DEF ContentInv
  <2>4. Current(n)' = Current(n)
    BY <2>1 DEF Current, Project
  <2>5. CASE TakeBatch
    <3>1. batch = {}
      BY <2>5 DEF TakeBatch, TypeOK
    <3>. QED  BY <2>1, <2>2, <2>3, <2>5, <3>1 DEF TakeBatch, Content, Following, Upd
  <2>6. CASE EndBatch
    <3>1. Upd(n) \notin batch
      BY <2>3, <2>6 DEF EndBatch, Upd
    <3>. QED  BY <2>1, <2>2, <2>3, <2>6, <3>1 DEF EndBatch, Content, Following, Upd
  <2>7. CASE UNCHANGED <<pc, pending, batch>>
    <3>1. Waits(n)' = Waits(n)
      BY <2>1, <2>7 DEF Waits, Upd
    <3>. QED  BY <2>1, <2>2, <2>3, <2>4, <2>7, <3>1 DEF Content, Upd
  <2>. QED  BY <1>5, <2>5, <2>6, <2>7 DEF DropDraft, vars, toolVars
<1>. QED  BY <1>1, <1>2, <1>3, <1>4, <1>5 DEF Next, ProcessChanges

(* When all changes are processed, the draft has the content of every      *)
(* local file but the excused ones, for any number of files, edits during  *)
(* the upload or a batch, failed requests, deleted drafts and restarts.    *)
THEOREM UploadCorrect == Spec => []EveryFileIsUploaded
<1>1. TypeOK /\ ContentInv => EveryFileIsUploaded
  <2>. SUFFICES ASSUME TypeOK, ContentInv, AtRest, NEW n \in Names \ excused,
                       disk.files[n] > 0
                PROVE  HasContent(n)
    BY DEF EveryFileIsUploaded, HasContent
  <2>1. pc = "idle" /\ pending = {} /\ batch = {} /\ Alive
    BY DEF AtRest, TypeOK
  <2>. QED  BY <2>1 DEF ContentInv, Content, Following
<1>2. Spec => [](OwnIds /\ OneAtATime /\ ContentInv)
  BY TypeCorrect, OwnInit, OwnStep, DivergedInit, OneStep, ContentInit, ContentStep, PTL
     DEF Spec
<1>. QED  BY <1>1, <1>2, TypeCorrect, PTL

=============================================================================
