------------------------- MODULE TemplateCacheProofs --------------------------
(***************************************************************************)
(* What holds of the template cache for all files, assets and paths: it is *)
(* typed, what a job renders from is what it has read, and what was        *)
(* deleted from the template is not on disk any more.                      *)
(*                                                                         *)
(* The argument is that the cache may trust its shortcut, that a row with  *)
(* a known updated_at and a file at its path has not changed.  A row that  *)
(* was overwritten on disk by another one, which takes an interrupted      *)
(* refresh or a path that changed hands, is outdated: it has left its path *)
(* since it was read, so the next refresh reads another updated_at for it, *)
(* or does not find it.                                                    *)
(***************************************************************************)
EXTENDS TemplateCache, TLAPS

-----------------------------------------------------------------------------
(* Rows and their versions *)

(* Both of one entry, the first read later than the second, which is there. *)
Outdates(new, old) ==
    new.version >= old.version /\ (new.path = NoPath \/ new.version > old.version)

Later(new, old) == old.path # NoPath => new = old \/ Outdates(new, old)

Versioned(row) == row.path # NoPath => row.version # 0

(* What a step of the server makes of a row. *)
Advances(new, old) ==
    \/ new = old
    \/ old.path # NoPath /\ Outdates(new, old) /\ Versioned(new)
    \/ old.path = NoPath /\ old.version = 0 /\ Versioned(new)

Distinct(rows, kind) ==
    \A e, f \in kind : rows[e].path = rows[f].path /\ rows[e].path # NoPath => e = f

(* The rows of e that this refresh has read and not yet made known. *)
Active(e) ==
    \/ e \in Files /\ pc \in {"fetch_assets", "make_directory", "files"}
    \/ e \in Assets /\ pc \in {"make_directory", "files", "assets"}

Handled(e) == pc \in {"files", "assets"} /\ e \in Kind /\ e \notin todo

(* The row of e by which the directory was last changed, and the one it is *)
(* changed by, or would be if a job came.                                  *)
Row(e)  == IF Handled(e) THEN read[e] ELSE known[e]
Seen(e) == IF Active(e) THEN read[e] ELSE template[e]

-----------------------------------------------------------------------------
(* The inductive invariant *)

Stage ==
    /\ pc = "make_directory" => todo = Files
    /\ pc = "fetch_assets" => \A a \in Assets : read[a] = Absent

RowsAreDistinct ==
    /\ Distinct(template, Entries)
    /\ Distinct(read, Files)
    /\ Distinct(read, Assets)

RowsAreVersioned ==
    \A e \in Entries : Versioned(template[e]) /\ Versioned(known[e]) /\ Versioned(read[e])

ObjectsComeFirst == \A a \in Assets : bucket[a] = 0 \/ bucket[a] >= template[a].version

(* Rows are read in the order of their versions. *)
RowsAreOrdered ==
    \A e \in Entries :
        /\ Later(template[e], known[e])
        /\ Active(e) =>
             /\ Later(template[e], read[e])
             /\ Later(read[e], known[e])
             /\ known[e].path # NoPath /\ read[e] # known[e] => template[e] # known[e]

(* A file and an asset meet at a path only when the one that was there     *)
(* first has left it.                                                      *)
CrossingsAreOutdated ==
    \A f \in Files, a \in Assets :
        /\ /\ pc \in {"fetch_assets", "make_directory", "files"}
           /\ read[f].path = known[a].path /\ read[f].path # NoPath
           => Seen(a) # known[a]
        /\ /\ pc \in {"make_directory", "files"}
           /\ read[f].path = read[a].path /\ read[f].path # NoPath
           => template[f] # read[f]
        /\ /\ pc = "assets"
           /\ known[f].path = read[a].path /\ known[f].path # NoPath
           => template[f] # known[f]

(* The path of e has the content of this row, as Fresh says it.            *)
OnDisk(e, row) ==
    /\ disk[row.path] # NoFile /\ disk[row.path].id = e /\ ~disk[row.path].torn
    /\ IF e \in Files THEN disk[row.path].version = row.version
                      ELSE disk[row.path].version >= row.version

(* The shortcut may be taken: a row that has not changed is on disk as it  *)
(* is, or not at all, unless its rewriting was cut off or its object was   *)
(* not there.                                                              *)
Intact(e, row) ==
    \/ disk[row.path] = NoFile
    \/ OnDisk(e, row)
    \/ e \in Files /\ row.path \in torn
    \/ e \in Assets /\ e \in missing

UnchangedIsIntact ==
    \A e \in Entries : Row(e).path # NoPath /\ Seen(e) = Row(e) => Intact(e, Row(e))

(* What this refresh has done so far. *)
FileIsHandled(f) ==
    todo \cap ToDelete = {} /\ (Fresh(f, read) \/ read[f].path \in torn)

AssetIsHandled(a) == todo \cap ToDelete = {} /\ Fresh(a, read)

FileIsKnown(f) ==
    \/ Fresh(f, known) \/ known[f].path \in removed \cup torn
    \/ \E a \in Assets : read[a].path = known[f].path

HandledIsFresh ==
    /\ pc = "files" => \A f \in (Present(read) \cap Files) \ todo : FileIsHandled(f)
    /\ pc = "assets" =>
         /\ \A f \in Present(known) \cap Files : FileIsKnown(f)
         /\ \A a \in (Present(read) \cap Assets) \ (todo \cup missing) : AssetIsHandled(a)

(* An entry that was never renamed has had one path. *)
OnePath(one, other) == NoPath \in {one.path, other.path} \/ one.path = other.path

UnmovedHasOnePath ==
    \A e \in Entries \ moved :
        /\ OnePath(template[e], known[e])
        /\ Active(e) => OnePath(template[e], read[e]) /\ OnePath(read[e], known[e])

(* Whatever is in the directory of this process is where its row says. *)
DirectoryIsOwn ==
    ~faults.interrupted /\ (registered \/ pc \in {"files", "assets"}) =>
        \A p \in Paths, e \in Entries :
            disk[p] # NoFile /\ disk[p].id = e => e \in moved \/ Row(e).path = p

IInv ==
    /\ TypeOK /\ Stage
    /\ RowsAreDistinct /\ RowsAreVersioned /\ ObjectsComeFirst
    /\ RowsAreOrdered /\ CrossingsAreOutdated
    /\ UnchangedIsIntact /\ HandledIsFresh /\ TemplateIsFresh
    /\ UnmovedHasOnePath /\ DirectoryIsOwn

-----------------------------------------------------------------------------
(* Types *)

LEMMA EntryType ==
    ASSUME TypeOK, NEW e \in Entries
    PROVE  /\ template[e] \in Entry /\ known[e] \in Entry /\ read[e] \in Entry
           /\ e \in Files \/ e \in Assets
           /\ e \in Files => e \notin Assets
BY TemplateAssumption DEF TypeOK, Entries

LEMMA NothingType == Absent \in Entry /\ Nothing \in [Entries -> Entry]
<1>1. Absent \in Entry
  BY TemplateAssumption DEF Absent, Entry
<1>. QED  BY <1>1 DEF Nothing

LEMMA TypeInit == Init => TypeOK
<1> SUFFICES ASSUME Init PROVE TypeOK
  OBVIOUS
<1>1. template \in [Entries -> Entry] /\ bucket \in [Assets -> 0..MaxVersion]
  BY TemplateAssumption, NothingType DEF Init, Nothing
<1>2. disk \in [Paths -> Content] /\ faults \in [total: 0..MaxFaults, interrupted: BOOLEAN]
  BY TemplateAssumption DEF Init, Content
<1>. QED  BY <1>1, <1>2, NothingType DEF Init, TypeOK, PC

LEMMA TypeServer == TypeOK /\ ServerStep => TypeOK'
<1> SUFFICES ASSUME TypeOK, ServerStep PROVE TypeOK'
  OBVIOUS
<1> USE TemplateAssumption
<1>1. ASSUME NEW e \in Entries, NEW p \in Paths, NEW v \in Nat, Edit(e, p, v) PROVE TypeOK'
  <2>1. [path |-> p, version |-> v] \in Entry
    BY <1>1 DEF Edit, Entry
  <2>2. template' \in [Entries -> Entry] /\ moved' \subseteq Entries
    BY <1>1, <2>1 DEF Edit, TypeOK
  <2>. QED  BY <1>1, <2>2 DEF Edit, TypeOK, Kind
<1>2. CASE EditFile
  <2>1. PICK f \in Files, p \in Paths : Edit(f, p, template[f].version + 1)
    BY <1>2 DEF EditFile
  <2>2. f \in Entries /\ template[f].version + 1 \in Nat
    BY DEF Entries, TypeOK, Entry
  <2>. QED  BY <1>1, <2>1, <2>2
<1>3. CASE EditAsset
  <2>1. PICK a \in Assets, p \in Paths : Edit(a, p, bucket[a])
    BY <1>3 DEF EditAsset
  <2>2. a \in Entries /\ bucket[a] \in Nat
    BY DEF Entries, TypeOK
  <2>. QED  BY <1>1, <2>1, <2>2
<1>4. CASE PutObject
  BY <1>4 DEF PutObject, TypeOK, Kind, historyVars
<1>5. CASE Remove
  <2>1. PICK e \in Present(template) : template' = [template EXCEPT ![e].path = NoPath]
    BY <1>5 DEF Remove
  <2>2. template' \in [Entries -> Entry]
    BY <2>1 DEF Present, TypeOK, Entry
  <2>. QED  BY <1>5, <2>2 DEF Remove, TypeOK, Kind, historyVars
<1>6. CASE RemoveObject
  BY <1>6 DEF RemoveObject, TypeOK, Kind, historyVars
<1>. QED  BY <1>2, <1>3, <1>4, <1>5, <1>6 DEF ServerStep

LEMMA StoreType ==
    ASSUME TypeOK, NEW e \in Present(read), Store(e)
    PROVE  /\ disk' \in [Paths -> Content]
           /\ torn' \subseteq Paths /\ missing' \subseteq Assets
<1>1. e \in Entries /\ read[e].path \in Paths /\ read[e].version \in 0..MaxVersion
  BY DEF Present, TypeOK, Entry
<1>2. CASE e \in Files /\ StoreFile(e)
  <2>1. [id |-> e, version |-> read[e].version, torn |-> FALSE] \in Content
    BY <1>1 DEF Content, Written
  <2>. QED  BY <1>1, <1>2, <2>1 DEF StoreFile, TypeOK
<1>3. CASE e \in Assets /\ StoreAsset(e)
  <2>1. [id |-> e, version |-> bucket[e], torn |-> FALSE] \in Content
    BY <1>1, <1>3 DEF TypeOK, Content, Written
  <2>. QED  BY <1>1, <1>3, <2>1 DEF StoreAsset, TypeOK
<1>. QED  BY <1>2, <1>3 DEF Store

LEMMA TypePrepare == TypeOK /\ PrepareTemplate /\ Stage => TypeOK'
<1> SUFFICES ASSUME TypeOK, PrepareTemplate, Stage PROVE TypeOK'
  OBVIOUS
<1> USE TemplateAssumption
<1>1. CASE FetchFiles
  BY <1>1 DEF FetchFiles, TypeOK, Entry, Entries, Absent, PC, Kind, serverVars, historyVars
<1>2. CASE FetchAssets
  BY <1>2 DEF FetchAssets, TypeOK, Entries, PC, Kind, serverVars, historyVars
<1>3. CASE MakeDirectory
  <2>1. /\ disk' \in [Paths -> Content]
        /\ faults' \in [total: 0..MaxFaults, interrupted: BOOLEAN]
    BY <1>3 DEF MakeDirectory, TypeOK, Content
  <2>. QED  BY <1>3, <2>1, NothingType DEF MakeDirectory, Stage, TypeOK, PC, Kind, serverVars
<1>4. CASE Handle
  <2>1. PICK e \in todo :
          /\ todo' = todo \ {e}
          /\ \/ Delete(e) \/ Add(e) \/ Check(e)
             \/ UNCHANGED <<disk, removed, missing, torn>>
    BY <1>4 DEF Handle
  <2>2. e \in Entries
    BY DEF TypeOK
  <2>3. /\ disk' \in [Paths -> Content]
        /\ torn' \subseteq Paths /\ missing' \subseteq Assets /\ removed' \subseteq Paths
    <3>1. CASE Delete(e)
      <4>1. known[e].path \in Paths
        BY <3>1, <2>2 DEF Delete, ToDelete, Present, TypeOK, Entry
      <4>. QED  BY <3>1, <4>1 DEF Delete, TypeOK, Content
    <3>2. CASE Add(e)
      BY <3>2, StoreType DEF Add, ToAdd, TypeOK
    <3>3. CASE Check(e)
      BY <3>3, StoreType DEF Check, ToCheck, TypeOK
    <3>4. CASE UNCHANGED <<disk, removed, missing, torn>>
      BY <3>4 DEF TypeOK
    <3>. QED  BY <2>1, <3>1, <3>2, <3>3, <3>4
  <2>4. /\ pc \in {"files", "assets"}
        /\ UNCHANGED <<serverVars, registered, known, read, pc, moved, faults>>
    BY <1>4 DEF Handle
  <2>. QED  BY <2>1, <2>3, <2>4 DEF TypeOK, Kind, serverVars
<1>5. CASE FinishFiles
  BY <1>5 DEF FinishFiles, Know, TypeOK, Entries, PC, Kind, serverVars, historyVars
<1>6. CASE FinishAssets
  BY <1>6, NothingType DEF FinishAssets, Know, TypeOK, PC, Kind, serverVars, historyVars
<1>7. CASE Render
  BY <1>7 DEF Render, TypeOK, PC, Kind, serverVars
<1>. QED  BY <1>1, <1>2, <1>3, <1>4, <1>5, <1>6, <1>7 DEF PrepareTemplate

LEMMA TypeFault == TypeOK /\ FaultStep => TypeOK'
<1> SUFFICES ASSUME TypeOK, FaultStep PROVE TypeOK'
  OBVIOUS
<1> USE TemplateAssumption
<1>1. ASSUME Interrupted
      PROVE  /\ faults' \in [total: 0..MaxFaults, interrupted: BOOLEAN]
             /\ read' \in [Entries -> Entry] /\ removed' = {} /\ pc' = "idle" /\ todo' = {}
  BY <1>1, NothingType DEF Interrupted, Fault, TypeOK
<1>2. CASE Interrupt
  BY <1>1, <1>2 DEF Interrupt, TypeOK, PC, serverVars
<1>3. CASE InterruptWrite
  <2>1. PICK f \in todo \cap Present(read) :
          /\ disk' = [disk EXCEPT ![read[f].path] =
                        [id |-> f, version |-> read[f].version, torn |-> TRUE]]
          /\ torn' = IF known[f].version = read[f].version
                     THEN torn \cup {read[f].path} ELSE torn
    BY <1>3 DEF InterruptWrite
  <2>2. f \in Entries /\ read[f].path \in Paths /\ read[f].version \in 0..MaxVersion
    BY DEF Present, TypeOK, Entry
  <2>3. [id |-> f, version |-> read[f].version, torn |-> TRUE] \in Content
    BY <2>2 DEF Content, Written
  <2>4. disk' \in [Paths -> Content] /\ torn' \subseteq Paths
    BY <2>1, <2>2, <2>3 DEF TypeOK
  <2>. QED  BY <1>1, <1>3, <2>4 DEF InterruptWrite, TypeOK, PC, serverVars
<1>4. CASE Crash
  <2>1. faults' \in [total: 0..MaxFaults, interrupted: BOOLEAN]
    BY <1>4 DEF Crash, Fault, TypeOK
  <2>. QED  BY <1>4, <2>1, NothingType DEF Crash, TypeOK, PC, serverVars
<1>5. CASE CleanPath
  BY <1>5 DEF CleanPath, Fault, TypeOK, Content, Kind, serverVars, historyVars
<1>. QED  BY <1>2, <1>3, <1>4, <1>5 DEF FaultStep

LEMMA TypeNext == IInv /\ [Next]_vars => TypeOK'
<1>1. TypeOK /\ UNCHANGED vars => TypeOK'
  BY DEF vars, serverVars, historyVars, TypeOK, Kind
<1>. QED  BY <1>1, TypeServer, TypePrepare, TypeFault DEF IInv, Next

-----------------------------------------------------------------------------
(* Steps of the server *)

LEMMA ServerEffect ==
    ASSUME IInv, ServerStep
    PROVE  /\ UNCHANGED <<registered, known, read, disk, todo, pc, removed, missing,
                          torn, faults>>
           /\ \A e \in Entries : Advances(template'[e], template[e])
           /\ Distinct(template', Entries)
           /\ ObjectsComeFirst'
           /\ moved \subseteq moved'
           /\ \A e \in Entries \ moved' : OnePath(template'[e], template[e])
<1> DEFINE Effect ==
      /\ UNCHANGED <<registered, known, read, disk, todo, pc, removed, missing,
                     torn, faults>>
      /\ \A e \in Entries : Advances(template'[e], template[e])
      /\ Distinct(template', Entries)
      /\ moved \subseteq moved'
      /\ \A e \in Entries \ moved' : OnePath(template'[e], template[e])
<1> USE TemplateAssumption
<1>0. /\ template \in [Entries -> Entry] /\ bucket \in [Assets -> 0..MaxVersion]
      /\ Distinct(template, Entries) /\ ObjectsComeFirst
      /\ \A e \in Entries : Versioned(template[e])
      /\ \A e \in Entries : template[e].version \in Nat
  BY DEF IInv, TypeOK, RowsAreDistinct, RowsAreVersioned, Entry
<1>1. ASSUME NEW e \in Entries, NEW p \in Paths, Edit(e, p, template[e].version + 1)
      PROVE  Effect
  <2>1. /\ \A f \in Entries \ {e} : template'[f] = template[f] /\ template[f].path # p
        /\ template'[e].path = p /\ template'[e].version = template[e].version + 1
        /\ template[e].path # NoPath \/ template[e].version = 0
    BY <1>0, <1>1 DEF Edit, Editable, Free, Present, Entry
  <2>2. Distinct(template', Entries)
    BY <1>0, <2>1 DEF Distinct
  <2>3. \A f \in Entries : Advances(template'[f], template[f])
    BY <1>0, <2>1 DEF Advances, Outdates, Versioned
  <2>4. moved \subseteq moved' /\ \A f \in Entries \ moved' : OnePath(template'[f], template[f])
    BY <1>1, <2>1 DEF Edit, OnePath
  <2>. QED  BY <1>1, <2>2, <2>3, <2>4 DEF Edit
<1>2. CASE EditFile
  <2>1. PICK f \in Files, p \in Paths : Edit(f, p, template[f].version + 1)
    BY <1>2 DEF EditFile
  <2>2. Effect
    BY <1>1, <2>1 DEF Entries
  <2>3. ObjectsComeFirst'
    BY <1>0, <2>1 DEF Edit, ObjectsComeFirst, Entries
  <2>. QED  BY <2>2, <2>3
<1>3. CASE EditAsset
  <2>1. PICK a \in Assets, p \in Paths : bucket[a] = template[a].version + 1 /\ Edit(a, p, bucket[a])
    BY <1>3 DEF EditAsset
  <2>2. Effect
    BY <1>1, <2>1 DEF Entries
  <2>3. ObjectsComeFirst'
    BY <1>0, <2>1 DEF Edit, ObjectsComeFirst, Entries
  <2>. QED  BY <2>2, <2>3
<1>4. CASE Remove
  <2>1. PICK e \in Present(template) : template' = [template EXCEPT ![e].path = NoPath]
    BY <1>4 DEF Remove
  <2>2. /\ e \in Entries /\ template[e].path # NoPath
        /\ \A f \in Entries \ {e} : template'[f] = template[f]
        /\ template'[e].path = NoPath /\ template'[e].version = template[e].version
    BY <1>0, <2>1 DEF Present, Entry
  <2>3. Distinct(template', Entries)
    BY <1>0, <2>2 DEF Distinct
  <2>4. \A f \in Entries : Advances(template'[f], template[f])
    BY <1>0, <2>2 DEF Advances, Outdates, Versioned
  <2>5. \A f \in Entries : OnePath(template'[f], template[f])
    BY <2>2 DEF OnePath
  <2>6. ObjectsComeFirst'
    BY <1>0, <1>4, <2>2 DEF Remove, ObjectsComeFirst, Entries
  <2>. QED  BY <1>4, <2>3, <2>4, <2>5, <2>6 DEF Remove, historyVars
<1>5. CASE PutObject
  <2>1. PICK a \in Assets : bucket[a] = template[a].version /\ bucket' = [bucket EXCEPT ![a] = @ + 1]
    BY <1>5 DEF PutObject
  <2>2. ObjectsComeFirst'
    BY <1>0, <1>5, <2>1 DEF PutObject, ObjectsComeFirst, Entries
  <2>. QED  BY <1>0, <1>5, <2>2 DEF PutObject, historyVars, Advances, OnePath
<1>6. CASE RemoveObject
  <2>1. ObjectsComeFirst'
    BY <1>0, <1>6 DEF RemoveObject, ObjectsComeFirst
  <2>. QED  BY <1>0, <1>6, <2>1 DEF RemoveObject, historyVars, Advances, OnePath
<1>. QED  BY <1>2, <1>3, <1>4, <1>5, <1>6 DEF ServerStep

(* A row stays later than an earlier one, and outdated is for ever. *)
LEMMA LaterAdvances ==
    ASSUME NEW old \in Entry, NEW row \in Entry, NEW new \in Entry,
           Versioned(old), Later(row, old), Advances(new, row)
    PROVE  /\ Later(new, old)
           /\ old.path # NoPath /\ row # old => new # old
BY TemplateAssumption DEF Entry, Versioned, Later, Advances, Outdates

LEMMA OnePathAdvances ==
    ASSUME NEW old \in Entry, NEW row \in Entry, NEW new \in Entry,
           Versioned(old), Later(row, old), Advances(new, row),
           OnePath(new, row), OnePath(row, old)
    PROVE  OnePath(new, old)
BY TemplateAssumption DEF Entry, Versioned, Later, Advances, Outdates, OnePath

LEMMA ServerKeeps == IInv /\ TypeOK' /\ ServerStep => IInv'
<1> SUFFICES ASSUME IInv, TypeOK', ServerStep PROVE IInv'
  OBVIOUS
<1>1. /\ UNCHANGED <<registered, known, read, disk, todo, pc, removed, missing, torn, faults>>
      /\ \A e \in Entries : Advances(template'[e], template[e])
      /\ Distinct(template', Entries)
      /\ ObjectsComeFirst'
      /\ moved \subseteq moved'
      /\ \A e \in Entries \ moved' : OnePath(template'[e], template[e])
  BY ServerEffect
<1>2. /\ RowsAreVersioned /\ RowsAreOrdered /\ CrossingsAreOutdated /\ Stage /\ RowsAreDistinct
      /\ UnchangedIsIntact /\ HandledIsFresh /\ TemplateIsFresh
      /\ UnmovedHasOnePath /\ DirectoryIsOwn /\ TypeOK
  BY DEF IInv
<1>3. \A e \in Entries :
        /\ template[e] \in Entry /\ template'[e] \in Entry
        /\ known[e] \in Entry /\ read[e] \in Entry
        /\ Versioned(template[e]) /\ Versioned(known[e]) /\ Versioned(read[e])
        /\ Active(e)' = Active(e) /\ Handled(e)' = Handled(e) /\ Row(e)' = Row(e)
  BY <1>1, <1>2 DEF TypeOK, RowsAreVersioned, Active, Handled, Row, Kind
<1>4. \A e \in Entries :
        /\ Later(template'[e], known[e])
        /\ known[e].path # NoPath /\ template[e] # known[e] => template'[e] # known[e]
  BY <1>1, <1>2, <1>3, LaterAdvances DEF RowsAreOrdered
<1>5. \A e \in Entries : Active(e) =>
        /\ Later(template'[e], read[e])
        /\ read[e].path # NoPath /\ template[e] # read[e] => template'[e] # read[e]
  BY <1>1, <1>2, <1>3, LaterAdvances DEF RowsAreOrdered
<1>6. Stage' /\ RowsAreDistinct'
  BY <1>1, <1>2 DEF Stage, RowsAreDistinct
<1>7. RowsAreVersioned'
  BY <1>1, <1>3 DEF RowsAreVersioned, Advances, Outdates, Versioned
<1>8. RowsAreOrdered'
  BY <1>1, <1>2, <1>3, <1>4, <1>5 DEF RowsAreOrdered
<1>9. CrossingsAreOutdated'
  <2> SUFFICES ASSUME NEW f \in Files, NEW a \in Assets
               PROVE  /\ /\ pc \in {"fetch_assets", "make_directory", "files"}
                         /\ read[f].path = known[a].path /\ read[f].path # NoPath
                         => Seen(a)' # known[a]
                      /\ /\ pc \in {"make_directory", "files"}
                         /\ read[f].path = read[a].path /\ read[f].path # NoPath
                         => template'[f] # read[f]
                      /\ /\ pc = "assets"
                         /\ known[f].path = read[a].path /\ known[f].path # NoPath
                         => template'[f] # known[f]
    BY <1>1 DEF CrossingsAreOutdated
  <2>1. f \in Entries /\ a \in Entries
    BY DEF Entries
  <2>2. pc \in {"make_directory", "files"} => Active(f)
    BY DEF Active
  <2>3. Seen(a) # known[a] /\ known[a].path # NoPath => Seen(a)' # known[a]
    BY <1>1, <1>3, <1>4, <2>1 DEF Seen
  <2>. QED  BY <1>2, <1>4, <1>5, <2>1, <2>2, <2>3 DEF CrossingsAreOutdated
<1>10. UnchangedIsIntact'
  <2> SUFFICES ASSUME NEW e \in Entries, Row(e).path # NoPath, Seen(e)' = Row(e)
               PROVE  Intact(e, Row(e))'
    BY <1>1, <1>3 DEF UnchangedIsIntact
  <2>1. Seen(e) = Row(e)
    <3>1. CASE Active(e)
      BY <1>1, <1>3, <3>1 DEF Seen
    <3>2. CASE ~Active(e)
      <4>1. Row(e) = known[e]
        BY <3>2, <1>2 DEF Row, Handled, Active, Kind, TypeOK, Entries
      <4>. QED  BY <1>3, <1>4, <3>2, <4>1 DEF Seen
    <3>. QED  BY <3>1, <3>2
  <2>2. Intact(e, Row(e))
    BY <1>2, <2>1 DEF UnchangedIsIntact
  <2>. QED  BY <1>1, <1>3, <2>2 DEF Intact, OnDisk
<1>11. HandledIsFresh' /\ TemplateIsFresh'
  BY <1>1, <1>2 DEF HandledIsFresh, TemplateIsFresh, FileIsHandled, AssetIsHandled, FileIsKnown,
     Fresh, Present, ToDelete, Clash
<1>12. UnmovedHasOnePath'
  <2> SUFFICES ASSUME NEW e \in Entries, e \notin moved'
               PROVE  /\ OnePath(template'[e], known[e])
                      /\ Active(e) => /\ OnePath(template'[e], read[e])
                                      /\ OnePath(read[e], known[e])
    BY <1>1, <1>3 DEF UnmovedHasOnePath
  <2>1. /\ OnePath(template[e], known[e])
        /\ Active(e) => OnePath(template[e], read[e]) /\ OnePath(read[e], known[e])
    BY <1>1, <1>2 DEF UnmovedHasOnePath
  <2>2. /\ Later(template[e], known[e]) /\ (Active(e) => Later(template[e], read[e]))
        /\ Advances(template'[e], template[e]) /\ OnePath(template'[e], template[e])
    BY <1>1, <1>2 DEF RowsAreOrdered
  <2>. QED  BY <1>3, <2>1, <2>2, OnePathAdvances
<1>13. DirectoryIsOwn'
  BY <1>1, <1>2, <1>3 DEF DirectoryIsOwn
<1>. QED  BY <1>1, <1>6, <1>7, <1>8, <1>9, <1>10, <1>11, <1>12, <1>13 DEF IInv

-----------------------------------------------------------------------------
(* Steps of the refresh, but for the rows *)

(* What the shortcut needs, when nothing on disk changes. *)
LEMMA IntactStays ==
    ASSUME UnchangedIsIntact, UNCHANGED <<disk, torn, missing>>,
           \A e \in Entries : Row(e)'.path # NoPath /\ Seen(e)' = Row(e)' =>
               Row(e) = Row(e)' /\ Seen(e) = Row(e)'
    PROVE  UnchangedIsIntact'
<1> SUFFICES ASSUME NEW e \in Entries, Row(e)'.path # NoPath, Seen(e)' = Row(e)'
             PROVE  Intact(e, Row(e))'
  BY DEF UnchangedIsIntact
<1>1. Intact(e, Row(e))
  BY DEF UnchangedIsIntact
<1>. QED  BY <1>1 DEF Intact, OnDisk

LEMMA OwnStays ==
    ASSUME DirectoryIsOwn, UNCHANGED <<disk, moved>>,
           ~faults'.interrupted /\ (registered' \/ pc' \in {"files", "assets"}) =>
               ~faults.interrupted /\ (registered \/ pc \in {"files", "assets"}),
           \A e \in Entries : Row(e)' = Row(e)
    PROVE  DirectoryIsOwn'
BY DEF DirectoryIsOwn

LEMMA FetchFilesKeeps == IInv /\ TypeOK' /\ FetchFiles => IInv'
<1> SUFFICES ASSUME IInv, TypeOK', FetchFiles PROVE IInv'
  OBVIOUS
<1> USE TemplateAssumption
<1>1. /\ RowsAreVersioned /\ RowsAreOrdered /\ RowsAreDistinct /\ ObjectsComeFirst
      /\ UnchangedIsIntact /\ UnmovedHasOnePath /\ DirectoryIsOwn /\ TypeOK
  BY DEF IInv
<1>2. /\ pc = "idle" /\ pc' = "fetch_assets"
      /\ UNCHANGED <<template, bucket, registered, known, disk, todo, removed, missing, torn,
                     moved, faults>>
      /\ \A f \in Files : f \in Entries /\ f \notin Assets /\ read'[f] = template[f]
      /\ \A a \in Assets : a \in Entries /\ a \notin Files /\ read'[a] = Absent
      /\ Absent.path = NoPath
  BY DEF FetchFiles, serverVars, historyVars, Entries, Absent
<1>3. \A e \in Entries :
        /\ Row(e)' = known[e] /\ Row(e) = known[e]
        /\ Seen(e)' = template[e] /\ Seen(e) = template[e]
        /\ Active(e)' => e \in Files
  BY <1>2 DEF Row, Seen, Handled, Active
<1>4. Stage' /\ ObjectsComeFirst'
  BY <1>1, <1>2 DEF Stage, ObjectsComeFirst
<1>5. RowsAreDistinct' /\ RowsAreVersioned'
  BY <1>1, <1>2 DEF RowsAreDistinct, Distinct, RowsAreVersioned, Versioned, Entries
<1>6. RowsAreOrdered'
  BY <1>1, <1>2, <1>3 DEF RowsAreOrdered, Later
<1>7. CrossingsAreOutdated'
  <2> SUFFICES ASSUME NEW f \in Files, NEW a \in Assets,
                      template[f].path = known[a].path, template[f].path # NoPath
               PROVE  template[a] # known[a]
    BY <1>2, <1>3 DEF CrossingsAreOutdated
  <2>. QED  BY <1>1, <1>2 DEF RowsAreDistinct, Distinct
<1>8. UnchangedIsIntact'
  BY <1>1, <1>2, <1>3, IntactStays
<1>9. HandledIsFresh' /\ TemplateIsFresh'
  BY <1>2 DEF HandledIsFresh, TemplateIsFresh
<1>10. UnmovedHasOnePath'
  BY <1>1, <1>2, <1>3 DEF UnmovedHasOnePath, OnePath
<1>11. DirectoryIsOwn'
  BY <1>1, <1>2, <1>3, OwnStays
<1>. QED  BY <1>4, <1>5, <1>6, <1>7, <1>8, <1>9, <1>10, <1>11 DEF IInv

LEMMA FetchAssetsKeeps == IInv /\ TypeOK' /\ FetchAssets => IInv'
<1> SUFFICES ASSUME IInv, TypeOK', FetchAssets PROVE IInv'
  OBVIOUS
<1> USE TemplateAssumption
<1>1. /\ RowsAreVersioned /\ RowsAreOrdered /\ RowsAreDistinct /\ ObjectsComeFirst
      /\ CrossingsAreOutdated /\ UnchangedIsIntact /\ UnmovedHasOnePath /\ DirectoryIsOwn
      /\ TypeOK
  BY DEF IInv
<1>2. /\ pc = "fetch_assets" /\ todo' = Files
      /\ pc' = IF registered THEN "files" ELSE "make_directory"
      /\ UNCHANGED <<template, bucket, registered, known, disk, removed, missing, torn,
                     moved, faults>>
      /\ \A f \in Files : f \in Entries /\ f \notin Assets /\ read'[f] = read[f]
      /\ \A a \in Assets : a \in Entries /\ a \notin Files /\ read'[a] = template[a]
      /\ \A e \in Entries : e \in Files \/ e \in Assets
  BY DEF FetchAssets, serverVars, historyVars, Entries
<1>3. \A e \in Entries :
        /\ Row(e)' = known[e] /\ Row(e) = known[e]
        /\ Seen(e)' = Seen(e) /\ Seen(e)' = read'[e] /\ Active(e)'
        /\ e \in Files => Active(e)
  BY <1>2 DEF Row, Seen, Handled, Active, Kind
<1>4. Stage' /\ ObjectsComeFirst'
  BY <1>1, <1>2 DEF Stage, ObjectsComeFirst
<1>5. RowsAreDistinct' /\ RowsAreVersioned'
  BY <1>1, <1>2 DEF RowsAreDistinct, Distinct, RowsAreVersioned, Versioned
<1>6. RowsAreOrdered'
  BY <1>1, <1>2, <1>3 DEF RowsAreOrdered, Later
<1>7. CrossingsAreOutdated'
  <2> SUFFICES ASSUME NEW f \in Files, NEW a \in Assets, read[f].path # NoPath
               PROVE  /\ read[f].path = known[a].path => Seen(a)' # known[a]
                      /\ read[f].path = template[a].path => template[f] # read[f]
    BY <1>2, <1>3 DEF CrossingsAreOutdated
  <2>1. read[f].path = known[a].path => Seen(a)' # known[a]
    BY <1>1, <1>2, <1>3 DEF CrossingsAreOutdated
  <2>2. read[f].path = template[a].path => template[f] # read[f]
    BY <1>1, <1>2 DEF RowsAreDistinct, Distinct
  <2>. QED  BY <2>1, <2>2
<1>8. UnchangedIsIntact'
  BY <1>1, <1>2, <1>3, IntactStays
<1>9. HandledIsFresh' /\ TemplateIsFresh'
  BY <1>2 DEF HandledIsFresh, TemplateIsFresh
<1>10. UnmovedHasOnePath'
  BY <1>1, <1>2, <1>3 DEF UnmovedHasOnePath, OnePath
<1>11. DirectoryIsOwn'
  BY <1>1, <1>2, <1>3, OwnStays
<1>. QED  BY <1>4, <1>5, <1>6, <1>7, <1>8, <1>9, <1>10, <1>11 DEF IInv

LEMMA MakeDirectoryKeeps == IInv /\ TypeOK' /\ MakeDirectory => IInv'
<1> SUFFICES ASSUME IInv, TypeOK', MakeDirectory PROVE IInv'
  OBVIOUS
<1> USE TemplateAssumption
<1>1. /\ RowsAreVersioned /\ RowsAreOrdered /\ RowsAreDistinct /\ ObjectsComeFirst
      /\ CrossingsAreOutdated /\ UnmovedHasOnePath /\ Stage /\ TypeOK
  BY DEF IInv
<1>2. /\ pc = "make_directory" /\ pc' = "files" /\ todo = Files
      /\ UNCHANGED <<template, bucket, registered, read, todo, removed, moved>>
      /\ \A e \in Entries : known'[e].path = NoPath
      /\ \A f \in Files : f \in Entries
      /\ \A a \in Assets : a \in Entries
      /\ \A p \in Paths : disk'[p] = NoFile
  BY <1>1 DEF MakeDirectory, Stage, serverVars, Entries, Nothing, Absent
<1>3. \A e \in Entries : Row(e)' = known'[e] /\ Active(e)' = Active(e)
  BY <1>2 DEF Row, Handled, Active, Kind
<1>4. Stage' /\ ObjectsComeFirst' /\ RowsAreDistinct'
  BY <1>1, <1>2 DEF Stage, ObjectsComeFirst, RowsAreDistinct
<1>5. RowsAreVersioned'
  BY <1>1, <1>2 DEF RowsAreVersioned, Versioned
<1>6. RowsAreOrdered'
  BY <1>1, <1>2, <1>3 DEF RowsAreOrdered, Later
<1>7. CrossingsAreOutdated'
  BY <1>1, <1>2 DEF CrossingsAreOutdated
<1>8. UnchangedIsIntact'
  BY <1>2, <1>3 DEF UnchangedIsIntact
<1>9. HandledIsFresh' /\ TemplateIsFresh'
  BY <1>2 DEF HandledIsFresh, TemplateIsFresh
<1>10. UnmovedHasOnePath'
  BY <1>1, <1>2, <1>3 DEF UnmovedHasOnePath, OnePath
<1>11. DirectoryIsOwn'
  BY <1>2 DEF DirectoryIsOwn
<1>. QED  BY <1>4, <1>5, <1>6, <1>7, <1>8, <1>9, <1>10, <1>11 DEF IInv

LEMMA FinishFilesKeeps == IInv /\ TypeOK' /\ FinishFiles => IInv'
<1> SUFFICES ASSUME IInv, TypeOK', FinishFiles PROVE IInv'
  OBVIOUS
<1> USE TemplateAssumption
<1>1. /\ RowsAreVersioned /\ RowsAreOrdered /\ RowsAreDistinct /\ ObjectsComeFirst
      /\ CrossingsAreOutdated /\ UnchangedIsIntact /\ HandledIsFresh
      /\ UnmovedHasOnePath /\ DirectoryIsOwn /\ TypeOK
  BY DEF IInv
<1>2. /\ pc = "files" /\ pc' = "assets" /\ todo = {} /\ todo' = Assets
      /\ UNCHANGED <<template, bucket, registered, read, disk, removed, missing, torn,
                     moved, faults>>
      /\ \A f \in Files : f \in Entries /\ f \notin Assets /\ known'[f] = read[f]
      /\ \A a \in Assets : a \in Entries /\ a \notin Files /\ known'[a] = known[a]
      /\ \A e \in Entries : e \in Files \/ e \in Assets
  BY DEF FinishFiles, Know, serverVars, historyVars, Entries
<1>3. \A e \in Entries :
        /\ Row(e)' = known'[e] /\ Row(e) = known'[e]
        /\ Active(e) /\ (Active(e)' <=> e \in Assets)
        /\ Seen(e) = read[e]
        /\ Seen(e)' = IF e \in Files THEN template[e] ELSE read[e]
  BY <1>2 DEF Row, Seen, Handled, Active, Kind
<1>4. Stage' /\ ObjectsComeFirst' /\ RowsAreDistinct'
  BY <1>1, <1>2 DEF Stage, ObjectsComeFirst, RowsAreDistinct
<1>5. RowsAreVersioned'
  BY <1>1, <1>2 DEF RowsAreVersioned, Versioned
<1>6. RowsAreOrdered'
  BY <1>1, <1>2, <1>3 DEF RowsAreOrdered
<1>7. CrossingsAreOutdated'
  BY <1>1, <1>2 DEF CrossingsAreOutdated
<1>8. UnchangedIsIntact'
  BY <1>1, <1>2, <1>3, IntactStays
<1>9. HandledIsFresh'
  <2>1. ASSUME NEW f \in Present(known') \cap Files PROVE FileIsKnown(f)'
    <3>1. f \in (Present(read) \cap Files) \ todo
      BY <1>2 DEF Present
    <3>2. FileIsHandled(f)
      BY <1>1, <1>2, <3>1 DEF HandledIsFresh
    <3>. QED  BY <1>2, <3>2 DEF FileIsHandled, FileIsKnown, Fresh
  <2>. QED  BY <1>2, <2>1 DEF HandledIsFresh, Present
<1>10. TemplateIsFresh'
  BY <1>2 DEF TemplateIsFresh
<1>11. UnmovedHasOnePath'
  BY <1>1, <1>2, <1>3 DEF UnmovedHasOnePath
<1>12. DirectoryIsOwn'
  BY <1>1, <1>2, <1>3, OwnStays
<1>. QED  BY <1>4, <1>5, <1>6, <1>7, <1>8, <1>9, <1>10, <1>11, <1>12 DEF IInv

LEMMA FinishAssetsKeeps == IInv /\ TypeOK' /\ FinishAssets => IInv'
<1> SUFFICES ASSUME IInv, TypeOK', FinishAssets PROVE IInv'
  OBVIOUS
<1> USE TemplateAssumption
<1>1. /\ RowsAreVersioned /\ RowsAreOrdered /\ RowsAreDistinct /\ ObjectsComeFirst
      /\ UnchangedIsIntact /\ HandledIsFresh /\ UnmovedHasOnePath /\ DirectoryIsOwn
      /\ TypeOK
  BY DEF IInv
<1>2. /\ pc = "assets" /\ pc' = "ready" /\ todo = {}
      /\ UNCHANGED <<template, bucket, todo, disk, removed, missing, torn, moved, faults>>
      /\ \A f \in Files : f \in Entries /\ f \notin Assets /\ known'[f] = known[f]
      /\ \A a \in Assets : a \in Entries /\ a \notin Files /\ known'[a] = read[a]
      /\ \A e \in Entries : (e \in Files \/ e \in Assets) /\ read'[e].path = NoPath
  BY DEF FinishAssets, Know, serverVars, historyVars, Entries, Nothing, Absent
<1>3. \A e \in Entries :
        /\ Row(e)' = known'[e] /\ Row(e) = known'[e]
        /\ (Active(e) <=> e \in Assets) /\ ~Active(e)'
        /\ Seen(e) = IF e \in Files THEN template[e] ELSE read[e]
        /\ Seen(e)' = template[e]
  BY <1>2 DEF Row, Seen, Handled, Active, Kind
<1>4. Stage' /\ ObjectsComeFirst' /\ RowsAreDistinct'
  BY <1>1, <1>2 DEF Stage, ObjectsComeFirst, RowsAreDistinct, Distinct
<1>5. RowsAreVersioned'
  BY <1>1, <1>2 DEF RowsAreVersioned, Versioned
<1>6. RowsAreOrdered'
  BY <1>1, <1>2, <1>3 DEF RowsAreOrdered
<1>7. CrossingsAreOutdated' /\ HandledIsFresh'
  BY <1>2 DEF CrossingsAreOutdated, HandledIsFresh
<1>8. UnchangedIsIntact'
  BY <1>1, <1>2, <1>3, IntactStays
<1>9. TemplateIsFresh'
  <2>1. ASSUME NEW f \in Present(known') \cap Files
        PROVE  Fresh(f, known)' \/ known'[f].path \in removed' \cup torn' \/ Clash(f)'
    <3>1. f \in Present(known) \cap Files /\ known'[f].path # NoPath
      BY <1>2 DEF Present
    <3>2. FileIsKnown(f)
      BY <1>1, <1>2, <3>1 DEF HandledIsFresh
    <3>3. ASSUME NEW a \in Assets, read[a].path = known[f].path PROVE Clash(f)'
      BY <1>2, <3>1, <3>3 DEF Clash, Present
    <3>. QED  BY <1>2, <3>2, <3>3 DEF FileIsKnown, Fresh
  <2>2. ASSUME NEW a \in (Present(known') \cap Assets) \ missing PROVE Fresh(a, known)'
    <3>1. a \in (Present(read) \cap Assets) \ (todo \cup missing)
      BY <1>2 DEF Present
    <3>2. AssetIsHandled(a)
      BY <1>1, <1>2, <3>1 DEF HandledIsFresh
    <3>. QED  BY <1>2, <3>2 DEF AssetIsHandled, Fresh
  <2>. QED  BY <1>2, <2>1, <2>2 DEF TemplateIsFresh, Present
<1>10. UnmovedHasOnePath'
  BY <1>1, <1>2, <1>3 DEF UnmovedHasOnePath
<1>11. DirectoryIsOwn'
  BY <1>1, <1>2, <1>3, OwnStays
<1>. QED  BY <1>4, <1>5, <1>6, <1>7, <1>8, <1>9, <1>10, <1>11 DEF IInv

LEMMA RenderKeeps == IInv /\ TypeOK' /\ Render => IInv'
<1> SUFFICES ASSUME IInv, TypeOK', Render PROVE IInv'
  OBVIOUS
<1>1. /\ RowsAreVersioned /\ RowsAreOrdered /\ RowsAreDistinct /\ ObjectsComeFirst
      /\ UnchangedIsIntact /\ UnmovedHasOnePath /\ DirectoryIsOwn /\ TypeOK
  BY DEF IInv
<1>2. /\ pc = "ready" /\ pc' = "idle"
      /\ UNCHANGED <<template, bucket, registered, known, read, disk, todo, missing, torn,
                     moved, faults>>
  BY DEF Render, serverVars
<1>3. \A e \in Entries :
        /\ Row(e)' = known[e] /\ Row(e) = known[e] /\ ~Active(e)'
        /\ Seen(e) = template[e] /\ Seen(e)' = template[e]
  BY <1>2 DEF Row, Seen, Handled, Active
<1>4. Stage' /\ ObjectsComeFirst' /\ RowsAreDistinct' /\ RowsAreVersioned'
  BY <1>1, <1>2 DEF Stage, ObjectsComeFirst, RowsAreDistinct, RowsAreVersioned
<1>5. RowsAreOrdered' /\ UnmovedHasOnePath'
  BY <1>1, <1>2, <1>3 DEF RowsAreOrdered, UnmovedHasOnePath
<1>6. CrossingsAreOutdated' /\ HandledIsFresh' /\ TemplateIsFresh'
  BY <1>2 DEF CrossingsAreOutdated, HandledIsFresh, TemplateIsFresh
<1>7. UnchangedIsIntact'
  BY <1>1, <1>2, <1>3, IntactStays
<1>8. DirectoryIsOwn'
  BY <1>1, <1>2, <1>3, OwnStays
<1>. QED  BY <1>4, <1>5, <1>6, <1>7, <1>8 DEF IInv

-----------------------------------------------------------------------------
(* Rows of the refresh *)

(* What handling row e does to the directory. *)
Unlinks(e) ==
    /\ e \in Present(known) \ Present(read)
    /\ \A p \in Paths : disk'[p] = IF p = known[e].path THEN NoFile ELSE disk[p]
    /\ UNCHANGED <<missing, torn>>
    /\ removed \subseteq removed' /\ (e \in Assets => known[e].path \in removed')

Writes(e) ==
    /\ e \in Present(read) /\ todo \cap ToDelete = {}
    /\ OnDisk(e, read[e])'
    /\ \A p \in Paths \ {read[e].path} : disk'[p] = disk[p]
    /\ torn' = torn \ {read[e].path} /\ missing' = missing \ {e}
    /\ UNCHANGED removed

Skips(e) ==
    /\ e \in Present(read) /\ todo \cap ToDelete = {}
    /\ \/ e \in Assets /\ missing' = missing \cup {e}
       \/ e \in Present(known) /\ Unchanged(e) /\ UNCHANGED missing
    /\ UNCHANGED <<disk, torn, removed>>

Ignores(e) ==
    /\ e \notin Present(known) \cup Present(read)
    /\ UNCHANGED <<disk, removed, missing, torn>>

LEMMA StoreEffect ==
    ASSUME TypeOK, RowsAreVersioned, ObjectsComeFirst, NEW e \in Present(read),
           Later(template[e], read[e]), todo \cap ToDelete = {}, Store(e),
           UNCHANGED <<read, removed>>
    PROVE  Writes(e) \/ Skips(e)
<1> USE TemplateAssumption
<1>1. /\ e \in Entries /\ read[e] \in Entry /\ template[e] \in Entry
      /\ read[e].path \in Paths /\ read[e].version # 0
      /\ disk \in [Paths -> Content] /\ missing \subseteq Assets
      /\ template[e].version >= read[e].version
  BY DEF Present, TypeOK, Entry, RowsAreVersioned, Versioned, Later, Outdates
<1>2. ASSUME NEW v \in 0..MaxVersion, NEW c, c = [id |-> e, version |-> v, torn |-> FALSE],
             disk' = [disk EXCEPT ![read[e].path] = c],
             IF e \in Files THEN v = read[e].version ELSE v >= read[e].version
      PROVE  /\ OnDisk(e, read[e])'
             /\ \A p \in Paths \ {read[e].path} : disk'[p] = disk[p]
  <2>1. c.id = e /\ c.version = v /\ ~c.torn
    BY <1>2
  <2>2. c # NoFile
    <3>1. [id |-> e, version |-> v, torn |-> FALSE] \in Written
      BY <1>1 DEF Written
    <3>. QED  BY <1>2, <3>1
  <2>3. disk'[read[e].path] = c
    BY <1>1, <1>2
  <2>. QED  BY <1>1, <1>2, <2>1, <2>2, <2>3 DEF OnDisk
<1>3. CASE e \in Files /\ StoreFile(e)
  <2>1. e \notin missing /\ e \notin Assets /\ read[e].version \in 0..MaxVersion
    BY <1>1, <1>3 DEF Entry
  <2>2. /\ OnDisk(e, read[e])'
        /\ \A p \in Paths \ {read[e].path} : disk'[p] = disk[p]
    BY <1>2, <1>3, <2>1 DEF StoreFile
  <2>. QED  BY <1>3, <2>1, <2>2 DEF StoreFile, Writes
<1>4. CASE e \in Assets /\ StoreAsset(e) /\ ~Downloaded(e)
  BY <1>4 DEF StoreAsset, Skips
<1>5. CASE e \in Assets /\ StoreAsset(e) /\ Downloaded(e)
  <2>1. /\ e \notin Files /\ bucket[e] \in 0..MaxVersion
        /\ bucket[e] >= read[e].version
    BY <1>1, <1>5 DEF TypeOK, Downloaded, ObjectsComeFirst, Entry
  <2>2. /\ OnDisk(e, read[e])'
        /\ \A p \in Paths \ {read[e].path} : disk'[p] = disk[p]
    BY <1>2, <1>5, <2>1 DEF StoreAsset
  <2>. QED  BY <1>5, <2>2 DEF StoreAsset, Writes
<1>. QED  BY <1>3, <1>4, <1>5 DEF Store

LEMMA HandleEffect ==
    ASSUME IInv, Handle
    PROVE  /\ pc \in {"files", "assets"}
           /\ UNCHANGED <<template, bucket, registered, known, read, pc, moved, faults>>
           /\ \E e \in todo :
                /\ todo' = todo \ {e}
                /\ Unlinks(e) \/ Writes(e) \/ Skips(e) \/ Ignores(e)
<1>1. /\ TypeOK /\ RowsAreVersioned /\ ObjectsComeFirst /\ RowsAreOrdered
  BY DEF IInv
<1>2. /\ pc \in {"files", "assets"}
      /\ UNCHANGED <<template, bucket, registered, known, read, pc, moved, faults>>
  BY DEF Handle, serverVars
<1>3. PICK e \in todo :
        /\ todo' = todo \ {e}
        /\ \/ Delete(e) \/ Add(e) \/ Check(e)
           \/ /\ e \notin Present(known) \cup Present(read)
              /\ UNCHANGED <<disk, removed, missing, torn>>
  BY DEF Handle
<1>4. e \in Entries /\ Later(template[e], read[e])
  BY <1>1, <1>2, <1>3 DEF TypeOK, Kind, RowsAreOrdered, Active, Entries
<1>5. CASE Delete(e)
  <2>1. e \in Present(known) \ Present(read) /\ disk' = [disk EXCEPT ![known[e].path] = NoFile]
    BY <1>5 DEF Delete, ToDelete
  <2>2. \A p \in Paths : disk'[p] = IF p = known[e].path THEN NoFile ELSE disk[p]
    BY <1>1, <2>1 DEF TypeOK
  <2>. QED  BY <1>2, <1>3, <1>5, <2>1, <2>2 DEF Delete, Unlinks
<1>6. CASE Add(e)
  <2>1. e \in Present(read) /\ todo \cap ToDelete = {} /\ Store(e) /\ UNCHANGED removed
    BY <1>6 DEF Add, ToAdd
  <2>. QED  BY <1>1, <1>2, <1>3, <1>4, <2>1, StoreEffect
<1>7. CASE Check(e)
  <2>1. /\ e \in Present(read) /\ e \in Present(known) /\ todo \cap ToDelete = {}
        /\ UNCHANGED removed
        /\ IF Unchanged(e) THEN UNCHANGED <<disk, missing, torn>> ELSE Store(e)
    BY <1>7 DEF Check, ToCheck
  <2>2. CASE Unchanged(e)
    <3>1. Skips(e)
      BY <2>1, <2>2 DEF Skips
    <3>. QED  BY <1>2, <1>3, <3>1
  <2>3. CASE Store(e)
    BY <1>1, <1>2, <1>3, <1>4, <2>1, <2>3, StoreEffect
  <2>. QED  BY <2>1, <2>2, <2>3
<1>. QED  BY <1>2, <1>3, <1>5, <1>6, <1>7 DEF Ignores

(* The row at whose path e is written is the only one there that may be    *)
(* trusted; e is a file in the phase of the files, an asset in that of the *)
(* assets.                                                                 *)
LEMMA WrittenPathIsFree ==
    ASSUME IInv, pc \in {"files", "assets"}, NEW e \in todo, NEW g \in Entries \ {e},
           read[e].path # NoPath, Row(g).path = read[e].path, Seen(g) = Row(g)
    PROVE  FALSE
<1>1. TypeOK /\ RowsAreDistinct /\ CrossingsAreOutdated
  BY DEF IInv
<1>2. (g \in Files \/ g \in Assets) /\ (g \in Files => g \notin Assets)
  BY <1>1, EntryType
<1>3. CASE pc = "files"
  <2>1. e \in Files /\ Seen(g) = read[g]
    BY <1>1, <1>2, <1>3 DEF TypeOK, Kind, Seen, Active
  <2>2. CASE g \in Files
    BY <1>1, <2>1, <2>2 DEF RowsAreDistinct, Distinct
  <2>3. CASE g \in Assets
    <3>1. Row(g) = known[g]
      BY <1>2, <1>3, <2>3 DEF Row, Handled, Kind
    <3>. QED  BY <1>1, <1>3, <2>1, <2>3, <3>1 DEF CrossingsAreOutdated
  <2>. QED  BY <1>2, <2>2, <2>3
<1>4. CASE pc = "assets"
  <2>1. e \in Assets
    BY <1>1, <1>4 DEF TypeOK, Kind
  <2>2. CASE g \in Assets
    <3>1. Seen(g) = read[g]
      BY <1>4, <2>2 DEF Seen, Active
    <3>. QED  BY <1>1, <2>1, <2>2, <3>1 DEF RowsAreDistinct, Distinct
  <2>3. CASE g \in Files
    <3>1. Row(g) = known[g] /\ Seen(g) = template[g]
      BY <1>2, <1>4, <2>3 DEF Row, Handled, Kind, Seen, Active
    <3>. QED  BY <1>1, <1>4, <2>1, <2>3, <3>1 DEF CrossingsAreOutdated
  <2>. QED  BY <1>2, <2>2, <2>3
<1>. QED  BY <1>3, <1>4

(* The shortcut is right: equal versions are equal rows. *)
LEMMA UnchangedIsSame ==
    ASSUME IInv, NEW e \in Entries, Active(e), e \in Present(known), e \in Present(read),
           Unchanged(e)
    PROVE  read[e] = known[e]
BY EntryType DEF IInv, RowsAreOrdered, Later, Outdates, Unchanged, Present, Entry

LEMMA HandleKeeps == IInv /\ TypeOK' /\ Handle => IInv'
<1> SUFFICES ASSUME IInv, TypeOK', Handle PROVE IInv'
  OBVIOUS
<1> USE TemplateAssumption
<1>1. /\ RowsAreVersioned /\ RowsAreOrdered /\ RowsAreDistinct /\ ObjectsComeFirst
      /\ CrossingsAreOutdated /\ UnchangedIsIntact /\ HandledIsFresh
      /\ UnmovedHasOnePath /\ DirectoryIsOwn /\ TypeOK
  BY DEF IInv
<1>2. /\ pc \in {"files", "assets"}
      /\ UNCHANGED <<template, bucket, registered, known, read, pc, moved, faults>>
  BY HandleEffect
<1>3. PICK e \in todo :
        /\ todo' = todo \ {e}
        /\ Unlinks(e) \/ Writes(e) \/ Skips(e) \/ Ignores(e)
  BY HandleEffect
<1>4. /\ e \in Entries /\ e \in Kind /\ Active(e) /\ Row(e) = known[e] /\ Row(e)' = read[e]
      /\ Seen(e) = read[e] /\ Seen(e)' = read[e]
      /\ pc = "files" <=> e \in Files
  BY <1>1, <1>2, <1>3 DEF TypeOK, Kind, Entries, Row, Handled, Seen, Active
<1>5. \A g \in Entries :
        /\ Active(g)' = Active(g) /\ Seen(g)' = Seen(g)
        /\ g # e => Row(g)' = Row(g)
  BY <1>2, <1>3 DEF Row, Handled, Seen, Active, Kind
<1>6. Stage' /\ RowsAreDistinct' /\ RowsAreVersioned' /\ ObjectsComeFirst'
  BY <1>1, <1>2 DEF Stage, RowsAreDistinct, RowsAreVersioned, ObjectsComeFirst
<1>7. RowsAreOrdered' /\ UnmovedHasOnePath'
  BY <1>1, <1>2, <1>5 DEF RowsAreOrdered, UnmovedHasOnePath
<1>8. CrossingsAreOutdated'
  BY <1>1, <1>2, <1>5 DEF CrossingsAreOutdated, Entries
<1>9. UnchangedIsIntact'
  <2> SUFFICES ASSUME NEW g \in Entries, Row(g)'.path # NoPath, Seen(g)' = Row(g)'
               PROVE  Intact(g, Row(g))'
    BY DEF UnchangedIsIntact
  <2>1. CASE g = e
    <3>1. e \in Present(read)
      BY <1>2, <1>4, <2>1 DEF Present
    <3>2. CASE Writes(e)
      BY <1>2, <1>4, <2>1, <3>2 DEF Writes, Intact, OnDisk
    <3>3. CASE Skips(e) /\ e \in Assets /\ missing' = missing \cup {e}
      BY <1>2, <2>1, <3>3 DEF Intact
    <3>4. CASE Skips(e) /\ e \in Present(known) /\ Unchanged(e) /\ UNCHANGED missing
      <4>1. read[e] = known[e]
        BY <1>4, <3>1, <3>4, UnchangedIsSame
      <4>2. Intact(e, read[e])
        BY <1>1, <1>4, <3>4, <4>1 DEF UnchangedIsIntact, Present
      <4>. QED  BY <1>2, <1>4, <2>1, <3>4, <4>2 DEF Skips, Intact, OnDisk
    <3>. QED  BY <1>3, <3>1, <3>2, <3>3, <3>4 DEF Skips, Unlinks, Ignores
  <2>2. CASE g # e
    <3>1. /\ Row(g)' = Row(g) /\ Row(g).path # NoPath /\ Seen(g) = Row(g)
          /\ Row(g) \in Entry /\ Row(g).path \in Paths
      BY <1>1, <1>5, <2>2, EntryType DEF Row, Entry
    <3>2. Intact(g, Row(g))
      BY <1>1, <3>1 DEF UnchangedIsIntact
    <3>3. CASE Unlinks(e)
      BY <3>1, <3>2, <3>3 DEF Unlinks, Intact, OnDisk
    <3>4. CASE Writes(e)
      <4>1. Row(g).path # read[e].path
        BY <1>2, <1>3, <2>2, <3>1, WrittenPathIsFree
      <4>. QED  BY <2>2, <3>1, <3>2, <3>4, <4>1 DEF Writes, Intact, OnDisk
    <3>5. CASE Skips(e) \/ Ignores(e)
      BY <3>1, <3>2, <3>5 DEF Skips, Ignores, Intact, OnDisk
    <3>. QED  BY <1>3, <3>3, <3>4, <3>5
  <2>. QED  BY <2>1, <2>2
<1>10. HandledIsFresh'
  <2>1. todo' \subseteq todo /\ ToDelete' = ToDelete /\ Present(read)' = Present(read)
        /\ Present(known)' = Present(known)
    BY <1>2, <1>3 DEF ToDelete, Present
  <2>2. ASSUME e \in Present(read), e \in Present(known), Unchanged(e), Skips(e)
        PROVE  /\ e \in Files => OnDisk(e, read[e])' \/ read[e].path \in torn'
               /\ e \in Assets => e \in missing' \/ OnDisk(e, read[e])'
    <3>1. read[e] = known[e] /\ disk[read[e].path] # NoFile
      BY <1>4, <2>2, UnchangedIsSame DEF Unchanged
    <3>2. Intact(e, read[e])
      BY <1>1, <1>4, <2>2, <3>1 DEF UnchangedIsIntact, Present
    <3>. QED  BY <1>1, <1>2, <1>4, <2>2, <3>1, <3>2, EntryType DEF Skips, Intact, OnDisk
  <2>3. ASSUME pc = "files", NEW f \in (Present(read) \cap Files) \ todo' PROVE FileIsHandled(f)'
    <3>1. CASE f = e
      BY <1>2, <1>3, <1>4, <2>1, <2>2, <2>3, <3>1, EntryType, <1>1
         DEF Writes, Skips, Unlinks, Ignores, FileIsHandled, Fresh, OnDisk
    <3>2. CASE f # e
      <4>1. FileIsHandled(f) /\ f \in Entries /\ read[f].path # NoPath
        BY <1>1, <1>3, <2>3, <3>2 DEF HandledIsFresh, Present
      <4>2. CASE Unlinks(e)
        BY <1>3, <4>1, <4>2 DEF FileIsHandled, ToDelete, Unlinks
      <4>3. CASE Writes(e)
        <5>1. read[f].path \in Paths /\ read[f].path # read[e].path
          BY <1>1, <1>4, <2>3, <3>2, <4>1, EntryType DEF RowsAreDistinct, Distinct, Entry
        <5>. QED  BY <1>2, <1>3, <2>1, <4>1, <4>3, <5>1 DEF Writes, FileIsHandled, Fresh
      <4>4. CASE Skips(e) \/ Ignores(e)
        BY <1>2, <1>3, <2>1, <4>1, <4>4 DEF Skips, Ignores, FileIsHandled, Fresh
      <4>. QED  BY <1>3, <4>2, <4>3, <4>4
    <3>. QED  BY <3>1, <3>2
  <2>4. ASSUME pc = "assets", NEW f \in Present(known) \cap Files PROVE FileIsKnown(f)'
    <3>1. FileIsKnown(f) /\ f \in Entries /\ known[f].path \in Paths
      BY <1>1, <2>4, EntryType DEF HandledIsFresh, Present, Entry
    <3>2. e \in Assets
      BY <1>1, <1>3, <2>4 DEF TypeOK, Kind
    <3>3. CASE Unlinks(e)
      BY <1>2, <3>1, <3>2, <3>3 DEF Unlinks, FileIsKnown, Fresh
    <3>4. CASE Writes(e)
      BY <1>2, <3>1, <3>2, <3>4 DEF Writes, FileIsKnown, Fresh
    <3>5. CASE Skips(e) \/ Ignores(e)
      BY <1>2, <3>1, <3>5 DEF Skips, Ignores, FileIsKnown, Fresh
    <3>. QED  BY <1>3, <3>3, <3>4, <3>5
  <2>5. ASSUME pc = "assets", NEW a \in (Present(read) \cap Assets) \ (todo' \cup missing')
        PROVE  AssetIsHandled(a)'
    <3>1. CASE a = e
      BY <1>2, <1>3, <1>4, <2>1, <2>2, <2>5, <3>1, EntryType, <1>1
         DEF Writes, Skips, Unlinks, Ignores, AssetIsHandled, Fresh, OnDisk
    <3>2. CASE a # e
      <4>1. a \in Entries /\ read[a].path # NoPath /\ a \notin todo /\ a \notin missing
        BY <1>3, <2>5, <3>2 DEF Present, Writes, Skips, Unlinks, Ignores
      <4>2. AssetIsHandled(a)
        BY <1>1, <2>5, <4>1 DEF HandledIsFresh
      <4>3. CASE Unlinks(e)
        BY <1>3, <4>2, <4>3 DEF AssetIsHandled, ToDelete, Unlinks
      <4>4. CASE Writes(e)
        <5>1. e \in Assets
          BY <1>1, <1>3, <2>5 DEF TypeOK, Kind
        <5>2. read[a].path \in Paths /\ read[a].path # read[e].path
          BY <1>1, <1>4, <2>5, <3>2, <4>1, <5>1, EntryType DEF RowsAreDistinct, Distinct, Entry
        <5>. QED  BY <1>2, <1>3, <2>1, <4>2, <4>4, <5>2 DEF Writes, AssetIsHandled, Fresh
      <4>5. CASE Skips(e) \/ Ignores(e)
        BY <1>2, <1>3, <2>1, <4>2, <4>5 DEF Skips, Ignores, AssetIsHandled, Fresh
      <4>. QED  BY <1>3, <4>3, <4>4, <4>5
    <3>. QED  BY <3>1, <3>2
  <2>. QED  BY <1>2, <2>1, <2>3, <2>4, <2>5 DEF HandledIsFresh
<1>11. TemplateIsFresh'
  BY <1>2 DEF TemplateIsFresh
<1>12. DirectoryIsOwn'
  <2> SUFFICES ASSUME ~faults.interrupted, NEW p \in Paths, NEW g \in Entries,
                      disk'[p] # NoFile, disk'[p].id = g
               PROVE  g \in moved \/ Row(g)'.path = p
    BY <1>2 DEF DirectoryIsOwn
  <2>1. disk[p] # NoFile /\ disk[p].id = g => g \in moved \/ Row(g).path = p
    BY <1>1, <1>2 DEF DirectoryIsOwn
  <2>2. CASE Writes(e) /\ p = read[e].path
    BY <1>2, <1>4, <2>2 DEF Writes, OnDisk
  <2>3. CASE ~(Writes(e) /\ p = read[e].path)
    <3>1. disk'[p] = disk[p] /\ (Unlinks(e) => p # known[e].path)
      BY <1>3, <2>3 DEF Unlinks, Writes, Skips, Ignores
    <3>2. CASE g # e
      BY <1>5, <2>1, <3>1, <3>2
    <3>3. CASE g = e /\ e \notin moved
      <4>1. known[e].path = p /\ p # NoPath
        BY <1>4, <2>1, <3>1, <3>3
      <4>2. OnePath(read[e], known[e])
        BY <1>1, <1>4, <3>3 DEF UnmovedHasOnePath
      <4>3. e \in Present(known) /\ e \in Present(read)
        BY <1>3, <1>4, <3>1, <4>1 DEF Unlinks, Writes, Skips, Ignores, Present
      <4>. QED  BY <1>4, <3>1, <3>3, <4>1, <4>2, <4>3 DEF OnePath, Present
    <3>. QED  BY <3>1, <3>2, <3>3
  <2>. QED  BY <2>2, <2>3
<1>. QED  BY <1>6, <1>7, <1>8, <1>9, <1>10, <1>11, <1>12 DEF IInv

-----------------------------------------------------------------------------
(* Faults *)

(* Of a row that has not changed, the process knows the same as it has     *)
(* read; so an interrupted refresh may have written it or not.             *)
LEMMA KnownIsRow ==
    ASSUME IInv, NEW e \in Entries, known[e].path # NoPath, template[e] = known[e]
    PROVE  Row(e) = known[e] /\ Seen(e) = known[e]
<1>1. Active(e) => read[e] = known[e]
  BY DEF IInv, RowsAreOrdered
<1>2. ~Active(e) => ~Handled(e)
  BY TemplateAssumption DEF Active, Handled, Kind
<1>. QED  BY <1>1, <1>2 DEF Row, Seen

(* What holds between two jobs whatever the refresh was interrupted at. *)
LEMMA IdleKeeps ==
    ASSUME IInv, TypeOK', pc' = "idle", UNCHANGED <<template, bucket, known, moved>>,
           read' = Nothing, UnchangedIsIntact', DirectoryIsOwn'
    PROVE  IInv'
<1>1. /\ RowsAreVersioned /\ RowsAreOrdered /\ RowsAreDistinct /\ ObjectsComeFirst
      /\ UnmovedHasOnePath
  BY DEF IInv
<1>2. \A e \in Entries : read'[e].path = NoPath /\ ~Active(e)'
  BY DEF Nothing, Absent, Active
<1>3. Stage' /\ ObjectsComeFirst' /\ RowsAreVersioned'
  BY <1>1, <1>2 DEF Stage, ObjectsComeFirst, RowsAreVersioned, Versioned
<1>4. RowsAreDistinct'
  BY <1>1, <1>2 DEF RowsAreDistinct, Distinct, Entries
<1>5. RowsAreOrdered' /\ UnmovedHasOnePath'
  BY <1>1, <1>2 DEF RowsAreOrdered, UnmovedHasOnePath
<1>6. CrossingsAreOutdated' /\ HandledIsFresh' /\ TemplateIsFresh'
  BY DEF CrossingsAreOutdated, HandledIsFresh, TemplateIsFresh
<1>. QED  BY <1>3, <1>4, <1>5, <1>6 DEF IInv

LEMMA InterruptKeeps == IInv /\ TypeOK' /\ Interrupt => IInv'
<1> SUFFICES ASSUME IInv, TypeOK', Interrupt PROVE IInv'
  OBVIOUS
<1>1. /\ pc' = "idle" /\ read' = Nothing /\ faults'.interrupted
      /\ UNCHANGED <<template, bucket, known, disk, missing, torn, moved>>
  BY DEF Interrupt, Interrupted, serverVars
<1>2. DirectoryIsOwn'
  BY <1>1 DEF DirectoryIsOwn
<1>3. \A e \in Entries : Row(e)' = known[e] /\ Seen(e)' = template[e]
  BY <1>1 DEF Row, Seen, Handled, Active
<1>4. UnchangedIsIntact'
  BY <1>1, <1>3, KnownIsRow, IntactStays DEF IInv
<1>. QED  BY <1>1, <1>2, <1>4, IdleKeeps

LEMMA InterruptWriteKeeps == IInv /\ TypeOK' /\ InterruptWrite => IInv'
<1> SUFFICES ASSUME IInv, TypeOK', InterruptWrite PROVE IInv'
  OBVIOUS
<1>1. /\ pc = "files" /\ pc' = "idle" /\ read' = Nothing /\ faults'.interrupted
      /\ UNCHANGED <<template, bucket, known, missing, moved>>
  BY DEF InterruptWrite, Interrupted, serverVars
<1>2. PICK f \in todo \cap Present(read) :
        /\ disk' = [disk EXCEPT ![read[f].path] =
                      [id |-> f, version |-> read[f].version, torn |-> TRUE]]
        /\ torn' = IF known[f].version = read[f].version
                   THEN torn \cup {read[f].path} ELSE torn
  BY DEF InterruptWrite
<1>3. TypeOK /\ RowsAreOrdered /\ UnchangedIsIntact
  BY DEF IInv
<1>4. f \in Entries /\ f \in Files /\ read[f].path # NoPath /\ torn \subseteq torn'
  BY <1>1, <1>2, <1>3 DEF TypeOK, Kind, Present
<1>5. DirectoryIsOwn'
  BY <1>1 DEF DirectoryIsOwn
<1>6. UnchangedIsIntact'
  <2> SUFFICES ASSUME NEW e \in Entries, known[e].path # NoPath, template[e] = known[e]
               PROVE  Intact(e, known[e])'
    BY <1>1 DEF UnchangedIsIntact, Row, Seen, Handled, Active
  <2>1. Row(e) = known[e] /\ Seen(e) = known[e]
    BY KnownIsRow
  <2>2. Intact(e, known[e])
    BY <1>3, <2>1 DEF UnchangedIsIntact
  <2>3. CASE e = f
    <3>1. read[f] = known[f]
      BY <1>1, <1>4, <2>1, <2>3 DEF Seen, Active
    <3>. QED  BY <1>1, <1>2, <1>4, <2>3, <3>1 DEF Intact
  <2>4. CASE e # f
    <3>1. known[e].path # read[f].path
      BY <1>1, <1>2, <1>4, <2>1, <2>4, WrittenPathIsFree
    <3>2. disk'[known[e].path] = disk[known[e].path]
      BY <1>2, <1>3, <3>1 DEF TypeOK
    <3>. QED  BY <1>1, <1>4, <2>2, <3>2 DEF Intact, OnDisk
  <2>. QED  BY <2>3, <2>4
<1>. QED  BY <1>1, <1>5, <1>6, IdleKeeps

LEMMA CrashKeeps == IInv /\ TypeOK' /\ Crash => IInv'
<1> SUFFICES ASSUME IInv, TypeOK', Crash PROVE IInv'
  OBVIOUS
<1>1. /\ RowsAreVersioned /\ RowsAreOrdered /\ RowsAreDistinct /\ ObjectsComeFirst
      /\ UnmovedHasOnePath
  BY DEF IInv
<1>2. /\ pc' = "idle" /\ ~registered' /\ UNCHANGED <<template, bucket, moved>>
      /\ \A e \in Entries : read'[e].path = NoPath /\ known'[e].path = NoPath
      /\ \A e \in Entries : Row(e)' = known'[e] /\ ~Active(e)'
  BY DEF Crash, serverVars, Nothing, Absent, Row, Handled, Active
<1>3. Stage' /\ ObjectsComeFirst' /\ RowsAreVersioned'
  BY <1>1, <1>2 DEF Stage, ObjectsComeFirst, RowsAreVersioned, Versioned
<1>4. RowsAreDistinct'
  BY <1>1, <1>2 DEF RowsAreDistinct, Distinct, Entries
<1>5. RowsAreOrdered' /\ UnmovedHasOnePath'
  BY <1>1, <1>2 DEF RowsAreOrdered, Later, UnmovedHasOnePath, OnePath
<1>6. CrossingsAreOutdated' /\ HandledIsFresh' /\ TemplateIsFresh' /\ DirectoryIsOwn'
  BY <1>2 DEF CrossingsAreOutdated, HandledIsFresh, TemplateIsFresh, DirectoryIsOwn
<1>7. UnchangedIsIntact'
  BY <1>2 DEF UnchangedIsIntact
<1>. QED  BY <1>3, <1>4, <1>5, <1>6, <1>7 DEF IInv

LEMMA CleanPathKeeps == IInv /\ TypeOK' /\ CleanPath => IInv'
<1> SUFFICES ASSUME IInv, TypeOK', CleanPath PROVE IInv'
  OBVIOUS
<1>1. /\ RowsAreVersioned /\ RowsAreOrdered /\ RowsAreDistinct /\ ObjectsComeFirst
      /\ UnmovedHasOnePath /\ UnchangedIsIntact /\ DirectoryIsOwn /\ TypeOK /\ Stage
  BY DEF IInv
<1>2. /\ pc = "idle" /\ faults'.interrupted = faults.interrupted
      /\ UNCHANGED <<template, bucket, registered, known, read, todo, pc, removed, missing,
                     torn, moved>>
  BY <1>1 DEF CleanPath, serverVars, historyVars, TypeOK
<1>3. \A p \in Paths : disk'[p] \in {disk[p], NoFile}
  BY <1>1 DEF CleanPath, TypeOK
<1>4. \A e \in Entries :
        /\ Row(e)' = known[e] /\ Row(e) = known[e]
        /\ Seen(e)' = template[e] /\ Seen(e) = template[e] /\ ~Active(e)'
  BY <1>2 DEF Row, Seen, Handled, Active
<1>5. Stage' /\ ObjectsComeFirst' /\ RowsAreVersioned' /\ RowsAreDistinct'
  BY <1>1, <1>2 DEF Stage, ObjectsComeFirst, RowsAreVersioned, RowsAreDistinct
<1>6. RowsAreOrdered' /\ UnmovedHasOnePath'
  BY <1>1, <1>2, <1>4 DEF RowsAreOrdered, UnmovedHasOnePath
<1>7. CrossingsAreOutdated' /\ HandledIsFresh' /\ TemplateIsFresh'
  BY <1>2 DEF CrossingsAreOutdated, HandledIsFresh, TemplateIsFresh
<1>8. UnchangedIsIntact'
  <2> SUFFICES ASSUME NEW e \in Entries, known[e].path # NoPath, template[e] = known[e]
               PROVE  Intact(e, known[e])'
    BY <1>2, <1>4 DEF UnchangedIsIntact
  <2>1. Intact(e, known[e]) /\ known[e].path \in Paths
    BY <1>1, <1>4, EntryType DEF UnchangedIsIntact, Entry
  <2>. QED  BY <1>2, <1>3, <2>1 DEF Intact, OnDisk
<1>9. DirectoryIsOwn'
  BY <1>1, <1>2, <1>3, <1>4 DEF DirectoryIsOwn
<1>. QED  BY <1>5, <1>6, <1>7, <1>8, <1>9 DEF IInv

-----------------------------------------------------------------------------
(* The invariant and what follows *)

LEMMA InvInit == Init => IInv
<1> SUFFICES ASSUME Init PROVE IInv
  OBVIOUS
<1>1. /\ pc = "idle" /\ ~registered
      /\ \A e \in Entries : template[e] = Absent /\ known[e] = Absent /\ read[e] = Absent
      /\ \A a \in Assets : bucket[a] = 0
      /\ Absent.path = NoPath /\ Absent.version = 0
      /\ Files \subseteq Entries /\ Assets \subseteq Entries
  BY DEF Init, Nothing, Absent, Entries
<1>2. \A e \in Entries : Row(e) = Absent /\ ~Active(e)
  BY <1>1 DEF Row, Handled, Active
<1>3. Stage /\ RowsAreDistinct /\ RowsAreVersioned /\ ObjectsComeFirst
  BY <1>1 DEF Stage, RowsAreDistinct, Distinct, RowsAreVersioned, Versioned, ObjectsComeFirst
<1>4. RowsAreOrdered /\ UnmovedHasOnePath /\ UnchangedIsIntact
  BY <1>1, <1>2 DEF RowsAreOrdered, Later, UnmovedHasOnePath, OnePath, UnchangedIsIntact
<1>5. CrossingsAreOutdated /\ HandledIsFresh /\ TemplateIsFresh /\ DirectoryIsOwn
  BY <1>1 DEF CrossingsAreOutdated, HandledIsFresh, TemplateIsFresh, DirectoryIsOwn
<1>. QED  BY <1>3, <1>4, <1>5, TypeInit DEF IInv

LEMMA InvUnchanged == IInv /\ UNCHANGED vars => IInv'
BY DEF vars, serverVars, historyVars, IInv, TypeOK, Kind, Stage, RowsAreDistinct,
   RowsAreVersioned, ObjectsComeFirst, RowsAreOrdered, CrossingsAreOutdated,
   UnchangedIsIntact, Intact, OnDisk, HandledIsFresh, FileIsHandled, AssetIsHandled,
   FileIsKnown, TemplateIsFresh, UnmovedHasOnePath, DirectoryIsOwn, Fresh, Clash, ToDelete,
   Present, Row, Seen, Handled, Active

LEMMA InvNext == IInv /\ [Next]_vars => IInv'
<1>1. IInv /\ PrepareTemplate => IInv'
  BY TypeNext, FetchFilesKeeps, FetchAssetsKeeps, MakeDirectoryKeeps, HandleKeeps,
     FinishFilesKeeps, FinishAssetsKeeps, RenderKeeps DEF PrepareTemplate, Next
<1>2. IInv /\ FaultStep => IInv'
  BY TypeNext, InterruptKeeps, InterruptWriteKeeps, CrashKeeps, CleanPathKeeps
     DEF FaultStep, Next
<1>3. IInv /\ ServerStep => IInv'
  BY TypeNext, ServerKeeps DEF Next
<1>. QED  BY <1>1, <1>2, <1>3, InvUnchanged DEF Next

(* Every variable always has the type of the code's value, and a job       *)
(* renders from a registered template of which no row is left to handle.   *)
THEOREM TypeCorrect == Spec => []TypeOK
<1>1. IInv => TypeOK
  BY DEF IInv
<1>. QED  BY <1>1, InvInit, InvNext, PTL DEF Spec

(* A job renders from the files and the assets it has read, whatever was   *)
(* edited, renamed and deleted meanwhile and at whatever step earlier      *)
(* refreshes were interrupted, although update_template_files and          *)
(* update_template_assets rewrite only what has another updated_at.        *)
THEOREM FreshCorrect == Spec => []TemplateIsFresh
<1>1. IInv => TemplateIsFresh
  BY DEF IInv
<1>. QED  BY <1>1, InvInit, InvNext, PTL DEF Spec

(* What was deleted from the template is not on disk when a job renders,   *)
(* unless it was renamed or an interrupted refresh had written it.         *)
THEOREM DeletedCorrect == Spec => []DeletedIsGone
<1>1. IInv => DeletedIsGone
  <2> SUFFICES ASSUME IInv, pc = "ready", ~faults.interrupted,
                      NEW p \in Paths, disk[p] # NoFile
               PROVE  disk[p].id \in moved \/ known[disk[p].id].path = p
    BY DEF DeletedIsGone
  <2>1. disk[p].id \in Entries /\ registered
    BY DEF IInv, TypeOK, Content, Written
  <2>2. Row(disk[p].id) = known[disk[p].id]
    BY DEF Row, Handled
  <2>. QED  BY <2>1, <2>2 DEF IInv, DirectoryIsOwn
<1>. QED  BY <1>1, InvInit, InvNext, PTL DEF Spec

=============================================================================
