---------------------------- MODULE WorkspaceTree ----------------------------
(***************************************************************************)
(* The directory of a workspace as a whole: how it is created and opened,  *)
(* the exports written into it, its backup, and its replacement by a       *)
(* restored backup.  Each of these takes several steps on the disk, and    *)
(* the process may stop between any two of them.                           *)
(*                                                                         *)
(* Writers hold the workspace's operation lock for a whole operation, and  *)
(* a restore requires an inactive workspace, so one operation runs at a    *)
(* time.  Evidence is left to EvidenceWorkspace; the content of an export  *)
(* stands for the records it was projected from.                           *)
(***************************************************************************)
EXTENDS Integers, FiniteSets

CONSTANTS
  Roots,          \* places for a workspace
  Names,          \* file names below the exports directory
  Outside,        \* an output path that is not below it
  Contents,       \* what an export may contain
  NoFile,
  NoTree,
  NoRow,
  Idle,
  MaxIdentities,  \* bound: workspaces created
  MaxExports,     \* bound: rows of exports
  MaxVersion,     \* bound: package versions
  MaxStops        \* bound: operations that stop between two steps

PathsBelow(r) == [root : {r}, name : Names] \union {Outside}
Paths == UNION {PathsBelow(r) : r \in Roots}

\* The id of a CSV, XLSX or Parquet export is new, that of a JSON export is
\* the digest of its content.
ExportIds == (1..MaxExports) \union Contents
Rows == [id : ExportIds, path : Paths, content : Contents]

\* An export without a requirement, or whose time is not over, is kept.
Retentions == {"kept", "held", "expired"}
Identities == 1..MaxIdentities

\* A workspace directory: the identity in its manifest (0: no manifest), its
\* tables, its metadata row, and its exports: rows, files, retention and
\* tombstones.
Trees ==
  [identity : Identities \union {0},
   tables : {"none", "unversioned", "ready"},
   row : [identity : Identities, version : 1..MaxVersion] \union {NoRow},
   exports : SUBSET Rows,
   files : [Names -> Contents \union {NoFile}],
   retention : [ExportIds -> Retentions],
   tombstones : SUBSET ExportIds]

EmptyTree ==
  [identity |-> 0, tables |-> "none", row |-> NoRow, exports |-> {},
   files |-> [n \in Names |-> NoFile],
   retention |-> [id \in ExportIds |-> "kept"], tombstones |-> {}]

Steps == {"manifest", "tables", "stamp", "metadata", "verify",
          "row", "tombstone", "aside", "in", "remove"}
Operations ==
  [kind : {"open", "restore"}, root : Roots, step : Steps, export : {NoRow}]
  \union [kind : {"export", "delete"}, root : Roots, step : Steps, export : Rows]

ConstantsAssumption ==
  /\ MaxIdentities \in Nat
  /\ MaxExports \in Nat
  /\ MaxVersion \in Nat \ {0}
  /\ MaxStops \in Nat
  /\ Contents \intersect (1..MaxExports) = {}
  /\ NoTree \notin Trees
  /\ NoFile \notin Contents
  /\ NoRow \notin Rows \union [identity : Identities, version : 1..MaxVersion]
  /\ Outside \notin [root : Roots, name : Names]
  /\ Idle \notin Operations

VARIABLES
  tree,        \* the directory at each root
  previous,    \* the directory that the running restore moved away
  aside,       \* directories moved away by restores that stopped
  backup,      \* the backup file: a tree, and the root it was taken from
  doing,       \* the operation that is running
  installed,   \* the version of the package
  created,     \* identities handed out
  numbered,    \* export numbers handed out
  rewritten,   \* roots and names that were written more than once
  stops        \* operations that stopped between two steps

treeVars == <<tree, previous, aside, backup, doing, installed, created, numbered,
              rewritten, stops>>

Files == Roots \X Names

TypeOK ==
  /\ tree \in [Roots -> Trees \union {NoTree}]
  /\ previous \in Trees \union {NoTree}
  /\ aside \subseteq Trees
  /\ backup \in [root : Roots, tree : Trees] \union {NoTree}
  /\ doing \in Operations \union {Idle}
  /\ installed \in 1..MaxVersion
  /\ created \in 0..MaxIdentities
  /\ numbered \in 0..MaxExports
  /\ rewritten \subseteq Files
  /\ stops \in 0..MaxStops

Init ==
  /\ tree = [r \in Roots |-> NoTree]
  /\ previous = NoTree
  /\ aside = {}
  /\ backup = NoTree
  /\ doing = Idle
  /\ installed = 1
  /\ created = 0
  /\ numbered = 0
  /\ rewritten = {}
  /\ stops = 0

-----------------------------------------------------------------------------
(* StateWakeWorkspace.open                                                 *)

At(kind, step) ==
  /\ doing # Idle
  /\ doing.kind \in kind
  /\ doing.step = step
Opening == {"open", "restore"}

Step(step) == doing' = [doing EXCEPT !.step = step]

\* The operation returns, or raises.
End == doing' = Idle

exportVars == <<numbered, rewritten>>
moved == <<previous, aside>>

\* _initialize_directories, and the operation lock.
BeginOpen(r) ==
  /\ doing = Idle
  /\ tree' = [tree EXCEPT ![r] = IF @ = NoTree THEN EmptyTree ELSE @]
  /\ doing' = [kind |-> "open", root |-> r, step |-> "manifest", export |-> NoRow]
  /\ UNCHANGED <<moved, backup, installed, created, exportVars, stops>>

\* The manifest is read, or written with a new identity in one replacement.
OpenManifest ==
  /\ At(Opening, "manifest")
  /\ IF tree[doing.root].identity # 0
     THEN UNCHANGED <<tree, created>>
     ELSE /\ created < MaxIdentities
          /\ created' = created + 1
          /\ tree' = [tree EXCEPT ![doing.root].identity = created + 1]
  /\ Step("tables")
  /\ UNCHANGED <<moved, backup, installed, exportVars, stops>>

\* initialize(): the tables are created one by one and committed each, the
\* version is stamped after them; tables without a version are refused.
OpenTables ==
  /\ At(Opening, "tables")
  /\ CASE tree[doing.root].tables = "ready" ->
            Step("metadata") /\ UNCHANGED tree
       [] tree[doing.root].tables = "none" ->
            /\ Step("stamp")
            /\ tree' = [tree EXCEPT ![doing.root].tables = "unversioned"]
       [] tree[doing.root].tables = "unversioned" ->
            End /\ UNCHANGED tree
  /\ UNCHANGED <<moved, backup, installed, created, exportVars, stops>>

StampVersion ==
  /\ At(Opening, "stamp")
  /\ tree' = [tree EXCEPT ![doing.root].tables = "ready"]
  /\ Step("metadata")
  /\ UNCHANGED <<moved, backup, installed, created, exportVars, stops>>

\* set_workspace_metadata inserts the row, or compares all of it, the
\* package version included.  What restore_backup does next is to verify.
OpenMetadata ==
  LET t == tree[doing.root]
      row == [identity |-> t.identity, version |-> installed]
  IN  /\ At(Opening, "metadata")
      /\ tree' = [tree EXCEPT ![doing.root].row = IF @ = NoRow THEN row ELSE @]
      /\ IF t.row \in {NoRow, row} /\ doing.kind = "restore"
         THEN Step("verify") ELSE End
      /\ UNCHANGED <<moved, backup, installed, created, exportVars, stops>>

\* A process has the workspace at r open: it was opened with the version
\* that is installed.
Open(r) ==
  /\ tree[r] # NoTree
  /\ tree[r].tables = "ready"
  /\ tree[r].row = [identity |-> tree[r].identity, version |-> installed]

-----------------------------------------------------------------------------
(* Exports.                                                                *)

\* export_csv, export_json and the others: the file is put in place by a
\* replacement; a new number is used up.
WriteExport(r, path, content, id) ==
  /\ doing = Idle
  /\ Open(r)
  /\ path \in PathsBelow(r)
  /\ \/ id = content /\ UNCHANGED numbered
     \/ id = numbered + 1 /\ id <= MaxExports /\ numbered' = id
  /\ IF path = Outside THEN UNCHANGED <<tree, rewritten>>
     ELSE /\ tree' = [tree EXCEPT ![r].files[path.name] = content]
          /\ rewritten' = IF \E e \in tree[r].exports : e.path = path
                             \/ tree[r].files[path.name] # NoFile
                          THEN rewritten \union {<<r, path.name>>} ELSE rewritten
  /\ doing' = [kind |-> "export", root |-> r, step |-> "row",
               export |-> [id |-> id, path |-> path, content |-> content]]
  /\ UNCHANGED <<moved, backup, installed, created, stops>>

\* record_export, after the file was verified; it raises if the id exists.
RecordExport ==
  LET r == doing.root
      known == \E e \in tree[r].exports : e.id = doing.export.id
  IN  /\ At({"export"}, "row")
      /\ tree' = [tree EXCEPT ![r].exports = IF known THEN @ ELSE @ \union {doing.export}]
      /\ End
      /\ UNCHANGED <<moved, backup, installed, created, exportVars, stops>>

\* apply_export_retention replaces the whole requirement, or the time of one
\* without legal hold is over.
RetainExport(r, e, retention) ==
  /\ doing = Idle
  /\ Open(r)
  /\ e \in tree[r].exports
  /\ tree' = [tree EXCEPT ![r].retention[e.id] = retention]
  /\ UNCHANGED <<moved, backup, doing, installed, created, exportVars, stops>>

\* The requirement allows the deletion.
Deletable(t, e) == t.retention[e.id] = "expired"

\* Mutation: the tombstone is left for later.
UnlinkOnly(r, e) ==
  /\ doing = Idle
  /\ Open(r)
  /\ e \in tree[r].exports
  /\ Deletable(tree[r], e)
  /\ e.path # Outside
  /\ e.path.root = r
  /\ tree[r].files[e.path.name] # NoFile
  /\ tree' = [tree EXCEPT ![r].files[e.path.name] = NoFile]
  /\ UNCHANGED <<doing, moved, backup, installed, created, exportVars, stops>>

\* delete_expired_export, up to the unlink.
UnlinkExport(r, e) ==
  /\ doing = Idle
  /\ Open(r)
  /\ e \in tree[r].exports
  /\ Deletable(tree[r], e)
  /\ e.path # Outside
  /\ e.path.root = r
  /\ tree[r].files[e.path.name] # NoFile
  /\ tree' = [tree EXCEPT ![r].files[e.path.name] = NoFile]
  /\ doing' = [kind |-> "delete", root |-> r, step |-> "tombstone", export |-> e]
  /\ UNCHANGED <<moved, backup, installed, created, exportVars, stops>>

RecordDeletion ==
  /\ At({"delete"}, "tombstone")
  /\ tree' = [tree EXCEPT ![doing.root].tombstones = @ \union {doing.export.id}]
  /\ End
  /\ UNCHANGED <<moved, backup, installed, created, exportVars, stops>>

-----------------------------------------------------------------------------
(* Verification, backup and restore.                                       *)

\* The rows that _verify_exports reports as errors for a tree at root r.
ExportErrors(t, r) ==
  {e \in t.exports :
     \/ e.path = Outside
     \/ e.path.root # r
     \/ IF e.id \in t.tombstones
        THEN t.files[e.path.name] # NoFile
        ELSE t.files[e.path.name] # e.content}

\* verify() reports no error.
Healthy(t, r) ==
  /\ t.row # NoRow
  /\ t.row.identity = t.identity
  /\ ExportErrors(t, r) = {}

\* backup() verifies and copies under the operation lock, and replaces the
\* output once it is complete.
BackUp(r) ==
  /\ doing = Idle
  /\ Open(r)
  /\ Healthy(tree[r], r)
  /\ backup' = [root |-> r, tree |-> tree[r]]
  /\ UNCHANGED <<tree, moved, doing, installed, created, exportVars, stops>>

\* restore_workspace_backup has checked the backup and staged its files.
BeginRestore(r) ==
  /\ doing = Idle
  /\ backup # NoTree
  /\ doing' = [kind |-> "restore", root |-> r, export |-> NoRow,
               step |-> IF tree[r] = NoTree THEN "in" ELSE "aside"]
  /\ UNCHANGED <<tree, moved, backup, installed, created, exportVars, stops>>

\* Mutation: the old directory is removed to make room.
RemoveFirst ==
  /\ At({"restore"}, "aside")
  /\ tree' = [tree EXCEPT ![doing.root] = NoTree]
  /\ Step("in")
  /\ UNCHANGED <<moved, backup, installed, created, exportVars, stops>>

MoveAside ==
  /\ At({"restore"}, "aside")
  /\ previous' = tree[doing.root]
  /\ tree' = [tree EXCEPT ![doing.root] = NoTree]
  /\ Step("in")
  /\ UNCHANGED <<aside, backup, installed, created, exportVars, stops>>

MoveIn ==
  /\ At({"restore"}, "in")
  /\ tree' = [tree EXCEPT ![doing.root] = backup.tree]
  /\ Step("remove")
  /\ UNCHANGED <<moved, backup, installed, created, exportVars, stops>>

\* The second rename fails and the first one, if any, is undone.
MoveBack ==
  /\ At({"restore"}, "in")
  /\ tree' = [tree EXCEPT ![doing.root] = previous]
  /\ previous' = NoTree
  /\ End
  /\ UNCHANGED <<aside, backup, installed, created, exportVars, stops>>

\* The old directory, if there was one, is removed; the new one is opened.
RemovePrevious ==
  /\ At({"restore"}, "remove")
  /\ previous' = NoTree
  /\ Step("manifest")
  /\ UNCHANGED <<tree, aside, backup, installed, created, exportVars, stops>>

\* restore_backup returns if the verification reports no error, and raises
\* otherwise; the directory is the restored one in both cases.
VerifyRestored ==
  /\ At({"restore"}, "verify")
  /\ End
  /\ UNCHANGED <<tree, moved, backup, installed, created, exportVars, stops>>

\* The process stops, or the operation raises at its next step.
Stop ==
  /\ doing # Idle
  /\ stops < MaxStops
  /\ stops' = stops + 1
  /\ aside' = aside \union ({previous} \ {NoTree})
  /\ previous' = NoTree
  /\ End
  /\ UNCHANGED <<tree, backup, installed, created, exportVars>>

\* A new version of the package is installed.
Upgrade ==
  /\ doing = Idle
  /\ installed < MaxVersion
  /\ installed' = installed + 1
  /\ UNCHANGED <<tree, moved, backup, doing, created, exportVars, stops>>

Next ==
  \/ \E r \in Roots :
       \/ BeginOpen(r) \/ BackUp(r) \/ BeginRestore(r)
       \/ \E path \in Paths, content \in Contents, id \in ExportIds :
            WriteExport(r, path, content, id)
       \/ \E e \in Rows :
            \/ UnlinkExport(r, e)
            \/ \E retention \in Retentions : RetainExport(r, e, retention)
  \/ OpenManifest \/ OpenTables \/ StampVersion \/ OpenMetadata
  \/ RecordExport \/ RecordDeletion
  \/ MoveAside \/ MoveIn \/ MoveBack \/ RemovePrevious \/ VerifyRestored
  \/ Stop \/ Upgrade

Spec == Init /\ [][Next]_treeVars
-----------------------------------------------------------------------------
(* Properties.                                                             *)

\* The roots that hold a workspace.
Workspaces == {r \in DOMAIN tree : tree[r] # NoTree}

\* Wherever creating, opening or restoring stops, and whatever is installed
\* meanwhile: a metadata row names the identity of the manifest beside it,
\* and stands in a database whose tables are complete.
Identified(t) ==
  t # NoTree /\ t.row # NoRow =>
    t.row.identity = t.identity /\ t.tables = "ready"

RowNamesManifest ==
  \A t \in {tree[r] : r \in Workspaces} \union aside \union {previous} :
    Identified(t)

\* A restore replaces a directory, it never loses one: what it takes away
\* is kept beside the root until the restored one is in its place, or is
\* put back, or is left there by a stop.
NoTreeLost ==
  [][/\ \A r \in Workspaces : r \in Workspaces' \/ previous' = tree[r]
     /\ previous # NoTree /\ previous' # previous =>
          \/ previous \in aside'
          \/ tree'[doing.root] \in {previous, backup.tree}]_treeVars

\* "restore a verified workspace backup": a backup restored to the root it
\* was taken from is opened and verifies without errors.
RestoredBackupVerifies ==
  At({"restore"}, "verify") /\ doing.root = backup.root =>
    Healthy(tree[doing.root], doing.root)

\* The files of the exports agree with their rows and tombstones through
\* deletions, backups and restores, as long as no operation stopped half-way,
\* no path was written twice and all exports are below their root.
ExportsVerify ==
  doing = Idle /\ stops = 0 =>
    \A r \in Workspaces : \A e \in ExportErrors(tree[r], r) :
      \/ e.path = Outside
      \/ e.path.root # r
      \/ <<r, e.path.name>> \in rewritten
=============================================================================
