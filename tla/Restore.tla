------------------------------- MODULE Restore ------------------------------
(***************************************************************************)
(* BackupPinStore::restore: one or two restores, of the same pin or of two *)
(* pins, into one empty destination, each of which may stop anywhere and   *)
(* start over.  Objects are copied before the controls, the controls       *)
(* before the catalog and the catalog before the release, each created     *)
(* only where nothing is or the same is.                                   *)
(***************************************************************************)
EXTENDS Integers, FiniteSets

CONSTANTS
    Restorers, Pins,
    PinRoots,     \* the root a pin holds of a Cell, 0 when its catalog does not name the Cell
    PinRelease,   \* the release record of a pin
    PinShards     \* the shard of a Cell

ASSUME RestoreAssumption == \A p \in Pins : p \in DOMAIN PinRoots

VARIABLES
    copied,    \* immutable objects of the destination: roots of Cells
    controls,  \* the root of a Cell's control there, or 0
    shards,    \* the Cells an installed catalog head names
    installed, \* the release record, or "none"
    pointers,  \* the pins whose pointer was copied
    restore    \* what a restorer does, for which pin, and the shards it has left

restoreVars == <<copied, controls, shards, installed, pointers, restore>>

PinCells == DOMAIN PinShards
ShardIds == {PinShards[c] : c \in PinCells}
CellsIn(p, s) == {c \in PinCells : PinShards[c] = s /\ PinRoots[p][c] # 0}
PinnedCells(p) == {c \in PinCells : PinRoots[p][c] # 0}

RestoreInit ==
    /\ copied = {} /\ controls = [c \in PinCells |-> 0] /\ shards = [s \in ShardIds |-> {}]
    /\ installed = "none" /\ pointers = {}
    /\ restore = [r \in Restorers |-> [pc |-> "Out", pin |-> CHOOSE p \in Pins : TRUE, left |-> {}]]

At(r, pc) == restore[r].pc = pc
Moves(r, pc) == restore' = [restore EXCEPT ![r].pc = pc]

\* The manifest is loaded; an interrupted or failed restore is repeated, or another pin is.
Begin(r, p) ==
    /\ At(r, "Out") /\ restore' = [restore EXCEPT ![r] = [pc |-> "Copy", pin |-> p, left |-> ShardIds]]
    /\ UNCHANGED <<copied, controls, shards, installed, pointers>>

Interrupt(r) ==
    /\ ~At(r, "Out") /\ Moves(r, "Out") /\ UNCHANGED <<copied, controls, shards, installed, pointers>>

Needs(p) == {<<c, PinRoots[p][c]>> : c \in PinnedCells(p)}

Copied(p) == Needs(p) \subseteq copied

\* copy_if_absent: the name of an object is the digest of its contents.
CopyObject(r, o) ==
    /\ At(r, "Copy") /\ o \in Needs(restore[r].pin) \ copied
    /\ copied' = copied \cup {o} /\ UNCHANGED <<controls, shards, installed, pointers, restore>>

\* Every copied graph is read back before anything names it.
CopiesVerify(r) ==
    /\ At(r, "Copy") /\ Copied(restore[r].pin) /\ Moves(r, "Control")
    /\ UNCHANGED <<copied, controls, shards, installed, pointers>>

\* Mutant: an existing control is adopted whatever it is.
AdoptsAny(current, wanted) == TRUE
\* create_strict, and what is there when it conflicts.
Adopts(current, wanted) == current = wanted

\* CellAuthority::install_restored.
InstallControl(r, c) ==
    LET wanted == PinRoots[restore[r].pin][c] IN
    /\ At(r, "Control") /\ c \in PinnedCells(restore[r].pin)
    /\ IF controls[c] = 0
       THEN controls' = [controls EXCEPT ![c] = wanted] /\ UNCHANGED restore
       ELSE ~Adopts(controls[c], wanted) /\ Moves(r, "Out") /\ UNCHANGED controls
    /\ UNCHANGED <<copied, shards, installed, pointers>>

Controlled(p) == \A c \in PinnedCells(p) : controls[c] # 0 /\ Adopts(controls[c], PinRoots[p][c])

ControlsInstalled(r) ==
    /\ At(r, "Control") /\ Controlled(restore[r].pin) /\ Moves(r, "Catalog")
    /\ UNCHANGED <<copied, controls, shards, installed, pointers>>

\* CellCatalog::install_pinned_shard; an empty shard only checks that there is no head.
InstallShard(r, s) ==
    LET wanted == CellsIn(restore[r].pin, s) IN
    /\ At(r, "Catalog") /\ s \in restore[r].left
    /\ IF shards[s] = {} \/ Adopts(shards[s], wanted)
       THEN shards' = [shards EXCEPT ![s] = wanted] /\ restore' = [restore EXCEPT ![r].left = @ \ {s}]
       ELSE Moves(r, "Out") /\ UNCHANGED shards
    /\ UNCHANGED <<copied, controls, installed, pointers>>

ShardsInstalled(r) ==
    /\ At(r, "Catalog") /\ restore[r].left = {} /\ Moves(r, "Release")
    /\ UNCHANGED <<copied, controls, shards, installed, pointers>>

\* ReleaseStore::install_restored.
InstallRelease(r) ==
    LET wanted == PinRelease[restore[r].pin] IN
    /\ At(r, "Release")
    /\ installed' = IF installed = "none" THEN wanted ELSE installed
    /\ Moves(r, IF installed \in {"none", wanted} THEN "Pointer" ELSE "Out")
    /\ UNCHANGED <<copied, controls, shards, pointers>>

\* The pin itself is copied, and from then on the destination can be restored from it.
CopyPointer(r) ==
    /\ At(r, "Pointer") /\ pointers' = pointers \cup {restore[r].pin} /\ Moves(r, "Recheck")
    /\ UNCHANGED <<copied, controls, shards, installed>>

\* The pin is verified in the destination, and the controls are compared with it once more.
VerifyRestored(r) ==
    LET p == restore[r].pin IN
    /\ At(r, "Recheck")
    /\ Moves(r, IF p \in pointers /\ Copied(p) /\ Controlled(p) THEN "Done" ELSE "Out")
    /\ UNCHANGED <<copied, controls, shards, installed, pointers>>

RestoreNext ==
    \E r \in Restorers :
        \/ \E p \in Pins : Begin(r, p)
        \/ Interrupt(r) \/ CopiesVerify(r) \/ ControlsInstalled(r) \/ ShardsInstalled(r)
        \/ InstallRelease(r) \/ CopyPointer(r) \/ VerifyRestored(r)
        \/ \E o \in UNION {Needs(p) : p \in Pins} : CopyObject(r, o)
        \/ \E c \in PinCells : InstallControl(r, c)
        \/ \E s \in ShardIds : InstallShard(r, s)

RestoreSpec == RestoreInit /\ [][RestoreNext]_restoreVars

-----------------------------------------------------------------------------
(* Properties. *)

\* Part of RestoredIsOnePin: what the destination names is there at every moment: the catalog names
\* Cells with controls, a control names a copied root, and a copied pin is whole (restore:
\* "Immutable objects are copied conditionally before catalog, control, and release pointers
\* become visible").
NamesAreThere ==
    /\ \A c \in PinCells : controls[c] # 0 => <<c, controls[c]>> \in copied
    /\ \A s \in ShardIds : \A c \in shards[s] : controls[c] # 0
    /\ \A p \in pointers : Copied(p)

\* A destination with a release holds one whole pin of that release, and a restore that
\* reported success holds its own (restore: "Existing divergent state fails closed"); meanwhile
\* nothing names what is not there yet.
RestoredIsOnePin ==
    /\ NamesAreThere
    /\ installed # "none" =>
           \E p \in Pins : PinRelease[p] = installed /\ \A c \in PinnedCells(p) : controls[c] = PinRoots[p][c]
    /\ \A r \in Restorers : At(r, "Done") =>
           \A c \in PinnedCells(restore[r].pin) : /\ controls[c] = PinRoots[restore[r].pin][c]
                                                  /\ c \in shards[PinShards[c]]

=============================================================================
