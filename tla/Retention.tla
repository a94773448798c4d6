------------------------------ MODULE Retention -----------------------------
(***************************************************************************)
(* The release record of an application, the backup pins, and the offline  *)
(* collection of immutable objects nothing names any more.  Collection is  *)
(* safe because of what surrounds it: the exact release record stays in    *)
(* Maintenance, every writer and pin publisher has drained, what was old   *)
(* when it began is all it may delete, and the marks hold everything the   *)
(* record, the Cells and the pins name.  An object is named by its         *)
(* contents: writing one that exists leaves its age alone.                 *)
(***************************************************************************)
EXTENDS Integers, FiniteSets

CONSTANTS
    RetCells,      \* Cells of the application
    Digests,       \* compiled release descriptors
    Operators,     \* administrators; each has one operation id
    PinIds,
    MaxRoots,      \* bound: publications of a Cell
    MaxRevision,   \* bound: revisions of the release record
    MaxDeletes     \* GarbageCollectionPolicy::max_deletes

ASSUME RetentionAssumption ==
    {MaxRoots, MaxRevision} \subseteq Nat /\ MaxDeletes \in Nat \ {0}

VARIABLES
    release,     \* ReleaseRecord; its revision is its version
    objects,     \* the age of an immutable object, or "none"
    root,        \* the root a Cell's control names
    host,        \* the normal node: whether it is enrolled, and the root it uploaded
    pinner,      \* a backup under way
    pins,        \* the published pins
    admin,       \* an administrator's request
    gc           \* a collection under way

retVars == <<release, objects, root, host, pinner, pins, admin, gc>>

RootOf(c, n) == <<"root", c, n>>
PageOf(p) == <<"page", p>>
Descriptor(d) == <<"descriptor", d>>
Objects == {RootOf(c, n) : c \in RetCells, n \in 0 .. MaxRoots} \cup
           {PageOf(p) : p \in PinIds} \cup {Descriptor(d) : d \in Digests}

Stored(o) == objects[o] # "none"
\* create_strict, put: an object that exists is left as it is.
Put(o) == objects' = IF Stored(o) THEN objects ELSE [objects EXCEPT ![o] = "fresh"]

NoPin == [roots |-> [c \in RetCells |-> 0], digests |-> {}, made |-> FALSE]
IdleAdmin == [pc |-> "Idle", digest |-> "none", revision |-> 0]
IdleGc == [pc |-> "Idle", old |-> {}, marks |-> {}, listed |-> {}, eligible |-> 0, deleted |-> 0]

\* A served application: a Cell's first root and one selected descriptor.
RetInit ==
    LET d == CHOOSE d \in Digests : TRUE IN
        /\ release = [revision |-> 1, current |-> d, desired |-> d, operation |-> "none", state |-> "Ready"]
        /\ objects = [o \in Objects |-> IF o = Descriptor(d) \/ \E c \in RetCells : o = RootOf(c, 0) THEN "old" ELSE "none"]
        /\ root = [c \in RetCells |-> 0]
        /\ host = [enrolled |-> FALSE, serving |-> FALSE, uploaded |-> [c \in RetCells |-> 0]]
        /\ pinner = [pc |-> "Out", id |-> 0, roots |-> [c \in RetCells |-> 0], digests |-> {}]
        /\ pins = [p \in PinIds |-> NoPin]
        /\ admin = [a \in Operators |-> IdleAdmin]
        /\ gc = IdleGc

\* The grace window of what was written passes.  A sweep took its cutoff when it began: what
\* ages meanwhile is a matter for the next one.
Age ==
    /\ gc.pc # "Sweep"
    /\ \E o \in Objects : objects[o] = "fresh"
    /\ objects' = [o \in Objects |-> IF objects[o] = "fresh" THEN "old" ELSE objects[o]]
    /\ UNCHANGED <<release, root, host, pinner, pins, admin, gc>>

-----------------------------------------------------------------------------
(* The release record. *)

Selected == {d \in {release.current, release.desired} : d # "none"}

\* An administrator reads the revision a request will expect.
ReadRelease(a) ==
    /\ admin[a].pc = "Idle"
    /\ admin' = [admin EXCEPT ![a] = [IdleAdmin EXCEPT !.pc = "Read", !.revision = release.revision]]
    /\ UNCHANGED <<release, objects, root, host, pinner, pins, gc>>

\* ReleaseStore::prepare publishes the descriptor before it looks at the record.
PublishDescriptor(a, d) ==
    /\ admin[a].pc = "Read"
    /\ Put(Descriptor(d))
    /\ admin' = [admin EXCEPT ![a].pc = "Published", ![a].digest = d]
    /\ UNCHANGED <<release, root, host, pinner, pins, gc>>

Expected(a) == release.revision = admin[a].revision

\* prepare's compare-and-set; a request that lost answers an error.
Select(a) ==
    /\ admin[a].pc = "Published"
    /\ \/ /\ Expected(a) /\ release.state \notin {"Activating", "Maintenance"} /\ release.revision < MaxRevision
          /\ release' = [release EXCEPT !.revision = @ + 1, !.desired = admin[a].digest,
                                        !.operation = a, !.state = "Prepared"]
       \/ UNCHANGED release
    /\ admin' = [admin EXCEPT ![a] = IdleAdmin]
    /\ UNCHANGED <<objects, root, host, pinner, pins, gc>>

\* start_activation and start_maintenance: the descriptor is read back first.
Start(a, state) ==
    /\ release.state = "Prepared" /\ release.operation = a /\ release.revision < MaxRevision
    /\ Stored(Descriptor(release.desired))
    /\ release' = [release EXCEPT !.revision = @ + 1, !.state = state]
    /\ UNCHANGED <<objects, root, host, pinner, pins, admin, gc>>

\* complete_activation and complete_maintenance; the operator that collects completes afterwards.
Complete(a) ==
    /\ release.state \in {"Activating", "Maintenance"} /\ release.operation = a
    /\ Stored(Descriptor(release.desired)) /\ gc.pc \in {"Idle", "Done"}
    /\ release' = [release EXCEPT !.revision = @ + 1, !.current = release.desired, !.state = "Ready"]
    /\ gc' = IdleGc
    /\ UNCHANGED <<objects, root, host, pinner, pins, admin>>

-----------------------------------------------------------------------------
(* The serving fleet: a node enrolls, and serves unless it finds Maintenance. *)

HostEnrolls ==
    /\ ~host.enrolled /\ host' = [host EXCEPT !.enrolled = TRUE]
    /\ UNCHANGED <<release, objects, root, pinner, pins, admin, gc>>

HostServes ==
    /\ host.enrolled /\ ~host.serving /\ release.state # "Maintenance"
    /\ host' = [host EXCEPT !.serving = TRUE]
    /\ UNCHANGED <<release, objects, root, pinner, pins, admin, gc>>

HostUploads(c) ==
    /\ host.serving /\ host.uploaded[c] = 0 /\ root[c] < MaxRoots
    /\ Put(RootOf(c, root[c] + 1))
    /\ host' = [host EXCEPT !.uploaded[c] = root[c] + 1]
    /\ UNCHANGED <<release, root, pinner, pins, admin, gc>>

HostPublishes(c) ==
    /\ host.serving /\ host.uploaded[c] # 0
    /\ root' = [root EXCEPT ![c] = host.uploaded[c]]
    /\ host' = [host EXCEPT !.uploaded[c] = 0]
    /\ UNCHANGED <<release, objects, pinner, pins, admin, gc>>

\* The node drains or its session is fenced; what it had only uploaded is left behind.
HostLeaves ==
    /\ host.enrolled
    /\ host' = [enrolled |-> FALSE, serving |-> FALSE, uploaded |-> [c \in RetCells |-> 0]]
    /\ UNCHANGED <<release, objects, root, pinner, pins, admin, gc>>

-----------------------------------------------------------------------------
(* BackupPinStore::create, by a publisher enrolled in the maintenance drain. *)

PinnerLeaves ==
    /\ pinner.pc # "Out" /\ pinner' = [pinner EXCEPT !.pc = "Out"]
    /\ UNCHANGED <<release, objects, root, host, pins, admin, gc>>

\* The caller takes the controls of the pinned catalog.
PinCaptures(p) ==
    /\ pinner.pc = "Out" /\ ~pins[p].made
    /\ pinner' = [pc |-> "Captured", id |-> p, roots |-> root, digests |-> {}]
    /\ UNCHANGED <<release, objects, root, host, pins, admin, gc>>

\* verify_root of every control, then snapshot_release: Ready, with its descriptors.
PinVerifies ==
    /\ pinner.pc = "Captured" /\ \A c \in RetCells : Stored(RootOf(c, pinner.roots[c]))
    /\ pinner' = [pinner EXCEPT !.pc = "Rooted"]
    /\ UNCHANGED <<release, objects, root, host, pins, admin, gc>>

Pinnable == release.state = "Ready"

PinSnapshots ==
    /\ pinner.pc = "Rooted" /\ Pinnable /\ \A d \in Selected : Stored(Descriptor(d))
    /\ Put(PageOf(pinner.id))
    /\ pinner' = [pinner EXCEPT !.pc = "Paged", !.digests = Selected]
    /\ UNCHANGED <<release, root, host, pins, admin, gc>>

PinCreates ==
    /\ pinner.pc = "Paged"
    /\ pins' = [pins EXCEPT ![pinner.id] = [roots |-> pinner.roots, digests |-> pinner.digests, made |-> TRUE]]
    /\ pinner' = [pinner EXCEPT !.pc = "Out"]
    /\ UNCHANGED <<release, objects, root, host, admin, gc>>

-----------------------------------------------------------------------------
(* CellGarbageCollector::collect. *)

\* What the caller of collect owns while it collects: no reader, writer or pin publisher is
\* enrolled.  The collector itself only refuses a Cell that still has an owner.
Drained == ~host.enrolled /\ pinner.pc = "Out"

PinObjects(p) == {RootOf(c, pins[p].roots[c]) : c \in RetCells} \cup
                 {Descriptor(d) : d \in pins[p].digests} \cup {PageOf(p)}

\* Mutant: only what serves now is marked.
MarksCurrent == {Descriptor(d) : d \in Selected} \cup {RootOf(c, root[c]) : c \in RetCells}
\* mark_release, mark_current_catalog, mark_pins.
Marks == {Descriptor(d) : d \in Selected} \cup {RootOf(c, root[c]) : c \in RetCells} \cup
         UNION {PinObjects(p) : p \in {q \in PinIds : pins[q].made}}

\* require_maintenance, and every graph verified before anything is deleted.
Mark ==
    /\ gc.pc = "Idle" /\ release.state = "Maintenance" /\ Drained
    /\ \A o \in Marks : Stored(o)
    /\ gc' = [IdleGc EXCEPT !.pc = "Sweep", !.marks = Marks, !.old = {o \in Objects : objects[o] = "old"}]
    /\ UNCHANGED <<release, objects, root, host, pinner, pins, admin>>

\* sweep_batch counts what is left for a later run too.
Eligible(o) == TRUE

MayDelete == gc.deleted < MaxDeletes

\* Retained objects and those within the grace window are passed over.
Unswept == {o \in (gc.old \ gc.marks) \ gc.listed : Stored(o)}

\* sweep_batch, for one listed object.
Sweep(o) ==
    /\ gc.pc = "Sweep" /\ o \in Unswept
    /\ objects' = IF MayDelete THEN [objects EXCEPT ![o] = "none"] ELSE objects
    /\ gc' = [gc EXCEPT !.listed = @ \cup {o},
                        !.eligible = IF Eligible(o) THEN @ + 1 ELSE @,
                        !.deleted = IF MayDelete THEN @ + 1 ELSE @]
    /\ UNCHANGED <<release, root, host, pinner, pins, admin>>

SweepEnds ==
    /\ gc.pc = "Sweep" /\ Unswept = {}
    /\ gc' = [gc EXCEPT !.pc = "Done"]
    /\ UNCHANGED <<release, objects, root, host, pinner, pins, admin>>

\* A failed deletion or the end of the process; the next collection starts over.
GcStops ==
    /\ gc.pc # "Idle" /\ gc' = IdleGc
    /\ UNCHANGED <<release, objects, root, host, pinner, pins, admin>>

\* The steps of the given administrators, and of a fleet that serves and backs up or does not.
RetStep(admins, fleet) ==
    \/ Age \/ Mark \/ SweepEnds \/ GcStops
    \/ \E o \in Objects : Sweep(o)
    \/ \E a \in admins : \/ ReadRelease(a) \/ Select(a) \/ Complete(a)
                          \/ \E d \in Digests : PublishDescriptor(a, d)
                          \/ \E s \in {"Activating", "Maintenance"} : Start(a, s)
    \/ fleet /\ \/ HostEnrolls \/ HostServes \/ HostLeaves
                \/ \E c \in RetCells : HostUploads(c) \/ HostPublishes(c)
                \/ PinnerLeaves \/ PinVerifies \/ PinSnapshots \/ PinCreates
                \/ \E p \in PinIds : PinCaptures(p)

RetNext == RetStep(Operators, TRUE)

RetSpec == RetInit /\ [][RetNext]_retVars

-----------------------------------------------------------------------------
(* Properties. *)

\* The variables have their types.
RetTypeOK ==
    /\ release.revision \in 1 .. MaxRevision + 1
    /\ release.state \in {"Ready", "Prepared", "Activating", "Maintenance"}
    /\ objects \in [Objects -> {"none", "fresh", "old"}]
    /\ root \in [RetCells -> 0 .. MaxRoots]
    /\ gc.pc \in {"Idle", "Sweep", "Done"} /\ gc.deleted <= MaxDeletes

\* No collection deletes what something names: the descriptors a release selects, although
\* prepare publishes one long before its compare-and-set (ReleaseStore, mark_release), the root of
\* every Cell (mark_current_catalog), and everything a published pin names, whatever was
\* published, released or collected since it was captured (BackupPinStore::create, mark_pins).
NamedIsStored ==
    /\ RetTypeOK
    /\ \A d \in Selected : Stored(Descriptor(d))
    /\ \A c \in RetCells : Stored(RootOf(c, root[c]))
    /\ \A p \in PinIds : pins[p].made => \A o \in PinObjects(p) : Stored(o)

=============================================================================
