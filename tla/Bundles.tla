------------------------------ MODULE Bundles -------------------------------
(***************************************************************************)
(* Node bundles: the catalog in which one boot selects the native captures *)
(* of every Cell bound to it, the pin that binds a Cell, and the drain of  *)
(* the catalog when the Cell leaves or the boot is fenced                  *)
(* (node/bundle, node/durability).                                         *)
(*                                                                         *)
(* A capture is one element of `log', whatever number of frames it has:    *)
(* frames of a capture are assigned, staged and selected together.  A row  *)
(* of the catalog belongs to a generation <<cell, term>>.                  *)
(***************************************************************************)
EXTENDS Integers, Sequences, FiniteSetsExt

CONSTANTS
    BoundCells,     \* Cells this boot serves
    MaxTerms,       \* bound: ownership epochs of a Cell on this boot
    MaxCaptures     \* bound: captures the boot issues

ASSUME BundlesAssumption == MaxTerms \in Nat \ {0} /\ MaxCaptures \in Nat

VARIABLES
    boot,       \* node record: live, fenced, sealed or withdrawn
    lease,      \* the boot's own lease guard
    catalog,    \* the catalog the node record names: through and rows
    lane,       \* the operation that holds catalog ordering
    stray,      \* catalog writes that timed out and may still be applied
    control,    \* Cell control records
    pinning,    \* pin writes sent and not applied: the control they replace
    log,        \* captures in the order of their assignment
    kept,       \* prefix of log that the followers keep
    active,     \* the node record marks the log active: followers may prove captures
    proved,     \* prefix of log whose selection is confirmed
    work,       \* this boot's actor of each Cell
    durable,    \* prefix of log that the sealed lanes hold, once sealed
    drain       \* the recovery attempt of a fenced boot

bundleVars == <<boot, lease, catalog, lane, stray, control, pinning, log, kept,
                active, proved, work, durable, drain>>

Generations == BoundCells \X (1 .. MaxTerms)

(* The generation in which a Cell is now.                                  *)
Now(c) == <<c, control[c].term>>

(* Captures of a generation among the first n, and its last commit.        *)
Issued(g, n) == {s \in 1 .. n : log[s].of = g}
CommitsOf(S) == {log[s].commit : s \in S}

NoRow == [phase |-> "none", root |-> 0, selected |-> 0, last |-> 0,
          locators |-> {}, terminal |-> <<>>]

Unheld == [op |-> "idle", cell |-> 0]
NoAttempt == [open |-> FALSE, unpinned |-> {}]

Off == [at |-> "off", task |-> "idle", to |-> 0, seen |-> <<>>]

(* A boot that owns the Cells of `mine' and has bound those of `bound'.    *)
BundlesInit(mine, bound) ==
  /\ boot = "live" /\ lease = TRUE
  /\ catalog = [through |-> 0,
                rows |-> [g \in Generations |->
                  IF g[1] \in bound /\ g[2] = 1 THEN [NoRow EXCEPT !.phase = "open"] ELSE NoRow]]
  /\ lane = Unheld /\ stray = {} /\ pinning = {}
  /\ control = [c \in BoundCells |->
                  [term |-> 1, owner |-> IF c \in mine THEN "here" ELSE "other",
                   pin |-> c \in bound, root |-> 0, overlay |-> 0]]
  /\ log = <<>> /\ kept = 0 /\ active = FALSE /\ proved = 0
  /\ work = [c \in BoundCells |-> IF c \in bound THEN [Off EXCEPT !.at = "serving"] ELSE Off]
  /\ durable = -1 /\ drain = NoAttempt

Row(g) == catalog.rows[g]
WithRow(cat, g, row) == [cat EXCEPT !.rows[g] = row]

(***************************************************************************)
(* Ordering and selection.  Binding, checkpoint, close and publication     *)
(* hold the lane; each stages a successor of the catalog it observed and   *)
(* replaces exactly that one.                                              *)
(***************************************************************************)
Hold(op, c, cat) ==
  lane' = [op |-> op, cell |-> c, original |-> catalog, cat |-> cat, joins |-> {},
           after |-> <<>>]

\* Mutant: a checkpoint releases every locator of the row.
CheckpointedAll(cat, C) ==
  [cat EXCEPT !.rows = [g \in Generations |->
     IF g[1] \in C /\ g = Now(g[1])
     THEN [@[g] EXCEPT !.root = control[g[1]].root, !.locators = {}]
     ELSE @[g]]]

(* The rows after Cells C checkpoint the roots their controls now name.    *)
Checkpointed(cat, C) ==
  [cat EXCEPT !.rows = [g \in Generations |->
     IF g[1] \in C /\ g = Now(g[1])
     THEN LET root == control[g[1]].root
          IN [@[g] EXCEPT !.root = root,
                !.locators = {s \in @ : log[s].commit > root}]
     ELSE @[g]]]

(* The rows after the captures up to n are appended.                       *)
Appended(cat, n) ==
  [through |-> n,
   rows |-> [g \in Generations |->
     LET new == Issued(g, n) \ (1 .. cat.through)
     IN IF new = {} THEN cat.rows[g]
        ELSE [cat.rows[g] EXCEPT !.selected = log[Max(new)].commit, !.last = Max(new),
                                 !.locators = @ \cup new]]]

(* A capture finds its row open, within the endpoint a close froze, and    *)
(* right after the row's selection.                                        *)
Appendable(cat, s) ==
  LET row == cat.rows[log[s].of]
      before == {t \in cat.through + 1 .. s - 1 : log[t].of = log[s].of}
  IN /\ row.phase \in {"open", "closing"}
     /\ row.terminal # <<>> => s <= row.terminal[1]
     /\ log[s].commit = 1 + IF before = {} THEN row.selected ELSE log[Max(before)].commit

(* A root materialized up to the proof of its capture, waiting to join.    *)
Ready(c) == work[c].task = "checkpoint" /\ control[c].root = work[c].to

Stages(cat, n, C) ==
  /\ n \in cat.through + 1 .. Len(log)
  /\ \A c \in C : Ready(c)
  /\ \A s \in cat.through + 1 .. n : Appendable(cat, s)

(* pipeline::publish: a first cohort, and at most one successor staged     *)
(* upon it before it is selected.                                          *)
StageFirst(n, C) ==
  /\ lane = Unheld /\ lease /\ boot = "live"
  /\ Stages(catalog, n, C)
  /\ lane' = [op |-> "first", cell |-> 0, original |-> catalog, joins |-> C, after |-> <<>>,
              cat |-> Appended(Checkpointed(catalog, C), n)]
  /\ UNCHANGED <<boot, lease, catalog, stray, control, pinning, log, kept, active, proved, work,
                 durable, drain>>

StageSecond(n, C) ==
  /\ lane.op = "first" /\ lane.after = <<>> /\ lease
  /\ Stages(lane.cat, n, C \ lane.joins) /\ C \cap lane.joins = {}
  /\ lane' = [lane EXCEPT !.after =
                <<[op |-> "second", cell |-> 0, original |-> lane.cat, joins |-> C,
                   after |-> <<>>, cat |-> Appended(Checkpointed(lane.cat, C), n)]>>]
  /\ UNCHANGED <<boot, lease, catalog, stray, control, pinning, log, kept, active, proved, work,
                 durable, drain>>

StageCheckpoint(C) ==
  /\ lane = Unheld /\ lease /\ boot = "live"
  /\ C # {} /\ \A c \in C : Ready(c)
  /\ lane' = [op |-> "checkpoint", cell |-> 0, original |-> catalog, joins |-> C,
              after |-> <<>>, cat |-> Checkpointed(catalog, C)]
  /\ UNCHANGED <<boot, lease, catalog, stray, control, pinning, log, kept, active, proved, work,
                 durable, drain>>

(* select_catalog: the record is live and still names the catalog the      *)
(* proposal extends.                                                       *)
Selectable(original) == boot = "live" /\ catalog = original

(* Callbacks of the checkpoints join, and the lease is checked again       *)
(* before a selection counts as confirmed.                                 *)
Joined(C) ==
  [c \in BoundCells |-> IF c \in C THEN [work[c] EXCEPT !.task = "idle"] ELSE work[c]]

SelectRound ==
  /\ lane.op \in {"first", "second", "checkpoint"}
  /\ Selectable(lane.original)
  /\ catalog' = lane.cat
  /\ lane' = IF lease /\ lane.after # <<>> THEN lane.after[1] ELSE Unheld
  /\ proved' = IF lease THEN lane.cat.through ELSE proved
  /\ work' = IF lease THEN Joined(lane.joins) ELSE work
  /\ UNCHANGED <<boot, lease, stray, control, pinning, log, kept, active, durable, drain>>

(* An upload or a write fails, or its answer is lost.  The publisher       *)
(* fences its own lease; a bind or a close only reports the error.  A      *)
(* write that timed out may be applied later, where `delayed' says so.     *)
LaneFails(delayed) ==
  /\ lane # Unheld
  /\ lease' = (lease /\ lane.op \notin {"first", "second", "checkpoint"})
  /\ \/ stray' = stray
     \/ /\ delayed /\ stray = {} /\ lane.op \notin {"pin", "pinned"}
        /\ stray' = {[original |-> lane.original, cat |-> lane.cat]}
  /\ lane' = Unheld
  /\ UNCHANGED <<boot, catalog, control, pinning, log, kept, active, proved, work, durable, drain>>

StrayLands ==
  \E w \in stray :
    /\ stray' = {}
    /\ catalog' = IF Selectable(w.original) THEN w.cat ELSE catalog
    /\ UNCHANGED <<boot, lease, lane, control, pinning, log, kept, active, proved, work, durable, drain>>

(***************************************************************************)
(* bind_bundle_cell: the row is reserved before the control is pinned, and *)
(* opened once the pin is confirmed.                                       *)
(***************************************************************************)
Reserve(c) ==
  /\ lane = Unheld /\ lease /\ boot = "live"
  /\ work[c].at = "off" /\ control[c].owner = "here"
  /\ \A t \in 1 .. MaxTerms \ {control[c].term} : Row(<<c, t>>).phase \in {"none", "closed"}
  /\ \/ /\ Row(Now(c)).phase = "none" /\ ~control[c].pin
        /\ Hold("reserve", c, WithRow(catalog, Now(c),
             [NoRow EXCEPT !.phase = "provisional", !.root = control[c].root,
                           !.selected = control[c].root]))
     \/ /\ Row(Now(c)).phase = "provisional" /\ Row(Now(c)).root = control[c].root
        /\ Hold("pin", c, catalog)
     \/ /\ Row(Now(c)).phase = "open" /\ control[c].pin /\ Row(Now(c)).root = control[c].root
        /\ lane' = Unheld
  /\ work' = IF lane' = Unheld THEN [work EXCEPT ![c].at = "serving"] ELSE work
  /\ UNCHANGED <<boot, lease, catalog, stray, control, pinning, log, kept, active, proved, durable, drain>>

Reserved ==
  /\ lane.op = "reserve" /\ Selectable(lane.original)
  /\ catalog' = lane.cat
  /\ lane' = [lane EXCEPT !.op = "pin", !.original = lane.cat]
  /\ UNCHANGED <<boot, lease, stray, control, pinning, log, kept, active, proved, work, durable, drain>>

(* ensure_enrollment, then the pin is written over the control observed.   *)
SendPin ==
  LET c == lane.cell IN
  /\ lane.op = "pin" /\ ~control[c].pin /\ boot = "live"
  /\ Row(Now(c)).phase = "provisional" /\ Row(Now(c)).root = control[c].root
  /\ pinning' = pinning \cup {[cell |-> c, seen |-> control[c]]}
  /\ lane' = [lane EXCEPT !.op = "pinned"]
  /\ UNCHANGED <<boot, lease, catalog, stray, control, log, kept, active, proved, work, durable, drain>>

(* The write is applied when the store gets to it, however late.           *)
PinLands ==
  \E p \in pinning :
    /\ pinning' = pinning \ {p}
    /\ control' = IF control[p.cell] = p.seen
                  THEN [control EXCEPT ![p.cell].pin = TRUE] ELSE control
    /\ UNCHANGED <<boot, lease, catalog, lane, stray, log, kept, active, proved, work, durable, drain>>

PinConfirmed ==
  LET c == lane.cell IN
  /\ lane.op \in {"pin", "pinned"} /\ control[c].pin
  /\ lane' = [lane EXCEPT !.op = "open",
                          !.cat = WithRow(lane.original, Now(c),
                                    [lane.original.rows[Now(c)] EXCEPT !.phase = "open"])]
  /\ UNCHANGED <<boot, lease, catalog, stray, control, pinning, log, kept, active, proved, work,
                 durable, drain>>

Opened ==
  /\ lane.op = "open" /\ Selectable(lane.original)
  /\ catalog' = lane.cat
  /\ lane' = Unheld
  /\ work' = IF lease THEN [work EXCEPT ![lane.cell].at = "serving"] ELSE work
  /\ UNCHANGED <<boot, lease, stray, control, pinning, log, kept, active, proved, durable, drain>>

(***************************************************************************)
(* The Cells of the boot: captures, roots and departure.                   *)
(***************************************************************************)
LastCommit(c) == Max({control[c].root} \cup CommitsOf(Issued(Now(c), Len(log))))

(* A command of a bound Cell.  Its commit follows the last one: a commit   *)
(* that the log did not take fences the actor.  (The gate alone would let  *)
(* an unbound Cell leave numbers out.)                                     *)
Issue(c) ==
  /\ lease /\ work[c].at = "serving" /\ Len(log) < MaxCaptures
  /\ log' = Append(log, [of |-> Now(c), commit |-> LastCommit(c) + 1])
  /\ UNCHANGED <<boot, lease, catalog, lane, stray, control, pinning, kept, active, proved, work,
                 durable, drain>>

FollowersKeep ==
  /\ durable = -1 /\ kept < Len(log)
  /\ kept' = kept + 1
  /\ UNCHANGED <<boot, lease, catalog, lane, stray, control, pinning, log, active, proved, work,
                 durable, drain>>

(* The first proof of the followers marks the log active in the record.    *)
ActivateLog ==
  /\ boot = "live" /\ ~active /\ kept > 0
  /\ active' = TRUE
  /\ UNCHANGED <<boot, lease, catalog, lane, stray, control, pinning, log, kept, proved, work,
                 durable, drain>>

(* A root is prepared at the end of a capture whose selection is confirmed *)
(* and written over the control the publisher holds.                       *)
Materialize(c) ==
  /\ lease /\ work[c].at \in {"serving", "draining"} /\ work[c].task = "idle"
  /\ \E k \in CommitsOf(Issued(Now(c), proved)) :
       /\ k > control[c].root
       /\ work' = [work EXCEPT ![c].task = "root", ![c].to = k, ![c].seen = control[c]]
  /\ UNCHANGED <<boot, lease, catalog, lane, stray, control, pinning, log, kept, active, proved,
                 durable, drain>>

RootLands(c) ==
  /\ work[c].task = "root"
  /\ LET applied == control[c] = work[c].seen IN
     /\ control' = IF applied THEN [control EXCEPT ![c].root = work[c].to] ELSE control
     /\ work' = [work EXCEPT ![c].task = IF applied /\ lease THEN "checkpoint" ELSE "idle",
                             ![c].seen = <<>>]
  /\ UNCHANGED <<boot, lease, catalog, lane, stray, pinning, log, kept, active, proved, durable, drain>>

(* The actor admits no more commands and joins its SQL and capture work.   *)
StopCell(c) ==
  /\ lease /\ work[c].at = "serving"
  /\ work' = [work EXCEPT ![c].at = "draining"]
  /\ UNCHANGED <<boot, lease, catalog, lane, stray, control, pinning, log, kept, active, proved,
                 durable, drain>>

(* close_cell_issuance: the last capture of the generation and its commit, *)
(* or the root where none was issued.                                      *)
IssuedRange(c) ==
  LET S == Issued(Now(c), Len(log))
  IN IF S = {} THEN <<0, control[c].root>> ELSE <<Max(S), log[Max(S)].commit>>

(* close: checkpoint the whole selection, freeze the issued endpoint, and  *)
(* close the row where the selection has reached it.                       *)
CloseCell(c) ==
  /\ lane = Unheld /\ lease /\ boot = "live"
  /\ work[c].at = "draining" /\ work[c].task = "idle"
  /\ proved >= IssuedRange(c)[1]
  /\ Row(Now(c)).phase \in {"open", "closing"}
  /\ control[c].root = Row(Now(c)).selected
  /\ Hold("freeze", c, Checkpointed(catalog, {c}))
  /\ UNCHANGED <<boot, lease, catalog, stray, control, pinning, log, kept, active, proved, work,
                 durable, drain>>

Endpoint(row) == <<row.last, row.selected>>

Frozen ==
  LET c == lane.cell
      row == lane.cat.rows[Now(c)] IN
  /\ lane.op = "freeze" /\ Selectable(lane.original)
  /\ catalog' = lane.cat
  /\ lane' = IF row.terminal \notin {<<>>, IssuedRange(c)} THEN Unheld
             ELSE [lane EXCEPT !.op = "begin", !.original = lane.cat,
                     !.cat = WithRow(lane.cat, Now(c),
                               [row EXCEPT !.phase = "closing", !.terminal = IssuedRange(c)])]
  /\ UNCHANGED <<boot, lease, stray, control, pinning, log, kept, active, proved, work, durable, drain>>

CloseBegun ==
  LET c == lane.cell
      row == lane.cat.rows[Now(c)] IN
  /\ lane.op = "begin" /\ Selectable(lane.original)
  /\ catalog' = lane.cat
  /\ lane' = IF row.terminal # Endpoint(row) THEN Unheld
             ELSE [lane EXCEPT !.op = "finish", !.original = lane.cat,
                     !.cat = WithRow(lane.cat, Now(c), [row EXCEPT !.phase = "closed"])]
  /\ UNCHANGED <<boot, lease, stray, control, pinning, log, kept, active, proved, work, durable, drain>>

CloseFinished ==
  /\ lane.op = "finish" /\ Selectable(lane.original)
  /\ catalog' = lane.cat
  /\ lane' = Unheld
  /\ work' = IF lease THEN [work EXCEPT ![lane.cell].at = "closed"] ELSE work
  /\ UNCHANGED <<boot, lease, stray, control, pinning, log, kept, active, proved, durable, drain>>

(* ensure_departure, for every transition that takes a control away.       *)
MayDepart(c) ==
  LET row == Row(Now(c)) IN
  control[c].pin =>
    /\ row.phase = "closed" /\ row.locators = {}
    /\ control[c].root = row.selected /\ row.root = control[c].root

Departed(c, owner) ==
  control' = [control EXCEPT ![c].owner = owner, ![c].pin = FALSE]

(* A Cell that was closed, or that was never bound, is released.           *)
Release(c) ==
  /\ control[c].owner = "here" /\ MayDepart(c)
  /\ \/ work[c].at = "closed"
     \/ work[c].at = "off" /\ lease /\ ~control[c].pin /\ lane.cell # c
  /\ Departed(c, "none")
  /\ work' = [work EXCEPT ![c] = Off]
  /\ UNCHANGED <<boot, lease, catalog, lane, stray, pinning, log, kept, active, proved, durable, drain>>

Acquire(c) ==
  /\ lease /\ boot = "live"
  /\ control[c].owner = "none" /\ control[c].term < MaxTerms
  /\ control' = [control EXCEPT ![c].owner = "here", ![c].term = @ + 1]
  /\ UNCHANGED <<boot, lease, catalog, lane, stray, pinning, log, kept, active, proved, work,
                 durable, drain>>

(***************************************************************************)
(* The end of the boot.  Recovery finishes every row before the session is *)
(* sealed and its Cells may be taken over.                                 *)
(***************************************************************************)
LoseLease ==
  /\ lease /\ lease' = FALSE
  /\ UNCHANGED <<boot, catalog, lane, stray, control, pinning, log, kept, active, proved, work,
                 durable, drain>>

(* The record expires after the guard.                                     *)
FenceBoot ==
  /\ boot = "live" /\ ~lease
  /\ boot' = "fenced"
  /\ UNCHANGED <<lease, catalog, lane, stray, control, pinning, log, kept, active, proved, work,
                 durable, drain>>

\* Mutant: a reservation does not hold the session back.
FinishedOpen(row) ==
  row.phase \notin {"none", "provisional"} => row.phase = "closed" /\ row.locators = {}

(* ensure_session_drained                                                  *)
Finished(row) == row.phase # "none" => row.phase = "closed" /\ row.locators = {}

Withdraw ==
  /\ boot = "live" /\ lease /\ lane = Unheld
  /\ catalog.through = Len(log) /\ \A g \in Generations : Finished(Row(g))
  /\ boot' = "withdrawn" /\ lease' = FALSE
  /\ UNCHANGED <<catalog, lane, stray, control, pinning, log, kept, active, proved, work, durable, drain>>

\* Mutant: the lanes are sealed at the selection.
SealLanesSelected ==
  /\ boot = "fenced" /\ active /\ durable = -1
  /\ durable' = catalog.through
  /\ UNCHANGED <<boot, lease, catalog, lane, stray, control, pinning, log, kept, active, proved,
                 work, drain>>

(* Sealed lanes hold what the followers kept and what was selected.  Only  *)
(* an active log is listed for recovery (RecoveryCandidateRecord).         *)
SealLanes ==
  /\ boot = "fenced" /\ active /\ durable = -1
  /\ durable' \in Max({kept, catalog.through}) .. Len(log)
  /\ UNCHANGED <<boot, lease, catalog, lane, stray, control, pinning, log, kept, active, proved,
                 work, drain>>

Unpinned(g) == Row(g).phase = "provisional" /\ ~(g = Now(g[1]) /\ control[g[1]].pin)

(* The rows an attempt must finish on their Cells.                         *)
Scopes(unpinned) == {g \in Generations : Row(g).phase \notin {"none", "closed"}} \ unpinned

(* BundleRecoveryDrain::open and observe refuse no inventory: a closed row *)
(* ends at its selection, a row still to finish has its Cell, pinned here, *)
(* and every sealed capture belongs to a row that admits it.               *)
Admits(unpinned) ==
  /\ \A g \in Generations : Row(g).phase = "closed" =>
       Row(g).terminal = Endpoint(Row(g)) /\ Row(g).locators = {}
  /\ \A g \in Scopes(unpinned) :
       /\ g = Now(g[1]) /\ control[g[1]].pin /\ control[g[1]].owner = "here"
       /\ Row(g).phase = "provisional" => control[g[1]].root = Row(g).root
  /\ \A s \in 1 .. durable :
       LET g == log[s].of IN
       \/ Row(g).phase = "closed" /\ s <= Row(g).last
       \/ g \in Scopes(unpinned) /\ Row(g).phase # "provisional"

OpenDrain ==
  LET unpinned == {g \in Generations : Unpinned(g)} IN
  /\ boot = "fenced" /\ durable # -1 /\ ~drain.open
  /\ Admits(unpinned)
  /\ drain' = [open |-> TRUE, unpinned |-> unpinned]
  /\ UNCHANGED <<boot, lease, catalog, lane, stray, control, pinning, log, kept, active, proved, work,
                 durable>>

(* Where a row ends: its selection, or a later sealed capture.             *)
Terminal(g) ==
  LET later == {s \in Issued(g, durable) : s > Row(g).last}
  IN IF later = {} THEN Endpoint(Row(g)) ELSE <<Max(later), log[Max(later)].commit>>

(* The suffix beyond the Cell's root is attached as an overlay.            *)
Attach(c) ==
  /\ drain.open /\ Now(c) \in Scopes(drain.unpinned) /\ Row(Now(c)).phase # "provisional"
  /\ control[c].overlay = 0 /\ control[c].root < Terminal(Now(c))[2]
  /\ control' = [control EXCEPT ![c].overlay = Terminal(Now(c))[2]]
  /\ UNCHANGED <<boot, lease, catalog, lane, stray, pinning, log, kept, active, proved, work, durable,
                 drain>>

PublishRecovery(c) ==
  /\ drain.open /\ control[c].overlay # 0
  /\ control' = [control EXCEPT ![c].root = control[c].overlay, ![c].overlay = 0]
  /\ UNCHANGED <<boot, lease, catalog, lane, stray, pinning, log, kept, active, proved, work, durable,
                 drain>>

(* complete: every Cell stands at its terminal, and one write closes every *)
(* row; a reservation that was not pinned closes at its own base.          *)
Complete ==
  LET ends == Scopes(drain.unpinned)
      Closed(g, root, terminal) ==
        [Row(g) EXCEPT !.phase = "closed", !.root = root, !.selected = terminal[2],
                       !.last = terminal[1], !.terminal = terminal, !.locators = {}]
  IN
  /\ drain.open
  /\ \A g \in ends :
       /\ g = Now(g[1]) /\ control[g[1]].pin
       /\ control[g[1]].overlay = 0 /\ control[g[1]].root = Terminal(g)[2]
  /\ catalog' =
       [through |-> durable,
        rows |-> [g \in Generations |->
          CASE g \in ends -> Closed(g, control[g[1]].root, Terminal(g))
            [] g \in drain.unpinned -> Closed(g, Row(g).root, Endpoint(Row(g)))
            [] OTHER -> Row(g)]]
  /\ drain' = NoAttempt
  /\ UNCHANGED <<boot, lease, lane, stray, control, pinning, log, kept, active, proved, work, durable>>

(* The claimant stops or is replaced; the next attempt reads again.        *)
AttemptEnds ==
  /\ drain.open /\ drain' = NoAttempt
  /\ UNCHANGED <<boot, lease, catalog, lane, stray, control, pinning, log, kept, active, proved, work,
                 durable>>

SealBoot ==
  /\ boot = "fenced" /\ durable # -1 /\ ~drain.open
  /\ \A g \in Generations : Finished(Row(g))
  /\ boot' = "sealed"
  /\ UNCHANGED <<lease, catalog, lane, stray, control, pinning, log, kept, active, proved, work, durable,
                 drain>>

(* takeover_proof: an inactive log needs no seal.                          *)
TakeoverReady == \/ boot \in {"sealed", "withdrawn"}
                 \/ boot = "fenced" /\ ~active

Takeover(c) ==
  /\ TakeoverReady
  /\ control[c].owner = "here" /\ MayDepart(c)
  /\ Departed(c, "other")
  /\ UNCHANGED <<boot, lease, catalog, lane, stray, pinning, log, kept, active, proved, work, durable,
                 drain>>

CellMoves(c) ==
  \/ Reserve(c) \/ Issue(c) \/ Materialize(c) \/ RootLands(c) \/ StopCell(c)
  \/ CloseCell(c) \/ Release(c)
  \/ Attach(c) \/ PublishRecovery(c) \/ Takeover(c)

LaneMoves(delayed) ==
  \/ \E n \in 1 .. Len(log), C \in SUBSET BoundCells : StageFirst(n, C) \/ StageSecond(n, C)
  \/ \E C \in SUBSET BoundCells : StageCheckpoint(C)
  \/ SelectRound \/ LaneFails(delayed) \/ StrayLands
  \/ Reserved \/ SendPin \/ PinLands \/ PinConfirmed \/ Opened
  \/ Frozen \/ CloseBegun \/ CloseFinished

BootMoves ==
  \/ FollowersKeep \/ ActivateLog \/ LoseLease \/ FenceBoot \/ Withdraw
  \/ SealLanes \/ OpenDrain \/ Complete \/ AttemptEnds \/ SealBoot

(* `again': late writes happen, and released Cells come back to this boot. *)
BundlesStep(again) ==
  \/ \E c \in BoundCells : CellMoves(c) \/ (again /\ Acquire(c))
  \/ LaneMoves(again)
  \/ BootMoves

BundlesSpec == BundlesInit(BoundCells, {}) /\ [][BundlesStep(TRUE)]_bundleVars

(***************************************************************************)
(* Properties.                                                             *)
(***************************************************************************)
(* The selected catalog rebuilds every capture it covers: what a row's     *)
(* root does not hold, its locators name, without a gap and nothing more;  *)
(* the Cell's own root is never behind the row's.  A capture that is not   *)
(* yet covered can still be appended: no close froze its row below it.     *)
SelectionReconstructs ==
  /\ \A g \in Generations : Row(g).phase # "none" =>
       Row(g).locators = {s \in Issued(g, catalog.through) : log[s].commit > Row(g).root}
  /\ \A c \in BoundCells : Row(Now(c)).phase # "none" => control[c].root >= Row(Now(c)).root
  /\ boot = "live" =>
       \A s \in catalog.through + 1 .. Len(log) : Appendable(catalog, s)

(* A Cell that left this boot, or left the term in which it was bound,     *)
(* took along every capture of it that a follower keeps or that was        *)
(* confirmed as selected: an acknowledged command survives the departure   *)
(* whether the Cell was closed, recovered or never reached its pin.        *)
DepartsWhole ==
  \A s \in 1 .. Max({kept, proved}) :
    LET c == log[s].of[1] IN
    (log[s].of # Now(c) \/ control[c].owner # "here") => control[c].root >= log[s].commit

(* A fenced boot whose log is active can always be drained: no inventory   *)
(* that recovery meets is refused for good.  Once the boot is sealed or    *)
(* withdrawn every Cell still pinned to it may depart, also one whose pin  *)
(* was written only after its row was closed.  A boot fenced before its    *)
(* log was activated is not listed for recovery, and nothing is said of it.*)
FencedBootDrains ==
  /\ boot = "fenced" /\ durable # -1 =>
       /\ Admits({g \in Generations : Unpinned(g)})
       /\ \A g \in Scopes({h \in Generations : Unpinned(h)}) :
            control[g[1]].root <= Terminal(g)[2]
  /\ boot \in {"sealed", "withdrawn"} => \A c \in BoundCells : MayDepart(c)
=============================================================================
