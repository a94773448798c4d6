------------------------------- MODULE Catalog ------------------------------
(***************************************************************************)
(* The catalog of Cells: per shard a head, replaced by compare-and-set,    *)
(* that lists immutable pages of entries in Cell order.  Provisioners      *)
(* insert entries concurrently, with replies that are lost and requests    *)
(* that land late; a complete scan captures every head, reads the pages    *)
(* and checks the heads again.  The revision stands for the head's ETag,   *)
(* and a page for its digest.                                              *)
(***************************************************************************)
EXTENDS Integers, SequencesExt

CONSTANTS
    ShardOf,         \* the shard of each Cell; Cells are numbers, in key order
    Codes,           \* the contents that tell two entries of a Cell apart
    Provisioners,
    PerPage,         \* ENTRIES_PER_PAGE
    MaxPages,        \* MAX_PAGES
    ScanLimit,       \* rows a complete scan may return
    MaxFlight        \* bound: requests that outlive their answer

Cells == DOMAIN ShardOf
Shards == Range(ShardOf)

ASSUME CatalogAssumption ==
    /\ Cells \subseteq Nat /\ Shards \subseteq Nat /\ ScanLimit \in Nat /\ MaxFlight \in Nat
    /\ PerPage \in Nat \ {0} /\ MaxPages \in Nat \ {0}

VARIABLES
    heads,      \* the head of each shard
    prov,       \* provisioners
    flight,     \* head updates whose answer came before they landed
    scan        \* a complete scan

catVars == <<heads, prov, flight, scan>>

NoHead == [revision |-> 0, pages |-> <<>>]
Entry == [cell : Cells, code : Codes]
EntriesOf(head) == Range(FlattenSeq(head.pages))

IdleProvisioner == [pc |-> "Idle", entry |-> "none", token |-> 0, next |-> NoHead]
IdleScan == [pc |-> "Idle", heads |-> <<>>, checked |-> 0, rows |-> {}, current |-> {}]

CatInit ==
    /\ heads = [s \in Shards |-> NoHead]
    /\ prov = [p \in Provisioners |-> IdleProvisioner]
    /\ flight = {} /\ scan = IdleScan

-----------------------------------------------------------------------------
(* Pages. *)

\* Mutant: a Cell that is the first of its page is looked for in the page before.
PageIndexBelow(pages, cell) == Cardinality({i \in DOMAIN pages : pages[i][1].cell < cell})
\* CatalogHead::page_index; 0 when the Cell sorts below every entry.
PageIndex(pages, cell) == Cardinality({i \in DOMAIN pages : pages[i][1].cell <= cell})

\* CellCatalog::lookup: the entry of a Cell, in a set.
Lookup(head, cell) ==
    LET i == PageIndex(head.pages, cell)
    IN  IF i = 0 THEN {} ELSE {e \in Range(head.pages[i]) : e.cell = cell}

Inserted(entries, e) ==
    InsertAt(entries, Cardinality({i \in DOMAIN entries : entries[i].cell < e.cell}) + 1, e)

Chunks(entries) ==
    [i \in 1 .. (Len(entries) + PerPage - 1) \div PerPage |->
        SubSeq(entries, (i - 1) * PerPage + 1, IF i * PerPage < Len(entries) THEN i * PerPage ELSE Len(entries))]

Halves(entries) ==
    LET half == Len(entries) \div 2
    IN  <<SubSeq(entries, 1, half), SubSeq(entries, half + 1, Len(entries))>>

\* insert_entry repacks the pages before it reports that the shard is full.
Full(pages) == Len(FlattenSeq(pages)) >= PerPage * MaxPages

\* insert_entry, once the page that can hold the Cell does not: the pages that replace it.
PagesWith(pages, index, e) ==
    LET page == Inserted(pages[index], e) IN
    IF Len(page) <= PerPage THEN ReplaceAt(pages, index, page)
    ELSE IF Len(pages) = MaxPages THEN Chunks(Inserted(FlattenSeq(pages), e))
    ELSE SubSeq(pages, 1, index - 1) \o Halves(page) \o SubSeq(pages, index + 1, Len(pages))

\* The page insert_entry looks at.
Target(pages, cell) == IF PageIndex(pages, cell) = 0 THEN 1 ELSE PageIndex(pages, cell)

-----------------------------------------------------------------------------
(* CellCatalog::provision. *)

Shard(p) == ShardOf[prov[p].entry.cell]
Becomes(p, pc) == prov' = [prov EXCEPT ![p].pc = pc, ![p].token = 0, ![p].next = NoHead]

Provision(p, requests) ==
    /\ prov[p].pc = "Idle"
    /\ \E e \in requests : prov' = [prov EXCEPT ![p].pc = "Load", ![p].entry = e]
    /\ UNCHANGED <<heads, flight, scan>>

\* load_head and insert_entry: pages are immutable, so what they hold does not depend on when
\* they are read.
Prepare(p) ==
    LET e == prov[p].entry
        head == heads[Shard(p)]
        index == Target(head.pages, e.cell)
        present == head.pages # <<>> /\ e \in Range(head.pages[index])
        taken == head.pages # <<>> /\ \E f \in Range(head.pages[index]) : f.cell = e.cell
        overflows == head.pages # <<>> /\ Len(head.pages[index]) >= PerPage /\ Len(head.pages) = MaxPages
    IN  /\ prov[p].pc = "Load"
        /\ \/ present /\ Becomes(p, "Proved")
           \/ taken /\ ~present /\ Becomes(p, "Collision")
           \/ ~taken /\ overflows /\ Full(head.pages) /\ Becomes(p, "Full")
           \/ /\ ~taken /\ ~(overflows /\ Full(head.pages))
              /\ prov' = [prov EXCEPT ![p].pc = "Publish", ![p].token = head.revision,
                    ![p].next = [revision |-> head.revision + 1,
                                 pages |-> IF head.pages = <<>> THEN << <<e>> >>
                                           ELSE PagesWith(head.pages, index, e)]]
        /\ UNCHANGED <<heads, flight, scan>>

Matches(s, token) == heads[s].revision = token

\* The update lands, and its answer arrives or is lost.
Publish(p) ==
    /\ prov[p].pc = "Publish" /\ Matches(Shard(p), prov[p].token)
    /\ heads' = [heads EXCEPT ![Shard(p)] = prov[p].next]
    /\ \E pc \in {"Proved", "Confirm"} : Becomes(p, pc)
    /\ UNCHANGED <<flight, scan>>

\* The update fails: another came first, or the request was lost, or it is still under way.
PublishFails(p) ==
    /\ prov[p].pc = "Publish"
    /\ \/ UNCHANGED flight
       \/ /\ Cardinality(flight) < MaxFlight
          /\ flight' = flight \cup {[shard |-> Shard(p), token |-> prov[p].token, next |-> prov[p].next]}
    /\ Becomes(p, "Confirm")
    /\ UNCHANGED <<heads, scan>>

\* The failed update lands after all, or meets another head.
FlightEnds ==
    \E f \in flight :
        /\ flight' = flight \ {f}
        /\ heads' = IF Matches(f.shard, f.token) THEN [heads EXCEPT ![f.shard] = f.next] ELSE heads
        /\ UNCHANGED <<prov, scan>>

\* lookup_after_failed_publish compares the whole entry.
Agrees(p, found) == found = {prov[p].entry}

\* After a failure the entry is looked up; a retryable error starts again, another is returned.
Confirm(p) ==
    LET found == Lookup(heads[Shard(p)], prov[p].entry.cell) IN
    /\ prov[p].pc = "Confirm"
    /\ \/ Agrees(p, found) /\ Becomes(p, "Proved")
       \/ found # {} /\ ~Agrees(p, found) /\ Becomes(p, "Collision")
       \/ found = {} /\ \E pc \in {"Load", "Failed"} : Becomes(p, pc)
    /\ UNCHANGED <<heads, flight, scan>>

\* The caller has its answer, and may provision another Cell.
Return(p) ==
    /\ prov[p].pc \in {"Proved", "Collision", "Full", "Failed"}
    /\ prov' = [prov EXCEPT ![p] = IdleProvisioner]
    /\ UNCHANGED <<heads, flight, scan>>

-----------------------------------------------------------------------------
(* CatalogScan.  Shards are visited in order. *)

InOrder == SetToSortSeq(Shards, <)
AllEntries(hs) == UNION {EntriesOf(hs[s]) : s \in Shards}

\* scan_all: one head after the other; `current` is what the catalog holds as the last is read.
Capture ==
    /\ scan.pc \in {"Idle", "Capture"} /\ Len(scan.heads) < Len(InOrder)
    /\ LET captured == Append(scan.heads, heads[InOrder[Len(scan.heads) + 1]])
           complete == Len(captured) = Len(InOrder)
       IN  scan' = [scan EXCEPT !.pc = IF complete THEN "Read" ELSE "Capture", !.heads = captured,
                                !.current = IF complete THEN AllEntries(heads) ELSE {}]
    /\ UNCHANGED <<heads, prov, flight>>

\* CatalogScan::next_page until it is exhausted or exceeds its limit.
ReadPages ==
    LET rows == UNION {EntriesOf(scan.heads[i]) : i \in DOMAIN scan.heads} IN
    /\ scan.pc = "Read"
    /\ scan' = IF Cardinality(rows) > ScanLimit THEN [scan EXCEPT !.pc = "Failed"]
               ELSE [scan EXCEPT !.pc = "Check", !.rows = rows]
    /\ UNCHANGED <<heads, prov, flight>>

\* Mutant: a shard without a head needs no second look.
UnchangedIfAny(i) == scan.heads[i].revision = 0 \/ scan.heads[i] = heads[InOrder[i]]
UnchangedHead(i) == scan.heads[i] = heads[InOrder[i]]

\* CatalogScanReceipt::revalidate: one head after the other, against the captured one.
Recheck ==
    LET i == scan.checked + 1 IN
    /\ scan.pc = "Check"
    /\ scan' = IF ~UnchangedHead(i) THEN [scan EXCEPT !.pc = "Failed"]
               ELSE [scan EXCEPT !.pc = IF i = Len(InOrder) THEN "Receipt" ELSE "Check", !.checked = i]
    /\ UNCHANGED <<heads, prov, flight>>

-----------------------------------------------------------------------------

Provisioning(p, requests) ==
    Provision(p, requests) \/ Prepare(p) \/ Publish(p) \/ PublishFails(p) \/ Confirm(p) \/ Return(p)
CatStep(requests) == FlightEnds \/ \E p \in Provisioners : Provisioning(p, requests[p])
ScanStep == Capture \/ ReadPages \/ Recheck
CatNext == CatStep([p \in Provisioners |-> Entry]) \/ ScanStep

CatSpec == CatInit /\ [][CatNext]_catVars

-----------------------------------------------------------------------------
(* Properties. *)

\* Part of ProvedIsFound: through splits and repacking the pages of a head stay within their
\* limits and in order, and every insertion was kept: the revision counts the entries
\* (load_located_page, load_entries, insert_entry).
PagesAreOrdered ==
    \A s \in Shards :
        LET head == heads[s]
            all == FlattenSeq(head.pages)
        IN  /\ Len(head.pages) <= MaxPages /\ Len(all) = head.revision
            /\ \A i \in DOMAIN head.pages : Len(head.pages[i]) \in 1 .. PerPage
            /\ \A i, j \in DOMAIN all : i < j => all[i].cell < all[j].cell
            /\ \A i \in DOMAIN all : ShardOf[all[i].cell] = s

\* A Cell whose provisioning is confirmed is in the catalog with the contents confirmed, and
\* every entry of a head is found in the one page its locator names, whichever provisioners
\* raced for the head and whichever answers were lost (CellCatalog::provision, lookup).
ProvedIsFound ==
    /\ PagesAreOrdered
    /\ \A p \in Provisioners :
        prov[p].pc = "Proved" => Lookup(heads[Shard(p)], prov[p].entry.cell) = {prov[p].entry}
    /\ \A s \in Shards : \A e \in EntriesOf(heads[s]) : Lookup(heads[s], e.cell) = {e}

\* The heads are read and checked one by one, yet the rows behind a receipt are exactly what
\* the catalog held at one instant (CatalogScan::finish, CatalogScanReceipt::revalidate).
ReceiptIsOneInstant == scan.pc = "Receipt" => scan.rows = scan.current

=============================================================================
