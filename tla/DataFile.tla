------------------------------ MODULE DataFile ------------------------------
(***************************************************************************)
(* The layout of data.ruzu: the header in page 0 and three sections (the   *)
(* catalog, the node tables, the relationship tables), each a length       *)
(* prefix and its bytes over a contiguous range of pages (save_all_data,   *)
(* load_database and the multi-page functions of src/lib.rs, PageRange and *)
(* DatabaseHeader of src/storage/mod.rs, DiskManager).                     *)
(*                                                                         *)
(* A checkpoint writes the sections and the header into the buffer pool,   *)
(* and then flush_all writes the dirty pages in any order; the process may *)
(* be killed before every page write.  What replay_wal adds after a crash  *)
(* is the business of module Database: here memory after an open is what   *)
(* the file yields.                                                        *)
(*                                                                         *)
(* The bytes of a section are a version number and a length.  A page is    *)
(* zero, the header, or the i-th chunk of a section.  Chunks of different  *)
(* versions, or chunks of another section, do not decode.                  *)
(***************************************************************************)
EXTENDS Integers, Sequences

CONSTANTS
  PageSize,       \* PAGE_SIZE
  Lengths,        \* byte lengths a section may have, never 0
  StartVersions,  \* format of the file at the start, 0: there is none
  MaxUpdates,     \* bound on the changes of a behaviour
  MaxStops        \* bound on the crashes and exits of a behaviour

ASSUME PageSizeAssumption == PageSize \in Nat /\ PageSize > 4
ASSUME LengthsAssumption ==
  /\ Lengths \subseteq Nat \ {0}
  /\ \E n \in Lengths : n + 4 <= PageSize   \* fits a page, as in an old file
ASSUME StartAssumption == StartVersions \subseteq 0 .. 3
ASSUME FileBoundsAssumption == MaxUpdates \in Nat /\ MaxStops \in Nat

VARIABLES
  pc,       \* "down", "idle", "flush" (in flush_all) or "failed" (a save error)
  mem,      \* the sections in memory
  header,   \* the DatabaseHeader in memory
  next,     \* DiskManager.next_page_idx
  dirty,    \* the dirty pages of the buffer pool
  disk,     \* the pages of data.ruzu, 0 .. its length - 1
  acked,    \* the sections of the last finished checkpoint, NoAck after a
            \* checkpoint was cut short
  opened,   \* what the last open returned: "ok" or "error"
  updates,  \* changes so far
  stops     \* crashes and exits so far

vars == <<pc, mem, header, next, dirty, disk, acked, opened, updates, stops>>

Sections == {"catalog", "nodes", "rels"}
Prefix == 4
CurrentVersion == 3

\* A catalog or a map without tables; its bytes take one page like any other.
Empty == [ver |-> 0, len |-> 0]
Undecodable == [ver |-> -1, len |-> 0]
NoAck == [s \in Sections |-> Undecodable]

-----------------------------------------------------------------------------
(* Pages and ranges *)

Zero == [kind |-> "zero"]
Chunk(s, v, i) == [kind |-> "chunk", sec |-> s, val |-> v, idx |-> i]
HeaderPage(h) == [kind |-> "header", version |-> h.version, ranges |-> h.ranges]

PageRange(start, num) == [start_page |-> start, num_pages |-> num]
EndPage(r) == r.start_page + r.num_pages
PagesOf(r) == r.start_page .. EndPage(r) - 1
ByteCapacity(r) == r.num_pages * PageSize

Overlaps(a, b) ==
  /\ a.num_pages # 0 /\ b.num_pages # 0
  /\ a.start_page < EndPage(b) /\ b.start_page < EndPage(a)

\* Seeded fault: the length prefix is not counted.
PagesNeededNoPrefix(len) == (len + PageSize - 1) \div PageSize

\* calculate_pages_needed
PagesNeeded(len) == (len + Prefix + PageSize - 1) \div PageSize

\* DatabaseHeader::validate_ranges
ValidRanges(h) ==
  /\ \A s \in Sections : ~Overlaps(h.ranges[s], PageRange(0, 1))
  /\ \A s, t \in Sections : s # t => ~Overlaps(h.ranges[s], h.ranges[t])

\* read_page: a page beyond the end of the file is zero.
PageAt(pages, p) == IF p \in DOMAIN pages THEN pages[p] ELSE Zero

\* File::set_len
SetLen(pages, n) == [p \in 0 .. n - 1 |-> PageAt(pages, p)]

\* write_page extends the file if it has to.
WritePage(pages, p, content) ==
  [q \in DOMAIN pages \cup 0 .. p |-> IF q = p THEN content ELSE PageAt(pages, q)]

\* read_multi_page and the deserialization of section s: a zero prefix is an
\* empty section, the prefix must fit the range, and every chunk must be the
\* right one.
ReadSection(pages, r, s) ==
  LET first == PageAt(pages, r.start_page)
      Decodes(v) ==
        /\ v.len + Prefix <= ByteCapacity(r)
        /\ \A i \in 0 .. PagesNeeded(v.len) - 1 :
             PageAt(pages, r.start_page + i) = Chunk(s, v, i)
  IN  IF r.num_pages = 0 \/ first = Zero THEN Empty
      ELSE IF first.kind = "chunk" /\ Decodes(first.val) THEN first.val
      ELSE Undecodable

\* write_multi_page into the pool: the payload, and zero pages behind it.
WriteSection(pages, r, s, v) ==
  [p \in DOMAIN pages \cup PagesOf(r) |->
    IF p \notin PagesOf(r) THEN pages[p]
    ELSE IF p - r.start_page < PagesNeeded(v.len) THEN Chunk(s, v, p - r.start_page)
    ELSE Zero]

-----------------------------------------------------------------------------
(* Opening *)

FixedRanges ==
  [s \in Sections |->
    PageRange(CASE s = "catalog" -> 1 [] s = "nodes" -> 2 [] OTHER -> 3, 1)]

\* A file that an earlier format left: version 1 knows no relationships and
\* ends with page 2.
OldHeader(v) ==
  [version |-> v,
   ranges |-> [s \in (IF v = 1 THEN Sections \ {"rels"} ELSE Sections) |-> FixedRanges[s]]]
OldSections(v) ==
  [s \in Sections |->
    IF v = 1 /\ s = "rels" THEN Empty
    ELSE [ver |-> 0, len |-> CHOOSE n \in Lengths : PagesNeeded(n) = 1]]
OldFile(v) ==
  [p \in 0 .. (IF v = 1 THEN 2 ELSE 3) |->
    IF p = 0 THEN HeaderPage(OldHeader(v))
    ELSE LET s == CHOOSE t \in Sections : FixedRanges[t].start_page = p
         IN  Chunk(s, OldSections(v)[s], 0)]

Init ==
  /\ pc = "down"
  /\ mem = [s \in Sections |-> Empty]
  /\ header = OldHeader(CurrentVersion)
  /\ next = 0
  /\ dirty = [p \in {} |-> Zero]
  /\ \E v \in StartVersions :
       /\ disk = IF v = 0 THEN [p \in {} |-> Zero] ELSE OldFile(v)
       /\ acked = IF v = 0 THEN NoAck ELSE OldSections(v)
  /\ opened = "ok"
  /\ updates = 0
  /\ stops = 0

FileLen(pages) == IF DOMAIN pages = {} THEN 0
                  ELSE 1 + CHOOSE p \in DOMAIN pages : \A q \in DOMAIN pages : q <= p

\* open without a file: pages 0 .. 3 are reserved, nothing is written.
OpenNew ==
  /\ pc = "down" /\ DOMAIN disk = {}
  /\ header' = OldHeader(CurrentVersion)
  /\ disk' = SetLen(disk, 4)
  /\ next' = 4
  /\ mem' = [s \in Sections |-> Empty]
  /\ pc' = "idle" /\ opened' = "ok"
  /\ UNCHANGED <<dirty, acked, updates, stops>>

\* Seeded fault: a version 2 header is taken for one without relationships.
MigratedNoRels(page) ==
  [version |-> CurrentVersion,
   ranges |-> [s \in Sections |->
     IF s \in DOMAIN page.ranges /\ (s # "rels" \/ page.version = CurrentVersion)
     THEN page.ranges[s] ELSE PageRange(0, 0)]]

\* deserialize_with_migration_flag: every version becomes version 3, and
\* from_v1 puts the relationships into page 3.
Migrated(page) ==
  [version |-> CurrentVersion,
   ranges |-> [s \in Sections |->
     IF s \in DOMAIN page.ranges THEN page.ranges[s] ELSE PageRange(3, 1)]]

\* The bounds check of load_database, skipped for a migrated header.
InBounds(page) ==
  \/ page.version # CurrentVersion
  \/ \A s \in Sections : EndPage(page.ranges[s]) <= FileLen(disk)

Loaded(page) ==
  [s \in Sections |-> ReadSection(disk, Migrated(page).ranges[s], s)]

\* Node tables that do not decode are dropped; the other sections fail the
\* open.
OpenAccepted ==
  /\ disk[0].kind = "header"
  /\ InBounds(disk[0])
  /\ \A s \in {"catalog", "rels"} : Loaded(disk[0])[s] # Undecodable

\* load_database, load_table_data and load_rel_table_data
OpenExisting ==
  /\ pc = "down" /\ DOMAIN disk # {}
  /\ IF OpenAccepted
     THEN /\ header' = Migrated(disk[0])
          /\ next' = FileLen(disk)
          /\ mem' = [s \in Sections |->
                      IF Loaded(disk[0])[s] = Undecodable THEN Empty
                      ELSE Loaded(disk[0])[s]]
          /\ pc' = "idle" /\ opened' = "ok"
     ELSE opened' = "error" /\ UNCHANGED <<header, next, mem, pc>>
  /\ UNCHANGED <<dirty, disk, acked, updates, stops>>

-----------------------------------------------------------------------------
(* Changes and checkpoints *)

\* A statement gives a section new contents of any size.
Update(s, n) ==
  /\ pc = "idle" /\ updates < MaxUpdates
  /\ updates' = updates + 1
  /\ mem' = [mem EXCEPT ![s] = [ver |-> updates + 1, len |-> n]]
  /\ UNCHANGED <<pc, header, next, dirty, disk, acked, opened, stops>>

\* Seeded fault: the new range starts at the last page in use.
RangeForOneEarly(h, free, s, v) ==
  IF PagesNeeded(v.len) <= h.ranges[s].num_pages
  THEN h.ranges[s]
  ELSE PageRange(free - 1, PagesNeeded(v.len))

\* Seeded fault: the section at the end of the file grows where it is.
RangeForInPlace(h, free, s, v) ==
  IF PagesNeeded(v.len) <= h.ranges[s].num_pages
  THEN h.ranges[s]
  ELSE IF EndPage(h.ranges[s]) = free
  THEN PageRange(h.ranges[s].start_page, PagesNeeded(v.len))
  ELSE PageRange(free, PagesNeeded(v.len))

\* The range of save_all_data for one section: the present one if the
\* section fits, a new one at the end of the file if not.
RangeFor(h, free, s, v) ==
  IF PagesNeeded(v.len) <= h.ranges[s].num_pages
  THEN h.ranges[s]
  ELSE PageRange(free, PagesNeeded(v.len))

\* One third of save_all_data: choose the range, write, note it in the header.
SaveSection(w, s) ==
  LET v == mem[s]
      r == RangeFor(w.header, w.next, s, v)
      free == IF r = w.header.ranges[s] THEN w.next ELSE EndPage(r)
  IN  [header |-> [w.header EXCEPT !.ranges[s] = r],
       next |-> free,
       disk |-> IF free = w.next THEN w.disk ELSE SetLen(w.disk, free),
       dirty |-> WriteSection(w.dirty, r, s, v),
       ok |-> w.ok /\ v.len + Prefix <= ByteCapacity(r)]

\* save_all_data and save_header: everything is in the pool now.
Saved ==
  LET w0 == [header |-> header, next |-> next, disk |-> disk, dirty |-> dirty, ok |-> TRUE]
      w == SaveSection(SaveSection(SaveSection(w0, "catalog"), "nodes"), "rels")
  IN  [w EXCEPT !.dirty = [p \in DOMAIN @ \cup {0} |->
                             IF p = 0 THEN HeaderPage(w.header) ELSE @[p]]]

\* checkpoint up to flush_all
BeginCheckpoint ==
  /\ pc = "idle"
  /\ header' = Saved.header /\ next' = Saved.next
  /\ disk' = Saved.disk /\ dirty' = Saved.dirty
  /\ pc' = IF Saved.ok THEN "flush" ELSE "failed"
  /\ UNCHANGED <<mem, acked, opened, updates, stops>>

\* flush_all, one dirty page; the order is that of a hash map.
FlushPage(p) ==
  /\ pc = "flush" /\ p \in DOMAIN dirty
  /\ disk' = WritePage(disk, p, dirty[p])
  /\ dirty' = [q \in DOMAIN dirty \ {p} |-> dirty[q]]
  /\ UNCHANGED <<pc, mem, header, next, acked, opened, updates, stops>>

\* checkpoint returns.
EndCheckpoint ==
  /\ pc = "flush" /\ DOMAIN dirty = {}
  /\ pc' = "idle"
  /\ acked' = mem
  /\ UNCHANGED <<mem, header, next, dirty, disk, opened, updates, stops>>

\* The process is killed, or exits between two calls.
Stop ==
  /\ pc # "down" /\ stops < MaxStops
  /\ stops' = stops + 1
  /\ pc' = "down"
  /\ dirty' = [p \in {} |-> Zero]
  /\ mem' = [s \in Sections |-> Empty]
  /\ acked' = IF pc = "flush" THEN NoAck ELSE acked
  /\ header' = OldHeader(CurrentVersion) /\ next' = 0
  /\ UNCHANGED <<disk, opened, updates>>

Next ==
  \/ OpenNew \/ OpenExisting
  \/ \E s \in Sections, n \in Lengths : Update(s, n)
  \/ BeginCheckpoint
  \/ \E p \in DOMAIN dirty : FlushPage(p)
  \/ EndCheckpoint
  \/ Stop

Spec == Init /\ [][Next]_vars

-----------------------------------------------------------------------------
(* Properties *)

\* The sections as a load of the file would see them now.
OnDisk(s) == ReadSection(disk, Migrated(disk[0]).ranges[s], s)
HeaderOnDisk == 0 \in DOMAIN disk /\ disk[0].kind = "header"

\* The ranges of the header, in memory and in the file, are apart from page
\* 0 and from each other and lie in front of next_page_idx, so the allocator
\* never hands out a page of a live section.
RangesSound ==
  /\ pc \in {"idle", "flush"} =>
       ValidRanges(header) /\ \A s \in Sections : EndPage(header.ranges[s]) <= next
  /\ HeaderOnDisk => ValidRanges(Migrated(disk[0])) /\ InBounds(disk[0])

\* The capacity check of write_multi_page never fails a checkpoint, for a
\* section of any length around the page boundaries.
SaveNeverFails == pc # "failed"

\* While a checkpoint is being flushed, the old copy of a section that moves
\* stays readable until the new header is in the file, and a section of one
\* page is always there as it was or as it will be.
OldOrNew ==
  pc = "flush" /\ acked # NoAck =>
    \A s \in Sections :
      LET r == Migrated(disk[0]).ranges[s]
      IN  /\ 0 \in DOMAIN dirty /\ header.ranges[s] # r => OnDisk(s) = acked[s]
          /\ r.num_pages = 1 => OnDisk(s) \in {acked[s], mem[s]}

\* Opening a file whose last checkpoint returned succeeds, whatever format
\* it had, and yields the sections of that checkpoint.
ReopenLoads ==
  [][pc = "down" /\ acked # NoAck =>
       pc' = "idle" /\ opened' = "ok" /\ mem' = acked]_vars

-----------------------------------------------------------------------------
(* What the documents say and the code does not do.                        *)

\* "No two ranges overlap with each other" (src/storage/mod.rs:220), which is
\* not checked for a migrated header.
RangesDisjoint == pc \in {"idle", "flush"} => ValidRanges(header)

\* "System MUST maintain crash recovery (WAL replay) functionality when data
\* spans multiple pages" (specs/007-multi-page-storage/spec.md:118), because
\* "the old pages remain valid until the header is updated"
\* (specs/007-multi-page-storage/research.md:151): a checkpoint that is cut
\* short leaves every section as it was or as it was about to be, so that the
\* log can be replayed on it.
SectionsWhole ==
  pc = "flush" /\ acked # NoAck =>
    \A s \in Sections : OnDisk(s) \in {acked[s], mem[s]}
=============================================================================
