--------------------------- MODULE DataFileProofs ---------------------------
(***************************************************************************)
(* Theorems about DataFile.tla, for a file that is new or was left by      *)
(* format 2 or 3.  (A version 1 file gets its relationships placed into    *)
(* page 3, which the allocator also hands out: TLC refutes three of the    *)
(* four properties for it.)                                                 *)
(*                                                                         *)
(* The invariant has four parts: where the ranges lie (FileInv), what the  *)
(* file yields between checkpoints (AckInv), and, while flush_all runs,    *)
(* that pool and file together hold the new contents (DirtyInv) and that   *)
(* what has not been overwritten is still the old contents (OldCopies).    *)
(***************************************************************************)
EXTENDS DataFile, TLAPS

-----------------------------------------------------------------------------
(* The invariant *)

\* PageRange, the sections, DatabaseHeader and what a page of the file may be.
Range == [start_page : Nat, num_pages : Nat]
Section == [ver : Nat, len : Nat]
Header == [version : {CurrentVersion}, ranges : [Sections -> Range]]
Page ==
  {Zero} \cup [kind : {"chunk"}, sec : Sections, val : Section, idx : Nat]
         \cup [kind : {"header"}, version : {2, 3}, ranges : [Sections -> Range]]

\* What a checkpoint puts into page i of the range of section s.
Target(s, v, i) == IF i < PagesNeeded(v.len) THEN Chunk(s, v, i) ELSE Zero

\* Every section has pages of its own, behind the header and before page n.
Placed(ranges, n) ==
  /\ ranges \in [Sections -> Range]
  /\ \A s \in Sections :
       ranges[s].num_pages >= 1 /\ ranges[s].start_page >= 1 /\ EndPage(ranges[s]) <= n
  /\ \A s, t \in Sections : s # t =>
       EndPage(ranges[s]) <= ranges[t].start_page \/ EndPage(ranges[t]) <= ranges[s].start_page

\* A map of pages.
PagesOK(pages) ==
  pages = [p \in DOMAIN pages |-> pages[p]] /\ \A p \in DOMAIN pages : pages[p] \in Page

\* The types of the variables.  The save error state is never reached.
TypeInv ==
  /\ pc \in {"down", "idle", "flush"}
  /\ mem \in [Sections -> Section]
  /\ acked \in [Sections -> Section] \cup {NoAck}
  /\ header \in Header
  /\ next \in Nat /\ updates \in Nat
  /\ PagesOK(disk) /\ PagesOK(dirty)

\* The file is a sequence of pages.  The ranges of the header in it lie inside
\* it, and so do those in memory, where next_page_idx is the length of the file.
FileInv ==
  /\ FileLen(disk) \in Nat
  /\ DOMAIN disk = 0 .. FileLen(disk) - 1
  /\ HeaderOnDisk => Placed(disk[0].ranges, FileLen(disk))
  /\ pc \in {"idle", "flush"} =>
       next = FileLen(disk) /\ Placed(header.ranges, next)
  /\ pc # "flush" => DOMAIN dirty = {}

\* Outside flush_all the file yields the sections of the last checkpoint that
\* returned, and its header has the ranges of the header in memory.
AckInv ==
  pc # "flush" /\ acked # NoAck =>
    /\ HeaderOnDisk
    /\ \A s \in Sections : ReadSection(disk, disk[0].ranges[s], s) = acked[s]
    /\ pc = "idle" => disk[0].ranges = header.ranges

\* During flush_all a page of a section is in the pool until it is in the file
\* as the checkpoint wants it; the same is true of the header.
DirtyInv ==
  pc = "flush" =>
    /\ \A p \in DOMAIN dirty : p = 0 \/ \E s \in Sections : p \in PagesOf(header.ranges[s])
    /\ \A s \in Sections : PagesNeeded(mem[s].len) <= header.ranges[s].num_pages
    /\ \A s \in Sections : \A p \in PagesOf(header.ranges[s]) :
         (IF p \in DOMAIN dirty THEN dirty[p] ELSE disk[p]) =
           Target(s, mem[s], p - header.ranges[s].start_page)
    /\ (IF 0 \in DOMAIN dirty THEN dirty[0] ELSE disk[0]) = HeaderPage(header)

\* During flush_all, until the header is in the file, a section that moves has
\* its old pages untouched.  A section of one page stays where it was, and is as
\* it was until its page is written.
OldCopies ==
  pc = "flush" /\ acked # NoAck =>
    /\ 0 \in DOMAIN dirty =>
         /\ HeaderOnDisk
         /\ \A s \in Sections : disk[0].ranges[s] # header.ranges[s] =>
              /\ PagesOf(disk[0].ranges[s]) \cap DOMAIN dirty = {}
              /\ ReadSection(disk, disk[0].ranges[s], s) = acked[s]
    /\ \A s \in Sections : header.ranges[s].num_pages = 1 =>
         /\ 0 \in DOMAIN dirty => disk[0].ranges[s] = header.ranges[s]
         /\ header.ranges[s].start_page \in DOMAIN dirty =>
              ReadSection(disk, header.ranges[s], s) = acked[s]

\* The inductive invariant.
DataFileInv == TypeInv /\ FileInv /\ AckInv /\ DirtyInv /\ OldCopies

-----------------------------------------------------------------------------
(* Pages and sections *)

\* Rounding up to pages.
LEMMA Ceiling ==
  ASSUME NEW x \in Nat
  PROVE  LET q == (x + PageSize - 1) \div PageSize
         IN  /\ q \in Nat
             /\ x <= q * PageSize
             /\ q * PageSize < x + PageSize
<1> DEFINE y == x + PageSize - 1
           q == y \div PageSize
<1>1. y \in Nat /\ PageSize \in Nat /\ PageSize > 0
  BY PageSizeAssumption
<1>2. q \in Nat /\ q * PageSize <= y /\ y < q * PageSize + PageSize
  <2> HIDE DEF y
  <2> QED
    BY <1>1
<1>3. q * PageSize \in Nat
  <2> HIDE DEF q
  <2> QED
    BY <1>1, <1>2
<1> QED
  BY <1>1, <1>2, <1>3

\* calculate_pages_needed is the least number of pages with room for the
\* prefix and the bytes.
LEMMA NeededFacts ==
  ASSUME NEW n, n \in Nat
  PROVE  /\ PagesNeeded(n) \in Nat /\ PagesNeeded(n) >= 1
         /\ \A k \in Nat : PagesNeeded(n) <= k <=> n + Prefix <= k * PageSize
<1> DEFINE q == PagesNeeded(n)
           x == n + Prefix
<1>1. x \in Nat /\ x > 0 /\ PageSize \in Nat /\ PageSize > 0
  BY PageSizeAssumption DEF Prefix
<1>2. q \in Nat /\ x <= q * PageSize /\ q * PageSize < x + PageSize
  BY <1>1, Ceiling DEF PagesNeeded
<1> HIDE DEF q, x
<1>3. q >= 1
  BY <1>1, <1>2
<1>4. ASSUME NEW k \in Nat PROVE q <= k <=> x <= k * PageSize
  <2>1. ASSUME q <= k PROVE x <= k * PageSize
    <3>1. q * PageSize <= k * PageSize
      BY <1>1, <1>2, <2>1
    <3>2. q * PageSize \in Nat /\ k * PageSize \in Nat
      BY <1>1, <1>2
    <3> QED
      BY <1>1, <1>2, <3>1, <3>2
  <2>2. ASSUME k < q PROVE k * PageSize < x
    <3>1. (k + 1) * PageSize <= q * PageSize /\ (k + 1) * PageSize = k * PageSize + PageSize
      BY <1>1, <1>2, <2>2
    <3>2. q * PageSize \in Nat /\ k * PageSize \in Nat
      BY <1>1, <1>2
    <3> QED
      BY <1>1, <1>2, <3>1, <3>2
  <2>3. k * PageSize \in Nat
    BY <1>1
  <2> QED
    BY <1>1, <1>2, <2>1, <2>2, <2>3
<1> QED
  BY <1>2, <1>3, <1>4 DEF q, x

\* The length of a file with pages 0 .. n - 1.
LEMMA FileLenOf ==
  ASSUME NEW pages, NEW n, n \in Nat, DOMAIN pages = 0 .. n - 1
  PROVE  FileLen(pages) = n
<1>1. CASE n = 0
  BY <1>1 DEF FileLen
<1>2. CASE n > 0
  <2>1. n - 1 \in DOMAIN pages /\ \A q \in DOMAIN pages : q <= n - 1
    BY <1>2
  <2>2. ASSUME NEW p \in DOMAIN pages, \A q \in DOMAIN pages : q <= p PROVE p = n - 1
    <3>1. n - 1 <= p /\ p \in 0 .. n - 1
      BY <2>1, <2>2
    <3> QED
      BY <3>1
  <2>3. (CHOOSE p \in DOMAIN pages : \A q \in DOMAIN pages : q <= p) = n - 1
    BY <2>1, <2>2
  <2>4. DOMAIN pages # {}
    BY <2>1
  <2> DEFINE z == CHOOSE p \in DOMAIN pages : \A q \in DOMAIN pages : q <= p
  <2>5. FileLen(pages) = 1 + z /\ z = n - 1
    BY <2>3, <2>4 DEF FileLen
  <2> HIDE DEF z
  <2> QED
    BY <2>5
<1> QED
  BY <1>1, <1>2

\* Any page of a map, present or not, is a page, and its chunk is of a section.
LEMMA PageTypes ==
  ASSUME NEW pages, PagesOK(pages), NEW p
  PROVE  /\ PageAt(pages, p) \in Page
         /\ PageAt(pages, p).kind = "chunk" => PageAt(pages, p).val \in Section
BY DEF PagesOK, PageAt, Page, Zero

\* What a section yields depends only on the pages of its range.
LEMMA ReadSame ==
  ASSUME NEW f, NEW g, NEW r, NEW s, PagesOK(f), r \in Range, r.num_pages >= 1,
         \A p \in PagesOf(r) : PageAt(f, p) = PageAt(g, p)
  PROVE  ReadSection(f, r, s) = ReadSection(g, r, s)
<1> DEFINE a == r.start_page
           n == r.num_pages
           v == PageAt(f, a).val
           DecF == /\ v.len + Prefix <= ByteCapacity(r)
                   /\ \A i \in 0 .. PagesNeeded(v.len) - 1 : PageAt(f, a + i) = Chunk(s, v, i)
           DecG == /\ v.len + Prefix <= ByteCapacity(r)
                   /\ \A i \in 0 .. PagesNeeded(v.len) - 1 : PageAt(g, a + i) = Chunk(s, v, i)
<1>1. a \in Nat /\ n \in Nat /\ n >= 1
  BY DEF Range
<1>2. \A i \in 0 .. n - 1 : a + i \in PagesOf(r)
  BY <1>1 DEF PagesOf, EndPage
<1>3. PageAt(f, a) = PageAt(g, a)
  BY <1>1, <1>2
<1>4. ASSUME v.len \in Nat PROVE DecF <=> DecG
  <2>1. ASSUME v.len + Prefix <= ByteCapacity(r), NEW i \in 0 .. PagesNeeded(v.len) - 1
        PROVE  PageAt(f, a + i) = PageAt(g, a + i)
    <3>1. PagesNeeded(v.len) <= n /\ PagesNeeded(v.len) \in Nat
      BY <1>1, <1>4, <2>1, NeededFacts DEF ByteCapacity
    <3>2. i \in 0 .. n - 1
      BY <1>1, <3>1
    <3> QED
      BY <1>2, <3>2
  <2> QED
    BY <2>1
<1>5. PageAt(f, a).kind = "chunk" => v.len \in Nat
  BY PageTypes DEF Section
<1>6. ReadSection(f, r, s) =
        IF n = 0 \/ PageAt(f, a) = Zero THEN Empty
        ELSE IF PageAt(f, a).kind = "chunk" /\ DecF THEN v ELSE Undecodable
  BY DEF ReadSection
<1>7. ReadSection(g, r, s) =
        IF n = 0 \/ PageAt(f, a) = Zero THEN Empty
        ELSE IF PageAt(f, a).kind = "chunk" /\ DecG THEN v ELSE Undecodable
  BY <1>3 DEF ReadSection
<1> HIDE DEF DecF, DecG, v
<1> QED
  BY <1>4, <1>5, <1>6, <1>7

\* A section that was written to its range is read back.
LEMMA ReadTarget ==
  ASSUME NEW f, NEW r, NEW s, NEW v, r \in Range, v \in Section,
         PagesNeeded(v.len) <= r.num_pages,
         \A p \in PagesOf(r) : PageAt(f, p) = Target(s, v, p - r.start_page)
  PROVE  ReadSection(f, r, s) = v
<1> DEFINE a == r.start_page
           n == r.num_pages
           m == PagesNeeded(v.len)
<1>1. a \in Nat /\ n \in Nat /\ v.len \in Nat /\ v = [ver |-> v.ver, len |-> v.len]
  BY DEF Range, Section
<1>2. m \in Nat /\ m >= 1 /\ m <= n /\ v.len + Prefix <= n * PageSize
  BY <1>1, NeededFacts
<1>3. ASSUME NEW i \in 0 .. m - 1 PROVE PageAt(f, a + i) = Chunk(s, v, i)
  <2>1. a + i \in PagesOf(r) /\ (a + i) - a = i /\ i < m
    BY <1>1, <1>2 DEF PagesOf, EndPage
  <2> QED
    BY <2>1 DEF Target
<1>4. PageAt(f, a) = Chunk(s, v, 0)
  <2>1. 0 \in 0 .. m - 1 /\ a + 0 = a
    BY <1>1, <1>2
  <2> QED
    BY <1>3, <2>1
<1>5. /\ PageAt(f, a).kind = "chunk" /\ PageAt(f, a).val = v
      /\ PageAt(f, a) # Zero /\ ~(n = 0)
  <2>1. Chunk(s, v, 0).kind = "chunk" /\ Chunk(s, v, 0).val = v /\ Zero.kind = "zero"
    BY DEF Chunk, Zero
  <2> QED
    BY <1>2, <1>4, <2>1
<1>6. v.len + Prefix <= ByteCapacity(r)
  BY <1>2 DEF ByteCapacity
<1> QED
  BY <1>3, <1>5, <1>6 DEF ReadSection

\* A read yields a section or an error.
LEMMA ReadType ==
  ASSUME NEW f, NEW r, NEW s, PagesOK(f)
  PROVE  ReadSection(f, r, s) \in Section \cup {Undecodable}
<1> DEFINE first == PageAt(f, r.start_page)
<1>1. first.kind = "chunk" => first.val \in Section
  BY PageTypes
<1>2. ReadSection(f, r, s) \in {Empty, first.val, Undecodable}
      /\ (ReadSection(f, r, s) \in {Empty, Undecodable} \/ first.kind = "chunk")
  BY DEF ReadSection
<1>3. Empty \in Section
  BY DEF Empty, Section
<1> QED
  BY <1>1, <1>2, <1>3

-----------------------------------------------------------------------------
(* Ranges *)

\* Ranges that are placed have pages, behind page 0, and share none.
LEMMA PlacedFacts ==
  ASSUME NEW ranges, NEW n, Placed(ranges, n), n \in Nat
  PROVE  /\ \A s \in Sections :
              /\ ranges[s] \in Range
              /\ ranges[s].start_page \in Nat /\ ranges[s].num_pages \in Nat
              /\ ranges[s].num_pages >= 1
              /\ \A p \in PagesOf(ranges[s]) : p \in 1 .. n - 1
         /\ \A s, t \in Sections : s # t => PagesOf(ranges[s]) \cap PagesOf(ranges[t]) = {}
<1>1. ASSUME NEW s \in Sections
      PROVE  /\ ranges[s] \in Range
             /\ ranges[s].start_page \in Nat /\ ranges[s].num_pages \in Nat
             /\ ranges[s].num_pages >= 1
             /\ \A p \in PagesOf(ranges[s]) : p \in 1 .. n - 1
  <2>1. /\ ranges[s] \in Range
        /\ ranges[s].start_page \in Nat /\ ranges[s].num_pages \in Nat
        /\ ranges[s].num_pages >= 1 /\ ranges[s].start_page >= 1 /\ EndPage(ranges[s]) <= n
    BY DEF Placed, Range
  <2> QED
    BY <2>1 DEF PagesOf, EndPage
<1>2. ASSUME NEW s \in Sections, NEW t \in Sections, s # t
      PROVE  PagesOf(ranges[s]) \cap PagesOf(ranges[t]) = {}
  <2>1. \/ EndPage(ranges[s]) <= ranges[t].start_page
        \/ EndPage(ranges[t]) <= ranges[s].start_page
    BY <1>2 DEF Placed
  <2>2. /\ ranges[s].start_page \in Nat /\ ranges[s].num_pages \in Nat
        /\ ranges[t].start_page \in Nat /\ ranges[t].num_pages \in Nat
    BY <1>1
  <2> QED
    BY <2>1, <2>2 DEF PagesOf, EndPage
<1> QED
  BY <1>1, <1>2

\* A longer file leaves the ranges in place.
LEMMA PlacedMore ==
  ASSUME NEW ranges, NEW m, NEW n, Placed(ranges, m), m \in Nat, n \in Nat, m <= n
  PROVE  Placed(ranges, n)
<1>1. \A s \in Sections : EndPage(ranges[s]) \in Nat /\ EndPage(ranges[s]) <= m
  BY DEF Placed, Range, EndPage
<1> QED
  BY <1>1 DEF Placed

\* Placed ranges pass validate_ranges.
LEMMA PlacedValid ==
  ASSUME NEW h, NEW n, Placed(h.ranges, n), n \in Nat
  PROVE  ValidRanges(h) /\ \A s \in Sections : EndPage(h.ranges[s]) <= n
<1>1. \A s \in Sections : h.ranges[s].start_page \in Nat /\ h.ranges[s].num_pages \in Nat
                          /\ h.ranges[s].start_page >= 1
  BY DEF Placed, Range
<1>2. \A s \in Sections : ~Overlaps(h.ranges[s], PageRange(0, 1))
  BY <1>1 DEF Overlaps, PageRange, EndPage
<1>3. ASSUME NEW s \in Sections, NEW t \in Sections, s # t
      PROVE  ~Overlaps(h.ranges[s], h.ranges[t])
  <2>1. \/ EndPage(h.ranges[s]) <= h.ranges[t].start_page
        \/ EndPage(h.ranges[t]) <= h.ranges[s].start_page
    BY <1>3 DEF Placed
  <2> QED
    BY <1>1, <2>1 DEF Overlaps, EndPage
<1> QED
  BY <1>2, <1>3 DEF ValidRanges, Placed

\* The pages of a new or an old file.
LEMMA FixedValues ==
  /\ FixedRanges["catalog"] = PageRange(1, 1)
  /\ FixedRanges["nodes"] = PageRange(2, 1)
  /\ FixedRanges["rels"] = PageRange(3, 1)
  /\ FixedRanges = [s \in Sections |-> FixedRanges[s]]
  /\ FixedRanges \in [Sections -> Range]
  /\ \A s \in Sections : FixedRanges[s] \in Range
<1>1. /\ FixedRanges["catalog"] = PageRange(1, 1)
      /\ FixedRanges["nodes"] = PageRange(2, 1)
      /\ FixedRanges["rels"] = PageRange(3, 1)
      /\ FixedRanges = [s \in Sections |-> FixedRanges[s]]
  BY DEF FixedRanges, Sections
<1>2. \A s \in Sections : FixedRanges[s] \in Range
  BY <1>1 DEF PageRange, Range, Sections
<1> QED
  BY <1>1, <1>2

\* The ranges of a new or an old file are placed in its four pages.
LEMMA FixedPlaced ==
  ASSUME NEW n \in Nat, n >= 4
  PROVE  Placed(FixedRanges, n)
<1> QED
  BY FixedValues DEF Placed, PageRange, EndPage, Sections

-----------------------------------------------------------------------------
(* One section of a checkpoint *)

\* w is what save_all_data has done when it has written the sections in S:
\* their data is in the pool, a section that grew has a range behind the old
\* end of the file, and nothing in the file has changed but its length.
Writing(w, S) ==
  /\ w = [header |-> w.header, next |-> w.next, disk |-> w.disk, dirty |-> w.dirty,
          ok |-> w.ok]
  /\ w.ok = TRUE
  /\ w.header \in Header /\ w.next \in Nat /\ next <= w.next
  /\ Placed(w.header.ranges, w.next)
  /\ PagesOK(w.disk) /\ DOMAIN w.disk = 0 .. w.next - 1
  /\ \A p \in Nat : PageAt(w.disk, p) = PageAt(disk, p)
  /\ PagesOK(w.dirty)
  /\ \A p \in DOMAIN w.dirty : \E s \in S : p \in PagesOf(w.header.ranges[s])
  /\ \A s \in S : \A p \in PagesOf(w.header.ranges[s]) :
       /\ p \in DOMAIN w.dirty
       /\ w.dirty[p] = Target(s, mem[s], p - w.header.ranges[s].start_page)
  /\ \A s \in S : PagesNeeded(mem[s].len) <= w.header.ranges[s].num_pages
  /\ \A s \in Sections :
       \/ w.header.ranges[s] = header.ranges[s]
       \/ /\ s \in S /\ w.header.ranges[s].start_page >= next
          /\ w.header.ranges[s].num_pages >= 2

\* D is pages with section s, of value v, in the range r.
Written(D, pages, r, s, v) ==
  /\ PagesOK(D) /\ DOMAIN D = DOMAIN pages \cup PagesOf(r)
  /\ \A p \in PagesOf(r) : D[p] = Target(s, v, p - r.start_page)
  /\ \A p \in DOMAIN pages \ PagesOf(r) : D[p] = pages[p]

\* write_multi_page changes the pages of the range and no other.
LEMMA WriteSectionOK ==
  ASSUME NEW pages, NEW r, NEW s, NEW v, PagesOK(pages), r \in Range, s \in Sections,
         v \in Section
  PROVE  Written(WriteSection(pages, r, s, v), pages, r, s, v)
<1> DEFINE W == WriteSection(pages, r, s, v)
<1>1. W = [p \in DOMAIN pages \cup PagesOf(r) |->
            IF p \notin PagesOf(r) THEN pages[p] ELSE Target(s, v, p - r.start_page)]
  BY DEF WriteSection, Target
<1>2. ASSUME NEW p \in PagesOf(r) PROVE Target(s, v, p - r.start_page) \in Page
  <2>1. p - r.start_page \in Nat
    BY <1>2 DEF PagesOf, Range, EndPage
  <2> QED
    BY <2>1 DEF Target, Page, Chunk
<1> QED
  BY <1>1, <1>2 DEF PagesOK, Written

\* set_len adds zero pages, which an access beyond the end would read anyway.
LEMMA SetLenOK ==
  ASSUME NEW pages, NEW n, PagesOK(pages), n \in Nat, DOMAIN pages \subseteq 0 .. n - 1
  PROVE  /\ PagesOK(SetLen(pages, n))
         /\ DOMAIN SetLen(pages, n) = 0 .. n - 1
         /\ \A p \in Nat : PageAt(SetLen(pages, n), p) = PageAt(pages, p)
<1>1. SetLen(pages, n) = [p \in 0 .. n - 1 |-> PageAt(pages, p)]
  BY DEF SetLen
<1>2. \A p \in Nat : p \notin 0 .. n - 1 => PageAt(pages, p) = Zero
  BY DEF PageAt
<1>3. \A p : PageAt(pages, p) \in Page
  BY PageTypes
<1> QED
  BY <1>1, <1>2, <1>3 DEF PagesOK, PageAt

\* The range save_all_data chooses has room for the section and lies apart
\* from the ranges of the others, behind all of them if it is new.
LEMMA RangeForOK ==
  ASSUME NEW h, NEW n, NEW s, NEW v, h \in Header, n \in Nat, Placed(h.ranges, n),
         s \in Sections, v \in Section
  PROVE  LET r == RangeFor(h, n, s, v)
             free == IF r = h.ranges[s] THEN n ELSE EndPage(r)
         IN  /\ r \in Range /\ PagesNeeded(v.len) <= r.num_pages
             /\ v.len + Prefix <= ByteCapacity(r)
             /\ free \in Nat /\ n <= free
             /\ Placed([h.ranges EXCEPT ![s] = r], free)
             /\ r = h.ranges[s] \/ (r.start_page = n /\ r.num_pages >= 2)
<1> DEFINE old == h.ranges[s]
           k == PagesNeeded(v.len)
           r == RangeFor(h, n, s, v)
           free == IF r = h.ranges[s] THEN n ELSE EndPage(r)
           R == [h.ranges EXCEPT ![s] = r]
<1>1. /\ old \in Range /\ old.start_page \in Nat /\ old.num_pages \in Nat
      /\ old.num_pages >= 1 /\ EndPage(old) <= n /\ h.ranges \in [Sections -> Range]
  BY DEF Placed, Range
<1>2. v.len \in Nat /\ k \in Nat /\ k >= 1
  BY NeededFacts DEF Section
<1>3. CASE k <= old.num_pages
  <2>1. r = old /\ free = n /\ R = h.ranges
    BY <1>1, <1>3 DEF RangeFor
  <2>2. v.len + Prefix <= ByteCapacity(old)
    BY <1>1, <1>2, <1>3, NeededFacts DEF ByteCapacity
  <2> QED
    BY <1>1, <1>3, <2>1, <2>2
<1>4. CASE ~(k <= old.num_pages)
  <2>1. r = PageRange(n, k)
    BY <1>4 DEF RangeFor
  <2>2. r \in Range /\ r.start_page = n /\ r.num_pages = k /\ EndPage(r) = n + k /\ k >= 2
    BY <1>1, <1>2, <1>4, <2>1 DEF PageRange, Range, EndPage
  <2>3. r # old /\ free = n + k /\ n <= free /\ free \in Nat
    BY <1>1, <1>2, <2>2 DEF EndPage
  <2>4. v.len + Prefix <= ByteCapacity(r)
    BY <1>2, <2>2, NeededFacts DEF ByteCapacity
  <2>5. n >= 1
    BY <1>1 DEF EndPage
  <2> HIDE DEF r, k
  <2>6. R \in [Sections -> Range] /\ R[s] = r /\ \A t \in Sections : t # s => R[t] = h.ranges[t]
    BY <1>1, <2>2
  <2> HIDE DEF R, free
  <2>8. \A t \in Sections :
          EndPage(h.ranges[t]) \in Nat /\ EndPage(h.ranges[t]) <= n
    BY <1>1 DEF Placed, EndPage, Range
  <2>7. Placed(R, free)
    <3>1. \A t \in Sections :
            R[t].num_pages >= 1 /\ R[t].start_page >= 1 /\ EndPage(R[t]) <= free
      BY <1>2, <2>2, <2>3, <2>5, <2>6, <2>8 DEF Placed
    <3>2. ASSUME NEW t \in Sections, NEW u \in Sections, t # u
          PROVE  EndPage(R[t]) <= R[u].start_page \/ EndPage(R[u]) <= R[t].start_page
      <4>1. CASE t = s
        BY <2>2, <2>6, <2>8, <3>2, <4>1
      <4>2. CASE u = s
        BY <2>2, <2>6, <2>8, <3>2, <4>2
      <4>3. CASE t # s /\ u # s
        BY <2>6, <3>2, <4>3 DEF Placed
      <4> QED
        BY <4>1, <4>2, <4>3
    <3> QED
      BY <2>6, <3>1, <3>2 DEF Placed
  <2> QED
    BY <1>2, <2>2, <2>3, <2>4, <2>7 DEF r, k, R, free
<1> QED
  BY <1>3, <1>4

\* Saving one more section, by the cases of the range chosen.
LEMMA SaveSectionOK ==
  ASSUME NEW w, NEW S, NEW s, Writing(w, S), S \subseteq Sections, s \in Sections, s \notin S,
         mem \in [Sections -> Section], next \in Nat
  PROVE  Writing(SaveSection(w, s), S \cup {s})
<1> DEFINE v == mem[s]
           r == RangeFor(w.header, w.next, s, v)
           free == IF r = w.header.ranges[s] THEN w.next ELSE EndPage(r)
           h == [w.header EXCEPT !.ranges[s] = r]
           d == IF free = w.next THEN w.disk ELSE SetLen(w.disk, free)
           D == WriteSection(w.dirty, r, s, v)
           ok == w.ok /\ v.len + Prefix <= ByteCapacity(r)
           W == SaveSection(w, s)
<1>1. /\ w.header \in Header /\ w.next \in Nat /\ Placed(w.header.ranges, w.next)
      /\ v \in Section /\ w.header.ranges \in [Sections -> Range]
  BY DEF Writing, Placed
<1>2. /\ r \in Range /\ PagesNeeded(v.len) <= r.num_pages
      /\ v.len + Prefix <= ByteCapacity(r)
      /\ free \in Nat /\ w.next <= free
      /\ Placed([w.header.ranges EXCEPT ![s] = r], free)
      /\ r = w.header.ranges[s] \/ (r.start_page = w.next /\ r.num_pages >= 2)
  BY <1>1, RangeForOK
<1>3. W = [header |-> h, next |-> free, disk |-> d, dirty |-> D, ok |-> ok]
  BY SMTT(60) DEF SaveSection
<1>13. ok = TRUE
  <2>1. w.ok = TRUE
    BY DEF Writing
  <2> QED
    BY <1>2, <2>1
<1> HIDE DEF W, h, free, d, D, ok
<1>4. W.header = h /\ W.next = free /\ W.disk = d /\ W.dirty = D /\ W.ok = TRUE
  BY <1>3, <1>13
<1>14. W = [header |-> W.header, next |-> W.next, disk |-> W.disk, dirty |-> W.dirty,
            ok |-> W.ok]
  BY <1>3, <1>4, <1>13
<1>5. /\ h \in Header /\ h.ranges = [w.header.ranges EXCEPT ![s] = r]
      /\ h.ranges[s] = r
      /\ \A t \in Sections : t # s => h.ranges[t] = w.header.ranges[t]
  BY <1>1, <1>2 DEF Header, h
<1>6. next <= free
  BY <1>1, <1>2 DEF Writing
<1> HIDE DEF r, v
<1>7. PagesOK(d) /\ DOMAIN d = 0 .. free - 1 /\ \A p \in Nat : PageAt(d, p) = PageAt(disk, p)
  <2>1. /\ PagesOK(w.disk) /\ DOMAIN w.disk = 0 .. w.next - 1
        /\ \A p \in Nat : PageAt(w.disk, p) = PageAt(disk, p)
    BY DEF Writing
  <2>2. DOMAIN w.disk \subseteq 0 .. free - 1
    BY <1>1, <1>2, <2>1
  <2> HIDE DEF free
  <2>3. /\ PagesOK(SetLen(w.disk, free)) /\ DOMAIN SetLen(w.disk, free) = 0 .. free - 1
        /\ \A p \in Nat : PageAt(SetLen(w.disk, free), p) = PageAt(w.disk, p)
    BY <1>2, <2>1, <2>2, SetLenOK
  <2> QED
    BY <2>1, <2>3 DEF d
<1>8. /\ PagesOK(D) /\ DOMAIN D = DOMAIN w.dirty \cup PagesOf(r)
      /\ \A p \in PagesOf(r) : D[p] = Target(s, v, p - r.start_page)
      /\ \A p \in DOMAIN w.dirty \ PagesOf(r) : D[p] = w.dirty[p]
  <2>1. PagesOK(w.dirty)
    BY DEF Writing
  <2>2. r \in Range /\ v \in Section
    BY <1>1, <1>2
  <2>3. Written(D, w.dirty, r, s, v)
    BY <2>1, <2>2, WriteSectionOK DEF D
  <2> QED
    BY <2>3 DEF Written
<1>9. \A t \in S : t # s /\ t \in Sections /\ PagesOf(h.ranges[t]) \cap PagesOf(r) = {}
  BY <1>2, <1>5, PlacedFacts
<1>10. /\ \A p \in DOMAIN D : \E t \in S \cup {s} : p \in PagesOf(h.ranges[t])
       /\ \A t \in S \cup {s} : \A p \in PagesOf(h.ranges[t]) :
            p \in DOMAIN D /\ D[p] = Target(t, mem[t], p - h.ranges[t].start_page)
  <2>1. ASSUME NEW p \in DOMAIN D
        PROVE  \E t \in S \cup {s} : p \in PagesOf(h.ranges[t])
    <3>1. CASE p \in PagesOf(r)
      BY <1>5, <3>1
    <3>2. CASE p \in DOMAIN w.dirty
      BY <1>5, <1>9, <3>2 DEF Writing
    <3> QED
      BY <1>8, <3>1, <3>2
  <2>2. ASSUME NEW t \in S \cup {s}, NEW p \in PagesOf(h.ranges[t])
        PROVE  p \in DOMAIN D /\ D[p] = Target(t, mem[t], p - h.ranges[t].start_page)
    <3>1. CASE t = s
      BY <1>5, <1>8, <2>2, <3>1 DEF v
    <3>2. CASE t \in S
      <4>1. /\ h.ranges[t] = w.header.ranges[t] /\ p \in DOMAIN w.dirty
            /\ w.dirty[p] = Target(t, mem[t], p - h.ranges[t].start_page)
        BY <1>5, <1>9, <2>2, <3>2 DEF Writing
      <4>2. p \notin PagesOf(r)
        BY <1>9, <2>2, <3>2
      <4> QED
        BY <1>8, <4>1, <4>2
    <3> QED
      BY <3>1, <3>2
  <2> QED
    BY <2>1, <2>2
<1>11. \A t \in S \cup {s} : PagesNeeded(mem[t].len) <= h.ranges[t].num_pages
  BY <1>2, <1>5, <1>9 DEF Writing, v
<1>12. \A t \in Sections :
         \/ h.ranges[t] = header.ranges[t]
         \/ /\ t \in S \cup {s} /\ h.ranges[t].start_page >= next
            /\ h.ranges[t].num_pages >= 2
  BY <1>1, <1>2, <1>5 DEF Writing
<1>15. Placed(h.ranges, free)
  BY <1>2, <1>5
<1> DEFINE T == S \cup {s}
<1>16. /\ \A p \in DOMAIN W.dirty : \E t \in T : p \in PagesOf(W.header.ranges[t])
       /\ \A t \in T : \A p \in PagesOf(W.header.ranges[t]) :
            /\ p \in DOMAIN W.dirty
            /\ W.dirty[p] = Target(t, mem[t], p - W.header.ranges[t].start_page)
  BY <1>4, <1>10
<1>17. /\ \A t \in T : PagesNeeded(mem[t].len) <= W.header.ranges[t].num_pages
       /\ \A t \in Sections :
            \/ W.header.ranges[t] = header.ranges[t]
            \/ /\ t \in T /\ W.header.ranges[t].start_page >= next
               /\ W.header.ranges[t].num_pages >= 2
  BY <1>4, <1>11, <1>12
<1>18. /\ W.header \in Header /\ W.next \in Nat /\ next <= W.next
       /\ Placed(W.header.ranges, W.next)
       /\ PagesOK(W.disk) /\ DOMAIN W.disk = 0 .. W.next - 1
       /\ \A p \in Nat : PageAt(W.disk, p) = PageAt(disk, p)
       /\ PagesOK(W.dirty) /\ W.ok = TRUE
  BY <1>2, <1>4, <1>5, <1>6, <1>7, <1>8, <1>15
<1> HIDE DEF T
<1>19. Writing(W, T)
  BY <1>14, <1>16, <1>17, <1>18 DEF Writing
<1> QED
  BY <1>19 DEF W, T

\* All of save_all_data and save_header, by three uses of SaveSectionOK.
LEMMA SavedOK ==
  ASSUME TypeInv, FileInv, pc = "idle"
  PROVE  LET w == Saved
         IN  \E x : /\ Writing(x, Sections)
                    /\ w.header = x.header /\ w.next = x.next /\ w.disk = x.disk
                    /\ w.ok = TRUE
                    /\ w.dirty = [p \in DOMAIN x.dirty \cup {0} |->
                                   IF p = 0 THEN HeaderPage(x.header) ELSE x.dirty[p]]
<1> DEFINE w0 == [header |-> header, next |-> next, disk |-> disk, dirty |-> dirty, ok |-> TRUE]
           w1 == SaveSection(w0, "catalog")
           w2 == SaveSection(w1, "nodes")
           w3 == SaveSection(w2, "rels")
<1>1. /\ mem \in [Sections -> Section] /\ next \in Nat
      /\ \A s \in {"catalog", "nodes", "rels"} : s \in Sections
      /\ Sections = {"catalog", "nodes", "rels"}
  BY DEF TypeInv, Sections
<1>2. Writing(w0, {})
  <2>1. /\ w0.header = header /\ w0.next = next /\ w0.disk = disk /\ w0.dirty = dirty
        /\ w0.ok = TRUE /\ w0 = [header |-> w0.header, next |-> w0.next, disk |-> w0.disk,
                                 dirty |-> w0.dirty, ok |-> w0.ok]
    OBVIOUS
  <2> HIDE DEF w0
  <2> QED
    BY <2>1 DEF Writing, TypeInv, FileInv
<1> HIDE DEF w0
<1>3. Writing(w1, {"catalog"})
  BY <1>1, <1>2, SaveSectionOK
<1> HIDE DEF w1
<1>4. Writing(w2, {"catalog", "nodes"})
  <2>1. "nodes" \notin {"catalog"} /\ {"catalog"} \cup {"nodes"} = {"catalog", "nodes"}
    OBVIOUS
  <2> QED
    BY <1>1, <1>3, <2>1, SaveSectionOK
<1> HIDE DEF w2
<1>5. Writing(w3, Sections)
  <2>1. /\ "rels" \notin {"catalog", "nodes"}
        /\ {"catalog", "nodes"} \cup {"rels"} = {"catalog", "nodes", "rels"}
    OBVIOUS
  <2> QED
    BY <1>1, <1>4, <2>1, SaveSectionOK
<1> HIDE DEF w3
<1>6. Saved = [w3 EXCEPT !.dirty = [p \in DOMAIN @ \cup {0} |->
                 IF p = 0 THEN HeaderPage(w3.header) ELSE @[p]]]
  BY DEF Saved, w0, w1, w2, w3
<1>7. /\ w3 = [header |-> w3.header, next |-> w3.next, disk |-> w3.disk,
               dirty |-> w3.dirty, ok |-> w3.ok]
      /\ w3.ok = TRUE
  BY <1>5 DEF Writing
<1>8. /\ Saved.header = w3.header /\ Saved.next = w3.next /\ Saved.disk = w3.disk
      /\ Saved.ok = TRUE
      /\ Saved.dirty = [p \in DOMAIN w3.dirty \cup {0} |->
                         IF p = 0 THEN HeaderPage(w3.header) ELSE w3.dirty[p]]
  BY <1>6, <1>7
<1> QED
  BY <1>5, <1>8

-----------------------------------------------------------------------------
(* The initial state *)

\* The header of an old or a new file.
LEMMA OldHeaderOK ==
  ASSUME NEW v \in {2, 3}
  PROVE  /\ OldHeader(v) = [version |-> v, ranges |-> FixedRanges]
         /\ HeaderPage(OldHeader(v)) \in Page
         /\ HeaderPage(OldHeader(v)).kind = "header"
         /\ HeaderPage(OldHeader(v)).ranges = FixedRanges
         /\ OldHeader(CurrentVersion) \in Header
<1>1. ASSUME NEW u \in {2, 3}
      PROVE  OldHeader(u) = [version |-> u, ranges |-> FixedRanges]
  <2>1. u # 1
    OBVIOUS
  <2>2. OldHeader(u) = [version |-> u, ranges |-> [s \in Sections |-> FixedRanges[s]]]
    BY <2>1 DEF OldHeader
  <2> QED
    BY <2>2, FixedValues
<1>2. FixedRanges \in [Sections -> Range]
  BY FixedValues
<1> QED
  BY <1>1, <1>2 DEF HeaderPage, Page, Header, CurrentVersion

\* The sections of an old file take one page each.
LEMMA OldSectionsOK ==
  ASSUME NEW v \in {2, 3}
  PROVE  /\ OldSections(v) \in [Sections -> Section]
         /\ \A s \in Sections : PagesNeeded(OldSections(v)[s].len) = 1
<1> DEFINE n == CHOOSE k \in Lengths : PagesNeeded(k) = 1
<1>1. \E k \in Lengths : PagesNeeded(k) = 1
  <2>1. PICK k \in Lengths : k + 4 <= PageSize
    BY LengthsAssumption
  <2>2. k \in Nat /\ PageSize \in Nat /\ 1 * PageSize = PageSize
    BY LengthsAssumption, PageSizeAssumption
  <2>3. PagesNeeded(k) \in Nat /\ PagesNeeded(k) >= 1 /\ PagesNeeded(k) <= 1
    BY <2>1, <2>2, NeededFacts DEF Prefix
  <2> QED
    BY <2>3
<1>2. n \in Nat /\ PagesNeeded(n) = 1
  BY <1>1, LengthsAssumption
<1>3. OldSections(v) = [s \in Sections |-> [ver |-> 0, len |-> n]]
  BY DEF OldSections
<1> HIDE DEF n
<1> QED
  BY <1>2, <1>3 DEF Section

\* An old file yields its sections.
LEMMA OldFileOK ==
  ASSUME NEW v \in {2, 3}
  PROVE  /\ PagesOK(OldFile(v)) /\ DOMAIN OldFile(v) = 0 .. 3
         /\ OldFile(v)[0] = HeaderPage(OldHeader(v))
         /\ \A s \in Sections :
              ReadSection(OldFile(v), FixedRanges[s], s) = OldSections(v)[s]
<1> DEFINE F == OldFile(v)
           At(p) == CHOOSE t \in Sections : FixedRanges[t].start_page = p
<1>1. /\ FixedRanges["catalog"] = PageRange(1, 1)
      /\ FixedRanges["nodes"] = PageRange(2, 1)
      /\ FixedRanges["rels"] = PageRange(3, 1)
      /\ \A s \in Sections : FixedRanges[s] \in Range
  BY FixedValues
<1>2. F = [p \in 0 .. 3 |-> IF p = 0 THEN HeaderPage(OldHeader(v))
                            ELSE Chunk(At(p), OldSections(v)[At(p)], 0)]
  BY DEF OldFile
<1>3. ASSUME NEW p \in 1 .. 3
      PROVE  At(p) \in Sections /\ FixedRanges[At(p)].start_page = p
  <2>1. p = 1 \/ p = 2 \/ p = 3
    OBVIOUS
  <2>2. \E t \in Sections : FixedRanges[t].start_page = p
    BY <1>1, <2>1 DEF PageRange, Sections
  <2> QED
    BY <2>2
<1>4. ASSUME NEW s \in Sections
      PROVE  /\ FixedRanges[s].start_page \in 1 .. 3 /\ FixedRanges[s].num_pages = 1
             /\ At(FixedRanges[s].start_page) = s
  <2>1. /\ FixedRanges[s].start_page \in 1 .. 3 /\ FixedRanges[s].num_pages = 1
    BY <1>1 DEF PageRange, Sections
  <2>2. \A t \in Sections : FixedRanges[t].start_page = FixedRanges[s].start_page => t = s
    BY <1>1 DEF PageRange, Sections
  <2> HIDE DEF At
  <2>3. /\ At(FixedRanges[s].start_page) \in Sections
        /\ FixedRanges[At(FixedRanges[s].start_page)].start_page = FixedRanges[s].start_page
    BY <1>3, <2>1
  <2> QED
    BY <2>1, <2>2, <2>3
<1> HIDE DEF F, At
<1>5. \A p \in 1 .. 3 : Chunk(At(p), OldSections(v)[At(p)], 0) \in Page
  BY <1>3, OldSectionsOK DEF Chunk, Page
<1>6. PagesOK(F) /\ DOMAIN F = 0 .. 3 /\ F[0] = HeaderPage(OldHeader(v))
  BY <1>2, <1>5, OldHeaderOK DEF PagesOK
<1>7. ASSUME NEW s \in Sections
      PROVE  ReadSection(F, FixedRanges[s], s) = OldSections(v)[s]
  <2> DEFINE r == FixedRanges[s]
             w == OldSections(v)[s]
             a == r.start_page
  <2>1. r \in Range /\ w \in Section /\ PagesNeeded(w.len) = 1 /\ r.num_pages = 1
    BY <1>1, <1>4, OldSectionsOK
  <2>2. a \in 1 .. 3 /\ a \in 0 .. 3 /\ a # 0 /\ At(a) = s
    BY <1>4
  <2>3. F[a] = Chunk(s, w, 0)
    BY <1>2, <2>2
  <2> HIDE DEF r, w
  <2>4. ASSUME NEW p \in PagesOf(r)
        PROVE  PageAt(F, p) = Target(s, w, p - r.start_page)
    <3>1. p = a /\ p - a = 0 /\ 0 < 1
      BY <2>1, <2>2, <2>4 DEF PagesOf, EndPage
    <3> QED
      BY <1>6, <2>1, <2>2, <2>3, <3>1 DEF PageAt, Target
  <2>5. ReadSection(F, r, s) = w
    BY <2>1, <2>4, ReadTarget
  <2> QED
    BY <2>5 DEF r, w
<1> QED
  BY <1>6, <1>7 DEF F

\* The invariant holds at the start.
LEMMA InitDataFile ==
  ASSUME 1 \notin StartVersions, Init
  PROVE  DataFileInv
<1>1. PICK v \in StartVersions :
        /\ disk = IF v = 0 THEN [p \in {} |-> Zero] ELSE OldFile(v)
        /\ acked = IF v = 0 THEN NoAck ELSE OldSections(v)
  BY DEF Init
<1>2. v = 0 \/ v \in {2, 3}
  BY StartAssumption
<1>3. /\ pc = "down" /\ mem \in [Sections -> Section] /\ header \in Header
      /\ next \in Nat /\ updates \in Nat /\ PagesOK(dirty) /\ DOMAIN dirty = {}
  <2>1. OldHeader(CurrentVersion) \in Header
    BY OldHeaderOK
  <2> QED
    BY <2>1 DEF Init, Empty, Section, PagesOK
<1>4. CASE v = 0
  <2>1. DOMAIN disk = {} /\ PagesOK(disk) /\ acked = NoAck
    BY <1>1, <1>4 DEF PagesOK
  <2>2. FileLen(disk) = 0 /\ DOMAIN disk = 0 .. 0 - 1
    BY <2>1 DEF FileLen
  <2> QED
    BY <1>3, <2>1, <2>2
       DEF DataFileInv, TypeInv, FileInv, AckInv, DirtyInv, OldCopies, HeaderOnDisk
<1>5. CASE v \in {2, 3}
  <2>1. disk = OldFile(v) /\ acked = OldSections(v)
    BY <1>1, <1>5
  <2>2. PagesOK(disk) /\ DOMAIN disk = 0 .. 4 - 1 /\ disk[0] = HeaderPage(OldHeader(v))
    BY <1>5, <2>1, OldFileOK
  <2>3. FileLen(disk) = 4
    BY <2>2, FileLenOf
  <2>4. disk[0].kind = "header" /\ disk[0].ranges = FixedRanges
    BY <1>5, <2>2, OldHeaderOK
  <2>5. acked \in [Sections -> Section]
    BY <1>5, <2>1, OldSectionsOK
  <2>6. TypeInv
    BY <1>3, <2>2, <2>5 DEF TypeInv
  <2>7. FileInv
    BY <1>3, <2>2, <2>3, <2>4, FixedPlaced DEF FileInv
  <2>8. AckInv
    BY <1>3, <1>5, <2>1, <2>2, <2>4, OldFileOK DEF AckInv, HeaderOnDisk
  <2> QED
    BY <1>3, <2>6, <2>7, <2>8 DEF DataFileInv, DirtyInv, OldCopies
<1> QED
  BY <1>2, <1>4, <1>5

-----------------------------------------------------------------------------
(* Opening *)

\* Migrating a version 2 or 3 header keeps its ranges.
LEMMA HeaderFacts ==
  ASSUME TypeInv, HeaderOnDisk
  PROVE  /\ disk[0] \in [kind : {"header"}, version : {2, 3}, ranges : [Sections -> Range]]
         /\ Migrated(disk[0]) \in Header
         /\ Migrated(disk[0]).ranges = disk[0].ranges
<1>1. disk[0] \in [kind : {"header"}, version : {2, 3}, ranges : [Sections -> Range]]
  BY DEF TypeInv, HeaderOnDisk, PagesOK, Page, Zero
<1>2. disk[0].ranges \in [Sections -> Range]
  BY <1>1
<1>3. Migrated(disk[0]) = [version |-> CurrentVersion, ranges |-> disk[0].ranges]
  BY <1>2 DEF Migrated
<1> QED
  BY <1>1, <1>2, <1>3 DEF Header

\* Creating a file keeps the invariant.
LEMMA OpenNewInv ==
  ASSUME DataFileInv, OpenNew PROVE DataFileInv'
<1>1. DOMAIN disk = {} /\ PagesOK(disk) /\ pc = "down" /\ pc' = "idle"
  BY DEF DataFileInv, TypeInv, OpenNew
<1>2. acked = NoAck
  BY <1>1 DEF DataFileInv, AckInv, HeaderOnDisk
<1>3. disk' = SetLen(disk, 4) /\ next' = 4 /\ header' = OldHeader(CurrentVersion)
      /\ dirty' = dirty /\ acked' = acked /\ updates' = updates
      /\ mem' = [s \in Sections |-> Empty]
  BY DEF OpenNew
<1>4. PagesOK(disk') /\ DOMAIN disk' = 0 .. 4 - 1 /\ PageAt(disk', 0) = PageAt(disk, 0)
  <2>1. PICK n \in Nat : n = 4
    OBVIOUS
  <2>2. DOMAIN disk \subseteq 0 .. n - 1
    BY <1>1
  <2>3. /\ PagesOK(SetLen(disk, n)) /\ DOMAIN SetLen(disk, n) = 0 .. n - 1
        /\ \A p \in Nat : PageAt(SetLen(disk, n), p) = PageAt(disk, p)
    BY <1>1, <2>2, SetLenOK
  <2> QED
    BY <1>3, <2>1, <2>3
<1>5. ~HeaderOnDisk'
  BY <1>1, <1>4 DEF HeaderOnDisk, PageAt, Zero
<1>6. FileLen(disk') = 4
  BY <1>4, FileLenOf
<1>7. header' \in Header /\ header'.ranges = FixedRanges
  BY <1>3, OldHeaderOK DEF CurrentVersion
<1>8. TypeInv'
  BY <1>1, <1>3, <1>4, <1>7 DEF DataFileInv, TypeInv, Empty, Section
<1>9. FileInv'
  <2>1. Placed(FixedRanges, 4) /\ FileLen(disk)' = 4 /\ 4 \in Nat
    BY <1>6, FixedPlaced
  <2> QED
    BY <1>1, <1>3, <1>4, <1>5, <1>7, <2>1 DEF FileInv, DataFileInv
<1> QED
  BY <1>1, <1>2, <1>3, <1>8, <1>9 DEF DataFileInv, AckInv, DirtyInv, OldCopies

\* Opening a file, or failing to, keeps the invariant.
LEMMA OpenExistingInv ==
  ASSUME DataFileInv, OpenExisting PROVE DataFileInv'
<1>1. /\ pc = "down"
      /\ dirty' = dirty /\ disk' = disk /\ acked' = acked /\ updates' = updates
      /\ DOMAIN disk # {}
  BY DEF OpenExisting
<1>2. CASE OpenAccepted
  <2>1. HeaderOnDisk
    <3>1. 0 \in DOMAIN disk
      BY <1>1 DEF DataFileInv, FileInv
    <3> QED
      BY <1>2, <3>1 DEF OpenAccepted, HeaderOnDisk
  <2>2. /\ header' = Migrated(disk[0]) /\ next' = FileLen(disk) /\ pc' = "idle"
        /\ mem' = [s \in Sections |->
                    IF Loaded(disk[0])[s] = Undecodable THEN Empty ELSE Loaded(disk[0])[s]]
    BY <1>2 DEF OpenExisting
  <2>3. header' \in Header /\ header'.ranges = disk[0].ranges
    BY <2>1, <2>2, HeaderFacts DEF DataFileInv
  <2>4. \A s \in Sections : Loaded(disk[0])[s] \in Section \cup {Undecodable}
    BY ReadType DEF Loaded, DataFileInv, TypeInv
  <2>5. mem' \in [Sections -> Section]
    BY <2>2, <2>4 DEF Empty, Section
  <2>6. TypeInv'
    BY <1>1, <2>2, <2>3, <2>5 DEF DataFileInv, TypeInv, FileInv
  <2>7. FileInv'
    BY <1>1, <2>1, <2>2, <2>3 DEF DataFileInv, FileInv, HeaderOnDisk
  <2>8. AckInv'
    BY <1>1, <2>2, <2>3 DEF DataFileInv, AckInv, HeaderOnDisk
  <2> QED
    BY <2>2, <2>6, <2>7, <2>8 DEF DataFileInv, DirtyInv, OldCopies
<1>3. CASE ~OpenAccepted
  <2>1. UNCHANGED <<header, next, mem, pc, dirty, disk, acked, updates>>
    BY <1>1, <1>3 DEF OpenExisting
  <2> QED
    BY <1>1, <2>1 DEF DataFileInv, TypeInv, FileInv, AckInv, DirtyInv, OldCopies,
       HeaderOnDisk
<1> QED
  BY <1>2, <1>3

\* A change in memory keeps the invariant.
LEMMA UpdateInv ==
  ASSUME DataFileInv, NEW s \in Sections, NEW n \in Lengths, Update(s, n)
  PROVE  DataFileInv'
<1>1. UNCHANGED <<pc, header, next, dirty, disk, acked>> /\ pc = "idle"
  BY DEF Update
<1>2. mem' \in [Sections -> Section] /\ updates' \in Nat
  BY LengthsAssumption DEF Update, DataFileInv, TypeInv, Section
<1> QED
  BY <1>1, <1>2 DEF DataFileInv, TypeInv, FileInv, AckInv, DirtyInv, OldCopies, HeaderOnDisk

\* A crash or an exit at any point keeps the invariant.
LEMMA StopInv ==
  ASSUME DataFileInv, Stop PROVE DataFileInv'
<1>1. /\ pc' = "down" /\ DOMAIN dirty' = {} /\ PagesOK(dirty')
      /\ mem' = [s \in Sections |-> Empty] /\ disk' = disk /\ updates' = updates
      /\ acked' = IF pc = "flush" THEN NoAck ELSE acked
      /\ header' = OldHeader(CurrentVersion) /\ next' = 0
  BY DEF Stop, PagesOK
<1>2. TypeInv'
  BY <1>1, OldHeaderOK DEF DataFileInv, TypeInv, Empty, Section
<1>3. FileInv'
  BY <1>1 DEF DataFileInv, FileInv, HeaderOnDisk
<1>4. AckInv'
  BY <1>1 DEF DataFileInv, AckInv, HeaderOnDisk
<1> QED
  BY <1>1, <1>2, <1>3, <1>4 DEF DataFileInv, DirtyInv, OldCopies

-----------------------------------------------------------------------------
(* Checkpoints *)

\* A checkpoint up to flush_all keeps the invariant: no page of an old copy
\* of a section that moves is dirty afterwards.
LEMMA BeginCheckpointInv ==
  ASSUME DataFileInv, BeginCheckpoint PROVE DataFileInv'
<1>1. /\ pc = "idle" /\ mem' = mem /\ acked' = acked /\ updates' = updates
      /\ next = FileLen(disk) /\ next \in Nat /\ DOMAIN disk = 0 .. next - 1
      /\ Placed(header.ranges, next) /\ PagesOK(disk)
  BY DEF BeginCheckpoint, DataFileInv, TypeInv, FileInv
<1>2. PICK x :
        /\ Writing(x, Sections)
        /\ Saved.header = x.header /\ Saved.next = x.next /\ Saved.disk = x.disk
        /\ Saved.ok = TRUE
        /\ Saved.dirty = [p \in DOMAIN x.dirty \cup {0} |->
                           IF p = 0 THEN HeaderPage(x.header) ELSE x.dirty[p]]
  BY <1>1, SavedOK DEF DataFileInv
<1>3. /\ pc' = "flush"
      /\ header' = x.header /\ next' = x.next /\ disk' = x.disk
      /\ dirty' = [p \in DOMAIN x.dirty \cup {0} |->
                    IF p = 0 THEN HeaderPage(x.header) ELSE x.dirty[p]]
  BY <1>2 DEF BeginCheckpoint
<1>4. /\ header' \in Header /\ next' \in Nat /\ next <= next'
      /\ Placed(header'.ranges, next')
      /\ PagesOK(disk') /\ DOMAIN disk' = 0 .. next' - 1
      /\ \A p \in Nat : PageAt(disk', p) = PageAt(disk, p)
      /\ PagesOK(x.dirty)
      /\ \A p \in DOMAIN x.dirty : \E s \in Sections : p \in PagesOf(header'.ranges[s])
      /\ \A s \in Sections : \A p \in PagesOf(header'.ranges[s]) :
           /\ p \in DOMAIN x.dirty
           /\ x.dirty[p] = Target(s, mem[s], p - header'.ranges[s].start_page)
      /\ \A s \in Sections : PagesNeeded(mem[s].len) <= header'.ranges[s].num_pages
      /\ \A s \in Sections :
           \/ header'.ranges[s] = header.ranges[s]
           \/ /\ header'.ranges[s].start_page >= next
              /\ header'.ranges[s].num_pages >= 2
  BY <1>2, <1>3 DEF Writing
<1>5. /\ DOMAIN dirty' = DOMAIN x.dirty \cup {0}
      /\ dirty'[0] = HeaderPage(header')
      /\ \A p \in DOMAIN x.dirty : p # 0 => dirty'[p] = x.dirty[p]
      /\ dirty' = [p \in DOMAIN dirty' |-> dirty'[p]]
  BY <1>3
<1>6. HeaderPage(header') \in Page
  BY <1>4 DEF HeaderPage, Page, Header, CurrentVersion
<1>7. PagesOK(dirty')
  BY <1>4, <1>5, <1>6 DEF PagesOK
<1>8. \A s \in Sections :
        /\ header'.ranges[s].num_pages >= 1 /\ header'.ranges[s] \in Range
        /\ \A p \in PagesOf(header'.ranges[s]) : p \in 1 .. next' - 1 /\ p # 0 /\ p \in Nat
  <2>1. \A p \in 1 .. next' - 1 : p # 0 /\ p \in Nat
    BY <1>4
  <2>2. \A s \in Sections :
          /\ header'.ranges[s].num_pages >= 1 /\ header'.ranges[s] \in Range
          /\ \A p \in PagesOf(header'.ranges[s]) : p \in 1 .. next' - 1
    BY <1>4, PlacedFacts
  <2> QED
    BY <2>1, <2>2
<1>9. FileLen(disk') = next'
  BY <1>4, FileLenOf
<1>10. 0 \in DOMAIN disk /\ 0 \in DOMAIN disk' /\ disk'[0] = disk[0]
  <2>1. next >= 1 /\ next' >= 1
    BY <1>1, <1>4 DEF Placed, EndPage, Range, Sections
  <2>2. 0 \in DOMAIN disk /\ 0 \in DOMAIN disk'
    BY <1>1, <1>4, <2>1
  <2> QED
    BY <1>4, <2>2 DEF PageAt
<1>11. HeaderOnDisk' <=> HeaderOnDisk
  BY <1>10 DEF HeaderOnDisk
<1>12. TypeInv'
  BY <1>1, <1>3, <1>4, <1>7 DEF DataFileInv, TypeInv
<1>13. FileInv'
  <2>1. HeaderOnDisk => Placed(disk[0].ranges, next')
    BY <1>1, <1>4, PlacedMore DEF DataFileInv, FileInv
  <2> QED
    BY <1>3, <1>4, <1>9, <1>10, <1>11, <2>1 DEF FileInv
<1>14. DirtyInv'
  <2>1. \A p \in DOMAIN dirty' : p = 0 \/ \E s \in Sections : p \in PagesOf(header'.ranges[s])
    BY <1>4, <1>5
  <2>2. \A s \in Sections : \A p \in PagesOf(header'.ranges[s]) :
          /\ p \in DOMAIN dirty'
          /\ dirty'[p] = Target(s, mem'[s], p - header'.ranges[s].start_page)
    BY <1>1, <1>4, <1>5, <1>8
  <2>3. \A s \in Sections : PagesNeeded(mem'[s].len) <= header'.ranges[s].num_pages
    BY <1>1, <1>4
  <2> QED
    BY <1>5, <2>1, <2>2, <2>3 DEF DirtyInv
<1>15. ASSUME acked # NoAck
       PROVE  /\ HeaderOnDisk /\ disk[0].ranges = header.ranges
              /\ \A s \in Sections : ReadSection(disk', header.ranges[s], s) = acked[s]
  <2>1. /\ HeaderOnDisk /\ disk[0].ranges = header.ranges
        /\ \A s \in Sections : ReadSection(disk, header.ranges[s], s) = acked[s]
    BY <1>1, <1>15 DEF DataFileInv, AckInv
  <2>2. ASSUME NEW s \in Sections
        PROVE  ReadSection(disk, header.ranges[s], s) = ReadSection(disk', header.ranges[s], s)
    <3>1. /\ header.ranges[s] \in Range /\ header.ranges[s].num_pages >= 1
          /\ \A p \in PagesOf(header.ranges[s]) : p \in Nat
      BY <1>1, PlacedFacts
    <3> QED
      BY <1>1, <1>4, <3>1, ReadSame
  <2> QED
    BY <2>1, <2>2
<1>16. OldCopies'
  <2>1. ASSUME acked # NoAck, NEW s \in Sections, header.ranges[s] # header'.ranges[s]
        PROVE  PagesOf(header.ranges[s]) \cap DOMAIN dirty' = {}
    <3> SUFFICES ASSUME NEW p \in PagesOf(header.ranges[s]), p \in DOMAIN dirty'
                 PROVE  FALSE
      OBVIOUS
    <3>1. p \in 1 .. next - 1
      BY <1>1, PlacedFacts
    <3>2. PICK t \in Sections : p \in PagesOf(header'.ranges[t])
      BY <1>4, <1>5, <3>1
    <3>3. CASE header'.ranges[t] = header.ranges[t]
      <4>1. t # s
        BY <2>1, <3>3
      <4> QED
        BY <1>1, <3>2, <3>3, <4>1, PlacedFacts
    <3>4. CASE header'.ranges[t].start_page >= next
      <4>1. header'.ranges[t].start_page \in Nat /\ header'.ranges[t].num_pages \in Nat
        BY <1>8 DEF Range
      <4> QED
        BY <1>1, <3>1, <3>2, <3>4, <4>1 DEF PagesOf, EndPage
    <3> QED
      BY <1>4, <3>3, <3>4
  <2>2. ASSUME acked # NoAck, NEW s \in Sections, header'.ranges[s].num_pages = 1
        PROVE  header'.ranges[s] = header.ranges[s]
    BY <1>4, <2>2
  <2> QED
    BY <1>1, <1>10, <1>11, <1>15, <2>1, <2>2 DEF OldCopies
<1> QED
  BY <1>3, <1>12, <1>13, <1>14, <1>16 DEF DataFileInv, AckInv

\* One page write of flush_all keeps the invariant, whichever page it is.
LEMMA FlushPageInv ==
  ASSUME DataFileInv, NEW p \in DOMAIN dirty, FlushPage(p) PROVE DataFileInv'
<1>1. /\ pc = "flush" /\ disk' = WritePage(disk, p, dirty[p])
      /\ dirty' = [q \in DOMAIN dirty \ {p} |-> dirty[q]]
      /\ UNCHANGED <<pc, mem, header, next, acked, updates>>
  BY DEF FlushPage
<1>2. /\ next = FileLen(disk) /\ next \in Nat /\ DOMAIN disk = 0 .. next - 1
      /\ Placed(header.ranges, next) /\ PagesOK(disk) /\ PagesOK(dirty) /\ header \in Header
  BY <1>1 DEF DataFileInv, TypeInv, FileInv
<1>3. next >= 1
  BY <1>2 DEF Placed, EndPage, Range, Sections
<1>4. p \in 0 .. next - 1
  <2>1. p = 0 \/ \E s \in Sections : p \in PagesOf(header.ranges[s])
    BY <1>1 DEF DataFileInv, DirtyInv
  <2>2. ASSUME NEW s \in Sections, p \in PagesOf(header.ranges[s]) PROVE p \in 1 .. next - 1
    BY <1>2, <2>2, PlacedFacts
  <2> QED
    BY <1>2, <1>3, <2>1, <2>2
<1>5. /\ DOMAIN disk' = 0 .. next - 1
      /\ disk'[p] = dirty[p]
      /\ \A q \in DOMAIN disk : q # p => disk'[q] = disk[q]
      /\ disk' = [q \in DOMAIN disk' |-> disk'[q]]
  <2>1. DOMAIN disk \cup 0 .. p = 0 .. next - 1
    BY <1>2, <1>4
  <2> QED
    BY <1>1, <1>2, <1>4, <2>1 DEF WritePage, PageAt
<1>6. dirty[p] \in Page
  BY <1>2 DEF PagesOK
<1>7. PagesOK(disk') /\ PagesOK(dirty')
  BY <1>1, <1>2, <1>5, <1>6 DEF PagesOK
<1>8. \A q : q # p => PageAt(disk', q) = PageAt(disk, q)
  BY <1>2, <1>5 DEF PageAt
<1>9. FileLen(disk') = next
  BY <1>2, <1>5, FileLenOf
<1>10. /\ p = 0 => disk'[0] = HeaderPage(header)
       /\ p # 0 => disk'[0] = disk[0]
  BY <1>1, <1>2, <1>3, <1>5 DEF DataFileInv, DirtyInv
<1>11. TypeInv'
  BY <1>1, <1>7 DEF DataFileInv, TypeInv
<1>12. FileInv'
  <2>1. HeaderOnDisk' => Placed(disk'[0].ranges, next)
    <3>1. CASE p = 0
      BY <1>2, <1>10, <3>1 DEF HeaderPage
    <3>2. CASE p # 0
      BY <1>1, <1>2, <1>3, <1>5, <1>10, <3>2 DEF DataFileInv, FileInv, HeaderOnDisk
    <3> QED
      BY <3>1, <3>2
  <2> QED
    BY <1>1, <1>2, <1>5, <1>9, <2>1 DEF FileInv
<1>13. DirtyInv'
  <2>1. /\ DOMAIN dirty' = DOMAIN dirty \ {p}
        /\ \A q \in DOMAIN dirty' : dirty'[q] = dirty[q]
    BY <1>1
  <2>2. ASSUME NEW q \in 0 .. next - 1
        PROVE  (IF q \in DOMAIN dirty' THEN dirty'[q] ELSE disk'[q]) =
               (IF q \in DOMAIN dirty THEN dirty[q] ELSE disk[q])
    BY <1>2, <1>5, <2>1
  <2>3. /\ 0 \in 0 .. next - 1
        /\ \A s \in Sections : \A q \in PagesOf(header.ranges[s]) : q \in 0 .. next - 1
    BY <1>2, <1>3, PlacedFacts
  <2> QED
    BY <1>1, <2>1, <2>2, <2>3, SMTT(60) DEF DataFileInv, DirtyInv
<1>14. OldCopies'
  <2> SUFFICES ASSUME acked # NoAck
               PROVE  /\ 0 \in DOMAIN dirty' =>
                           /\ HeaderOnDisk'
                           /\ \A s \in Sections : disk'[0].ranges[s] # header.ranges[s] =>
                                /\ PagesOf(disk'[0].ranges[s]) \cap DOMAIN dirty' = {}
                                /\ ReadSection(disk', disk'[0].ranges[s], s) = acked[s]
                      /\ \A s \in Sections : header.ranges[s].num_pages = 1 =>
                           /\ 0 \in DOMAIN dirty' => disk'[0].ranges[s] = header.ranges[s]
                           /\ header.ranges[s].start_page \in DOMAIN dirty' =>
                                ReadSection(disk', header.ranges[s], s) = acked[s]
    BY <1>1 DEF OldCopies
  <2>1. /\ 0 \in DOMAIN dirty =>
             /\ HeaderOnDisk
             /\ \A s \in Sections : disk[0].ranges[s] # header.ranges[s] =>
                  /\ PagesOf(disk[0].ranges[s]) \cap DOMAIN dirty = {}
                  /\ ReadSection(disk, disk[0].ranges[s], s) = acked[s]
        /\ \A s \in Sections : header.ranges[s].num_pages = 1 =>
             /\ 0 \in DOMAIN dirty => disk[0].ranges[s] = header.ranges[s]
             /\ header.ranges[s].start_page \in DOMAIN dirty =>
                  ReadSection(disk, header.ranges[s], s) = acked[s]
    BY <1>1 DEF DataFileInv, OldCopies
  <2>2. DOMAIN dirty' = DOMAIN dirty \ {p}
    BY <1>1
  <2>3. ASSUME 0 \in DOMAIN dirty'
        PROVE  /\ 0 \in DOMAIN dirty /\ p # 0 /\ disk'[0] = disk[0]
               /\ HeaderOnDisk /\ HeaderOnDisk'
    <3>1. 0 \in DOMAIN dirty /\ p # 0
      BY <2>2, <2>3
    <3>2. 0 \in DOMAIN disk'
      BY <1>2, <1>3, <1>5
    <3> QED
      BY <1>10, <2>1, <3>1, <3>2 DEF HeaderOnDisk
  <2>4. ASSUME NEW r, NEW s, r \in Range, r.num_pages >= 1, p \notin PagesOf(r)
        PROVE  ReadSection(disk, r, s) = ReadSection(disk', r, s)
    BY <1>2, <1>8, <2>4, ReadSame
  <2>5. ASSUME 0 \in DOMAIN dirty', NEW s \in Sections, disk'[0].ranges[s] # header.ranges[s]
        PROVE  /\ PagesOf(disk'[0].ranges[s]) \cap DOMAIN dirty' = {}
               /\ ReadSection(disk', disk'[0].ranges[s], s) = acked[s]
    <3> DEFINE r == disk[0].ranges[s]
    <3>1. /\ r # header.ranges[s] /\ disk'[0].ranges[s] = r
          /\ PagesOf(r) \cap DOMAIN dirty = {} /\ ReadSection(disk, r, s) = acked[s]
      BY <2>1, <2>3, <2>5
    <3>2. r \in Range /\ r.num_pages >= 1
      BY <1>2, <2>3, <2>5, PlacedFacts DEF DataFileInv, FileInv
    <3> HIDE DEF r
    <3>3. p \notin PagesOf(r)
      BY <3>1
    <3> QED
      BY <2>2, <2>4, <3>1, <3>2, <3>3
  <2>6. ASSUME NEW s \in Sections, header.ranges[s].num_pages = 1
        PROVE  /\ 0 \in DOMAIN dirty' => disk'[0].ranges[s] = header.ranges[s]
               /\ header.ranges[s].start_page \in DOMAIN dirty' =>
                    ReadSection(disk', header.ranges[s], s) = acked[s]
    <3> DEFINE r == header.ranges[s]
    <3>1. 0 \in DOMAIN dirty' => disk'[0].ranges[s] = r
      BY <2>1, <2>3, <2>6
    <3>2. ASSUME r.start_page \in DOMAIN dirty'
          PROVE  ReadSection(disk', r, s) = acked[s]
      <4>1. r.start_page \in DOMAIN dirty /\ p # r.start_page
        BY <2>2, <3>2
      <4>2. r \in Range /\ r.num_pages >= 1 /\ r.num_pages = 1
        BY <1>2, <2>6, PlacedFacts
      <4>3. ReadSection(disk, r, s) = acked[s]
        BY <2>1, <2>6, <4>1
      <4> HIDE DEF r
      <4>4. p \notin PagesOf(r)
        BY <1>4, <4>1, <4>2 DEF PagesOf, EndPage, Range
      <4> QED
        BY <2>4, <4>2, <4>3, <4>4
    <3> QED
      BY <3>1, <3>2
  <2> QED
    BY <2>3, <2>5, <2>6
<1> QED
  BY <1>1, <1>11, <1>12, <1>13, <1>14 DEF DataFileInv, AckInv

\* A checkpoint that returns has every section in the file.
LEMMA EndCheckpointInv ==
  ASSUME DataFileInv, EndCheckpoint PROVE DataFileInv'
<1>1. /\ pc = "flush" /\ DOMAIN dirty = {} /\ pc' = "idle" /\ acked' = mem
      /\ UNCHANGED <<mem, header, next, dirty, disk, updates>>
  BY DEF EndCheckpoint
<1>2. /\ next = FileLen(disk) /\ next \in Nat /\ DOMAIN disk = 0 .. next - 1
      /\ Placed(header.ranges, next) /\ PagesOK(disk) /\ mem \in [Sections -> Section]
  BY <1>1 DEF DataFileInv, TypeInv, FileInv
<1>3. 0 \in DOMAIN disk
  BY <1>2 DEF Placed, EndPage, Range, Sections
<1>4. disk[0] = HeaderPage(header)
  BY <1>1 DEF DataFileInv, DirtyInv
<1>5. HeaderOnDisk /\ disk[0].ranges = header.ranges
  BY <1>3, <1>4 DEF HeaderOnDisk, HeaderPage
<1>6. ASSUME NEW s \in Sections
      PROVE  ReadSection(disk, header.ranges[s], s) = mem[s]
  <2>1. /\ header.ranges[s] \in Range
        /\ \A p \in PagesOf(header.ranges[s]) : p \in 1 .. next - 1
    BY <1>2, PlacedFacts
  <2>2. \A p \in PagesOf(header.ranges[s]) :
          PageAt(disk, p) = Target(s, mem[s], p - header.ranges[s].start_page)
    BY <1>1, <1>2, <2>1 DEF DataFileInv, DirtyInv, PageAt
  <2>3. PagesNeeded(mem[s].len) <= header.ranges[s].num_pages /\ mem[s] \in Section
    BY <1>1, <1>2 DEF DataFileInv, DirtyInv
  <2> QED
    BY <2>1, <2>2, <2>3, ReadTarget
<1>7. AckInv'
  BY <1>1, <1>5, <1>6 DEF AckInv, HeaderOnDisk
<1>8. TypeInv' /\ FileInv'
  BY <1>1, <1>2 DEF DataFileInv, TypeInv, FileInv, HeaderOnDisk
<1> QED
  BY <1>1, <1>7, <1>8 DEF DataFileInv, DirtyInv, OldCopies

-----------------------------------------------------------------------------
(* The theorems *)

\* Every step keeps the invariant.
LEMMA StepDataFile ==
  DataFileInv /\ [Next]_vars => DataFileInv'
<1> SUFFICES ASSUME DataFileInv, [Next]_vars PROVE DataFileInv'
  OBVIOUS
<1>1. CASE OpenNew
  BY <1>1, OpenNewInv
<1>2. CASE OpenExisting
  BY <1>2, OpenExistingInv
<1>3. CASE \E s \in Sections, n \in Lengths : Update(s, n)
  BY <1>3, UpdateInv
<1>4. CASE BeginCheckpoint
  BY <1>4, BeginCheckpointInv
<1>5. CASE \E p \in DOMAIN dirty : FlushPage(p)
  BY <1>5, FlushPageInv
<1>6. CASE EndCheckpoint
  BY <1>6, EndCheckpointInv
<1>7. CASE Stop
  BY <1>7, StopInv
<1>8. CASE UNCHANGED vars
  BY <1>8 DEF vars, DataFileInv, TypeInv, FileInv, AckInv, DirtyInv, OldCopies, HeaderOnDisk
<1> QED
  BY <1>1, <1>2, <1>3, <1>4, <1>5, <1>6, <1>7, <1>8 DEF Next

\* The invariant holds in every reachable state.
LEMMA DataFileInvariant ==
  ASSUME 1 \notin StartVersions
  PROVE  Spec => []DataFileInv
<1>1. Init => DataFileInv
  BY InitDataFile
<1> QED
  BY <1>1, StepDataFile, PTL DEF Spec

\* The ranges of the header, in memory and in the file, never overlap each
\* other or page 0 and lie inside the file, so that the allocator never hands
\* out a page of a live section (DatabaseHeader::validate_ranges, save_all_data).
THEOREM LayoutSound ==
  ASSUME 1 \notin StartVersions
  PROVE  Spec => []RangesSound
<1>1. DataFileInv => RangesSound
  <2> SUFFICES ASSUME DataFileInv PROVE RangesSound
    OBVIOUS
  <2>1. ASSUME pc \in {"idle", "flush"}
        PROVE  ValidRanges(header) /\ \A s \in Sections : EndPage(header.ranges[s]) <= next
    BY <2>1, PlacedValid DEF DataFileInv, FileInv, TypeInv
  <2>2. ASSUME HeaderOnDisk
        PROVE  ValidRanges(Migrated(disk[0])) /\ InBounds(disk[0])
    <3>1. /\ Placed(Migrated(disk[0]).ranges, FileLen(disk)) /\ FileLen(disk) \in Nat
          /\ Migrated(disk[0]).ranges = disk[0].ranges
      BY <2>2, HeaderFacts DEF DataFileInv, FileInv
    <3> QED
      BY <3>1, PlacedValid DEF InBounds, Placed
  <2> QED
    BY <2>1, <2>2 DEF RangesSound
<1> QED
  BY <1>1, DataFileInvariant, PTL

\* The capacity check of write_multi_page never fails, for sections of any
\* length and pages of any size.
THEOREM NoSaveFails ==
  ASSUME 1 \notin StartVersions
  PROVE  Spec => []SaveNeverFails
<1>1. DataFileInv => SaveNeverFails
  BY DEF DataFileInv, TypeInv, SaveNeverFails
<1> QED
  BY <1>1, DataFileInvariant, PTL

\* While flush_all writes the pages in any order, a section that moves is
\* readable at its old place until the header is written, and a section of one
\* page is there as it was or as it will be.
THEOREM OldCopiesStay ==
  ASSUME 1 \notin StartVersions
  PROVE  Spec => []OldOrNew
<1>1. DataFileInv => OldOrNew
  <2> SUFFICES ASSUME DataFileInv, pc = "flush", acked # NoAck, NEW s \in Sections
               PROVE  LET r == Migrated(disk[0]).ranges[s]
                      IN  /\ 0 \in DOMAIN dirty /\ header.ranges[s] # r => OnDisk(s) = acked[s]
                          /\ r.num_pages = 1 => OnDisk(s) \in {acked[s], mem[s]}
    BY DEF OldOrNew
  <2> DEFINE r == Migrated(disk[0]).ranges[s]
  <2>1. /\ next = FileLen(disk) /\ next \in Nat /\ DOMAIN disk = 0 .. next - 1
        /\ Placed(header.ranges, next) /\ PagesOK(disk) /\ mem \in [Sections -> Section]
    BY DEF DataFileInv, TypeInv, FileInv
  <2>2. 0 \in DOMAIN disk
    BY <2>1 DEF Placed, EndPage, Range, Sections
  <2>3. 0 \notin DOMAIN dirty => disk[0] = HeaderPage(header)
    BY DEF DataFileInv, DirtyInv
  <2>4. HeaderOnDisk
    BY <2>2, <2>3 DEF DataFileInv, OldCopies, HeaderOnDisk, HeaderPage
  <2>5. r = disk[0].ranges[s] /\ OnDisk(s) = ReadSection(disk, r, s)
    BY <2>4, HeaderFacts DEF DataFileInv, OnDisk
  <2>6. 0 \notin DOMAIN dirty => r = header.ranges[s]
    BY <2>3, <2>5 DEF HeaderPage
  <2> HIDE DEF r
  <2>7. ASSUME 0 \in DOMAIN dirty, header.ranges[s] # r PROVE OnDisk(s) = acked[s]
    BY <2>5, <2>7 DEF DataFileInv, OldCopies
  <2>8. ASSUME r.num_pages = 1, header.ranges[s] = r
        PROVE  OnDisk(s) \in {acked[s], mem[s]}
    <3>1. CASE r.start_page \in DOMAIN dirty
      BY <2>5, <2>8, <3>1 DEF DataFileInv, OldCopies
    <3>2. CASE r.start_page \notin DOMAIN dirty
      <4>1. r \in Range /\ \A p \in PagesOf(r) : p \in 1 .. next - 1
        BY <2>1, <2>8, PlacedFacts
      <4>2. \A p \in PagesOf(r) : p = r.start_page
        BY <2>8, <4>1 DEF PagesOf, EndPage, Range
      <4>3. \A p \in PagesOf(r) : PageAt(disk, p) = Target(s, mem[s], p - r.start_page)
        BY <2>1, <2>8, <3>2, <4>1, <4>2 DEF DataFileInv, DirtyInv, PageAt
      <4>4. PagesNeeded(mem[s].len) <= r.num_pages /\ mem[s] \in Section
        BY <2>1, <2>8 DEF DataFileInv, DirtyInv
      <4>5. ReadSection(disk, r, s) = mem[s]
        BY <4>1, <4>3, <4>4, ReadTarget
      <4> QED
        BY <2>5, <4>5
    <3> QED
      BY <3>1, <3>2
  <2> QED
    BY <2>6, <2>7, <2>8 DEF r
<1> QED
  BY <1>1, DataFileInvariant, PTL

\* Opening a file whose last checkpoint returned succeeds and yields the
\* sections of that checkpoint (load_database after save_all_data and flush_all).
THEOREM ReopenLoadsAcked ==
  ASSUME 1 \notin StartVersions
  PROVE  Spec => ReopenLoads
<1>1. DataFileInv /\ [Next]_vars =>
        [pc = "down" /\ acked # NoAck => pc' = "idle" /\ opened' = "ok" /\ mem' = acked]_vars
  <2> SUFFICES ASSUME DataFileInv, Next, pc = "down", acked # NoAck
               PROVE  pc' = "idle" /\ opened' = "ok" /\ mem' = acked
    OBVIOUS
  <2>1. /\ HeaderOnDisk
        /\ \A s \in Sections : ReadSection(disk, disk[0].ranges[s], s) = acked[s]
        /\ acked \in [Sections -> Section]
    BY DEF DataFileInv, TypeInv, AckInv
  <2>2. DOMAIN disk # {} /\ disk[0].kind = "header" /\ DOMAIN dirty = {}
    BY <2>1 DEF DataFileInv, FileInv, HeaderOnDisk
  <2>3. OpenExisting
    BY <2>2 DEF Next, OpenNew, Update, BeginCheckpoint, EndCheckpoint, Stop
  <2>4. Migrated(disk[0]).ranges = disk[0].ranges
    BY <2>1, HeaderFacts DEF DataFileInv
  <2>5. InBounds(disk[0])
    BY <2>1 DEF DataFileInv, FileInv, InBounds, Placed
  <2>6. \A s \in Sections : Loaded(disk[0])[s] = acked[s]
    BY <2>1, <2>4 DEF Loaded
  <2>7. \A s \in Sections : acked[s] # Undecodable
    BY <2>1 DEF Section, Undecodable
  <2>8. OpenAccepted
    BY <2>2, <2>5, <2>6, <2>7 DEF OpenAccepted, Sections
  <2>9. pc' = "idle" /\ opened' = "ok" /\
        mem' = [s \in Sections |->
                 IF Loaded(disk[0])[s] = Undecodable THEN Empty ELSE Loaded(disk[0])[s]]
    BY <2>3, <2>8 DEF OpenExisting
  <2>10. mem' = [s \in Sections |-> acked[s]]
    BY <2>6, <2>7, <2>9
  <2> QED
    BY <2>1, <2>9, <2>10
<1> QED
  BY <1>1, DataFileInvariant, PTL DEF Spec, ReopenLoads

=============================================================================
