------------------------------- MODULE ShmSlab ------------------------------
(***************************************************************************)
(* The slab allocator in shared memory of shm_slab.c: pages, chunks and the *)
(* unit of addresses are those of Slab, but the lists are indexes, every   *)
(* page of a size stays on its list, full or not, and the map of a page    *)
(* with more chunks than a word has bits continues in the page itself.     *)
(***************************************************************************)
EXTENDS Slab

\* The free list, as the previous page of its first run.
FreeHead == -2

\* The words of the map that a page of small chunks holds, each of which takes a chunk.
ExpBitmaps(shift) ==
    LET words == 2 ^ (PageShift - shift) \div WordBits IN IF words > 1 THEN words - 1 ELSE 0

\* The type is that of the request, not of the size it is rounded up to.
ShmTypeOf(size) ==
    CASE size < ExactSize -> "small"
      [] size = ExactSize -> "exact"
      [] size > ExactSize /\ size < MaxSize -> "large"
      [] size >= MaxSize -> "pages"

\* "pages" counts the pages of a run, "map" is the word of the entry, its bits for
\* chunks that are not there or hold the rest of the map set, and "rmap" the bits of
\* chunks that are; "more" are the chunks in the words that are in the page.
NewShmSlab == [
    slot |-> [k \in MinShift..PageShift - 1 |-> Nil],
    first |-> 0,
    next |-> [p \in 0..Pages - 1 |-> Nil],
    prev |-> [p \in 0..Pages - 1 |-> IF p = 0 THEN FreeHead ELSE Nil],
    pages |-> [p \in 0..Pages - 1 |-> IF p = 0 THEN Pages ELSE 0],
    type |-> [p \in 0..Pages - 1 |-> "unknown"],
    shift |-> [p \in 0..Pages - 1 |-> PageShift],
    map |-> [p \in 0..Pages - 1 |-> {}],
    rmap |-> [p \in 0..Pages - 1 |-> {}],
    more |-> [p \in 0..Pages - 1 |-> {}]]

RECURSIVE PagesFrom(_, _)
PagesFrom(s, page) == IF page = Nil THEN <<>> ELSE <<page>> \o PagesFrom(s, s.next[page])

\* The page before one on the free list is told that another one follows it.
SetAfter(s, prev, page) ==
    IF prev = FreeHead THEN [s EXCEPT !.first = page]
    ELSE [s EXCEPT !.next = [@ EXCEPT ![prev] = page]]

\* When a longer run is cut, the run after it keeps the old page as the one before it.
ShmAllocPages(s, pages) ==
    LET runs == PagesFrom(s, s.first)
        fits == {i \in DOMAIN runs : s.pages[runs[i]] >= pages}
        page == runs[CHOOSE i \in fits : \A j \in fits : i <= j]
        rest == page + pages
        after == s.next[page]
        left ==
            IF s.pages[page] > pages
            THEN SetAfter(
                    [s EXCEPT
                        !.pages = [@ EXCEPT ![rest] = s.pages[page] - pages, ![page] = pages],
                        !.next = [@ EXCEPT ![rest] = after],
                        !.prev = [@ EXCEPT ![rest] = s.prev[page]],
                        !.shift = [@ EXCEPT ![page] = PageShift]],
                    s.prev[page], rest)
            ELSE SetAfter(
                    IF after = Nil THEN s
                    ELSE [s EXCEPT !.prev = [@ EXCEPT ![after] = s.prev[page]]],
                    s.prev[page], after)
    IN  IF fits = {} THEN [s |-> s, page |-> Nil]
        ELSE [page |-> page,
              s |-> [left EXCEPT !.type = [@ EXCEPT ![page] = "pages"],
                                 !.next = [@ EXCEPT ![page] = Nil],
                                 !.prev = [@ EXCEPT ![page] = Nil]]]

\* A page of chunks: the bits for chunks that are not handed out are set.
CutShmPage(s, page, shift, type) ==
    LET exp == ExpBitmaps(shift)
        set == s.map[page] \cup IF exp > 0 THEN 0..exp - 1
                                ELSE 2 ^ (PageShift - shift)..WordBits - 1
    IN  [s EXCEPT !.type = [@ EXCEPT ![page] = type],
                  !.shift = [@ EXCEPT ![page] = shift],
                  !.map = [@ EXCEPT ![page] = set],
                  !.rmap = [@ EXCEPT ![page] = (0..WordBits - 1) \ set]]

\* The chunks of a page that its maps show as free.
FreeChunks(s, page, shift) ==
    (0..(ExpBitmaps(shift) + 1) * WordBits - 1) \ (s.map[page] \cup s.more[page])

TakeShmChunk(s, page, shift) ==
    LET free == FreeChunks(s, page, shift)
        chunk == CHOOSE c \in free : \A d \in free : c <= d
    IN  [at |-> AddrOf(page, shift, chunk),
         s |-> IF chunk < WordBits
               THEN [s EXCEPT !.map = [@ EXCEPT ![page] = @ \cup {chunk}]]
               ELSE [s EXCEPT !.more = [@ EXCEPT ![page] = @ \cup {chunk}]]]

\* The first page of the list with a free chunk, or a new one at its end.
ShmAllocSlot(s, shift, type) ==
    LET list == PagesFrom(s, s.slot[shift])
        some == {i \in DOMAIN list : FreeChunks(s, list[i], shift) # {}}
        r == ShmAllocPages(s, 1)
        cut == CutShmPage(r.s, r.page, shift, type)
        linked == IF list = <<>> THEN [cut EXCEPT !.slot = [@ EXCEPT ![shift] = r.page]]
                  ELSE [cut EXCEPT !.next = [@ EXCEPT ![list[Len(list)]] = r.page],
                                   !.prev = [@ EXCEPT ![r.page] = list[Len(list)]]]
    IN  IF some # {} THEN TakeShmChunk(s, list[CHOOSE i \in some : \A j \in some : i <= j], shift)
        ELSE IF r.page = Nil THEN [s |-> s, at |-> Nil]
        ELSE TakeShmChunk(linked, r.page, shift)

ShmSlabAlloc(s, size) ==
    LET r == ShmAllocPages(s, PagesFor(size))
    IN  IF size < MaxSize THEN ShmAllocSlot(s, Shift(size), ShmTypeOf(size))
        ELSE [s |-> r.s, at |-> IF r.page = Nil THEN Nil ELSE AddrOf(r.page, 0, 0)]

\* The first page of a run is cleared.  Freed into an empty list it keeps its type,
\* its shift and the page after it.
ShmFreePages(s, page) ==
    LET clean == [s EXCEPT !.map = [@ EXCEPT ![page] = {}], !.more = [@ EXCEPT ![page] = {}],
                           !.first = page, !.prev = [@ EXCEPT ![page] = FreeHead]]
    IN  IF s.first = Nil THEN clean
        ELSE [clean EXCEPT !.shift = [@ EXCEPT ![page] = PageShift],
                           !.type = [@ EXCEPT ![page] = "unknown"],
                           !.next = [@ EXCEPT ![page] = s.first],
                           !.prev = [@ EXCEPT ![page] = s.prev[s.first], ![s.first] = page]]

\* A page leaves the list of its size.
ShmRemovePage(s, page, shift) ==
    LET list == PagesFrom(s, s.slot[shift])
        after == s.next[page]
        i == CHOOSE i \in DOMAIN list : list[i] = page
        told == IF after = Nil THEN s.prev
                ELSE [s.prev EXCEPT ![after] = s.prev[page]]
        off == [s EXCEPT !.prev = [told EXCEPT ![page] = Nil],
                         !.next = [@ EXCEPT ![page] = Nil]]
    IN  IF i = 1 THEN [off EXCEPT !.slot = [@ EXCEPT ![shift] = after]]
        ELSE [off EXCEPT !.next = [@ EXCEPT ![list[i - 1]] = after]]

\* What a chunk is, of an address: its page, and the pool without it.
PageOf(at) == at \div PageSize

Unmarked(s, at) ==
    LET page == PageOf(at)
        chunk == (at % PageSize) \div 2 ^ s.shift[page]
    IN  [s EXCEPT !.map = [@ EXCEPT ![page] = @ \ {chunk}],
                  !.more = [@ EXCEPT ![page] = @ \ {chunk}]]

\* Chunks of the page are still handed out.
StillCut(s, page) == s.more[page] # {} \/ s.map[page] \cap s.rmap[page] # {}

ShmSlabDealloc(s, at) ==
    LET page == PageOf(at)
        left == Unmarked(s, at)
    IN  CASE s.type[page] = "unknown" -> s      \* "Type is unknown!"
          [] s.type[page] = "pages" -> ShmFreePages(s, page)
          [] s.type[page] \in {"small", "exact", "large"} ->
                IF StillCut(left, page) THEN left
                ELSE ShmFreePages(ShmRemovePage(left, page, s.shift[page]), page)

\* A small chunk of a page that stays in use: the case unlocks, and the end of the
\* call does so again.
UnlocksTwice(s, at) ==
    s.type[PageOf(at)] = "small" /\ StillCut(Unmarked(s, at), PageOf(at))

-----------------------------------------------------------------------------
\* What must hold of a pool from which the intervals in "live" were handed out.

\* The units of a page that hold its map.
MoreUnits(s, page) ==
    page * PageSize..page * PageSize + ExpBitmaps(s.shift[page]) * (WordBits \div UnitBits) - 1

\* Each page is in one place: a free run, a list of chunks, or handed out whole, and
\* the maps of a page of chunks show those that are handed out.
ShmSlabExact(s, live) ==
    LET free == PagesFrom(s, s.first)
        runs == [i \in DOMAIN free |-> free[i]..free[i] + s.pages[free[i]] - 1]
        list(k) == PagesFrom(s, s.slot[k])
        cut(k) == {list(k)[i] : i \in DOMAIN list(k)}
        shifts == MinShift..PageShift - 1
        wholes == UNION {PageOf(x.at)..PageOf(x.at) + PagesFor(x.size) - 1 :
                            x \in {y \in live : y.size >= MaxSize}}
    IN  /\ \A i, j \in DOMAIN runs : i # j => runs[i] \cap runs[j] = {}
        /\ \A i \in DOMAIN runs : s.prev[free[i]] = IF i = 1 THEN FreeHead ELSE free[i - 1]
        /\ UNION {runs[i] : i \in DOMAIN runs}
            = (0..Pages - 1) \ (wholes \cup UNION {cut(k) : k \in shifts})
        /\ \A k \in shifts : cut(k) \cap wholes = {}
        /\ \A k \in shifts : \A j \in shifts : j # k => cut(j) \cap cut(k) = {}
        /\ \A k \in shifts : \A p \in cut(k) :
            LET held == {x \in live : PageOf(x.at) = p}
            IN  /\ held # {}
                /\ s.shift[p] = k
                /\ (s.map[p] \cap s.rmap[p]) \cup s.more[p]
                    = {(x.at % PageSize) \div 2 ^ k : x \in held}
                /\ \A x \in held : Units(x) \cap MoreUnits(s, p) = {}
=============================================================================
