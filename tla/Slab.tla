-------------------------------- MODULE Slab --------------------------------
(***************************************************************************)
(* The slab allocator of slab.c.  Its memory is an array of pages; a page   *)
(* is free, whole or part of a run that was handed out, or cut into chunks *)
(* of one power of two.  The map of the chunks is in the page itself       *)
(* ("small"), is the word "slab" of the page's entry ("exact"), or is half *)
(* of that word ("big").  An address is the number of units from the start *)
(* of the pages.  A call holds the lock of the pool and is one step.       *)
(***************************************************************************)
EXTENDS Integers, FiniteSets, Sequences

CONSTANTS
    Pages,      \* the number of pages
    PageShift,  \* log2 of the units in a page
    MinShift,   \* log2 of the units in the smallest chunk
    UnitBits,   \* the bits of a unit
    WordBits    \* the bits of a word of a map

ASSUME SlabGeometry ==
    /\ {Pages, PageShift, MinShift, UnitBits, WordBits} \subseteq Nat \ {0}
    /\ 2 ^ PageShift % WordBits = 0

PageSize == 2 ^ PageShift
MaxSize == PageSize \div 2
ExactSize == PageSize \div WordBits

\* Nodes of the lists: the pages, the list of free runs, and one list per chunk size.
FreeList == Pages
SlotList(shift) == Pages + 1 + shift - MinShift
Lists == Pages..SlotList(PageShift - 1)
Nil == -1

\* The power of two that a request is rounded up to.
Shift(size) == CHOOSE k \in MinShift..PageShift :
    /\ size <= 2 ^ k
    /\ k > MinShift => size > 2 ^ (k - 1)

PagesFor(size) == (size + PageSize - 1) \div PageSize

TypeOf(shift) == CASE 2 ^ shift < ExactSize -> "small"
                   [] 2 ^ shift = ExactSize -> "exact"
                   [] 2 ^ shift > ExactSize -> "big"

Chunks(shift) == 0..2 ^ (PageShift - shift) - 1

\* The chunks at the start of a small page that its map takes.
Reserved(shift) ==
    IF TypeOf(shift) # "small" THEN 0
    ELSE LET n == (2 ^ (PageShift - shift) \div UnitBits) \div 2 ^ shift
         IN  IF n = 0 THEN 1 ELSE n

\* A pool: links of the lists, and of each page its type, its "slab" (a number of
\* pages or a shift) and the map of its chunks.
NewSlab == [
    next |-> [n \in 0..SlotList(PageShift - 1) |->
                IF n = 0 THEN FreeList ELSE IF n = FreeList THEN 0
                ELSE IF n \in Lists THEN n ELSE Nil],
    prev |-> [n \in 0..SlotList(PageShift - 1) |-> IF n = 0 THEN FreeList ELSE Nil],
    type |-> [p \in 0..Pages - 1 |-> "page"],
    slab |-> [p \in 0..Pages - 1 |-> IF p = 0 THEN Pages ELSE 0],
    map |-> [p \in 0..Pages - 1 |-> {}]]

Unlink(s, page) ==
    [s EXCEPT !.next = [@ EXCEPT ![s.prev[page]] = s.next[page]],
              !.prev = [@ EXCEPT ![s.next[page]] = s.prev[page]]]

PushFront(s, page, list) ==
    [s EXCEPT !.next = [@ EXCEPT ![page] = s.next[list], ![list] = page],
              !.prev = [@ EXCEPT ![page] = list, ![s.next[list]] = page]]

RECURSIVE WalkList(_, _, _)
WalkList(s, page, list) ==
    IF page = list THEN <<>> ELSE <<page>> \o WalkList(s, s.next[page], list)
OnList(s, list) == WalkList(s, s.next[list], list)

\* The first free run that is long enough, and its rest put in its place.
AllocPages(s, pages) ==
    LET runs == OnList(s, FreeList)
        fits == {i \in DOMAIN runs : s.slab[runs[i]] >= pages}
        page == runs[CHOOSE i \in fits : \A j \in fits : i <= j]
        rest == page + pages
        more == s.slab[page] > pages
        left == IF more
                THEN [s EXCEPT
                        !.slab = [@ EXCEPT ![rest] = s.slab[page] - pages],
                        !.next = [@ EXCEPT ![rest] = s.next[page], ![s.prev[page]] = rest],
                        !.prev = [@ EXCEPT ![rest] = s.prev[page], ![s.next[page]] = rest]]
                ELSE Unlink(s, page)
        run == page..rest - 1
    IN  IF fits = {} THEN [s |-> s, page |-> Nil]
        ELSE [page |-> page,
              s |-> [left EXCEPT
                        !.slab = [p \in DOMAIN @ |-> IF p = page THEN pages
                                     ELSE IF p \in run THEN Nil ELSE @[p]],
                        !.next = [n \in DOMAIN @ |-> IF n \in run THEN Nil ELSE @[n]],
                        !.type = [p \in DOMAIN @ |-> IF p \in run THEN "page" ELSE @[p]]]]

\* As DeallocPages, but a page of chunks stays on the list of its size.
DeallocPagesListed(s, page, pages) ==
    PushFront([s EXCEPT !.slab = [@ EXCEPT ![page] = pages],
                        !.type = [@ EXCEPT ![page] = "page"]],
              page, FreeList)

\* A page that is on a list leaves it; its run becomes the first of the free ones.
\* The run is not joined with its neighbours.
DeallocPages(s, page, pages) ==
    LET off == IF s.next[page] # Nil THEN Unlink(s, page) ELSE s
        run == page + 1..page + pages - 1
    IN  PushFront(
            [off EXCEPT
                !.slab = [p \in DOMAIN @ |-> IF p = page THEN pages
                             ELSE IF p \in run THEN 0 ELSE @[p]],
                !.type = [@ EXCEPT ![page] = "page"]],
            page, FreeList)

AddrOf(page, shift, chunk) == page * PageSize + chunk * 2 ^ shift

\* A chunk of a page that has one: the lowest.  A page whose last free chunk goes
\* leaves the list of its size.
TakeChunk(s, page, shift) ==
    LET chunk == CHOOSE c \in Chunks(shift) \ s.map[page] :
                    \A d \in Chunks(shift) \ s.map[page] : c <= d
        taken == [s EXCEPT !.map = [@ EXCEPT ![page] = @ \cup {chunk}]]
        full == taken.map[page] = Chunks(shift)
    IN  [at |-> AddrOf(page, shift, chunk),
         s |-> IF full THEN [Unlink(taken, page) EXCEPT !.next = [@ EXCEPT ![page] = Nil]]
               ELSE taken]

\* A new page of chunks: its map, if it is in the page, takes the first ones.
CutPage(s, page, shift) ==
    LET n == Reserved(shift)
    IN  [at |-> AddrOf(page, shift, n),
         s |-> [PushFront(s, page, SlotList(shift)) EXCEPT
                    !.map = [@ EXCEPT ![page] = 0..n],
                    !.slab = [@ EXCEPT ![page] = shift],
                    !.type = [@ EXCEPT ![page] = TypeOf(shift)]]]

\* The pages of a list have a free chunk each, so that its first page serves.
SlabAlloc(s, size) ==
    LET shift == Shift(size)
        list == SlotList(shift)
        r == AllocPages(s, IF size >= MaxSize THEN PagesFor(size) ELSE 1)
    IN  IF size < MaxSize /\ s.next[list] # list THEN TakeChunk(s, s.next[list], shift)
        ELSE IF r.page = Nil THEN [s |-> s, at |-> Nil]
        ELSE IF size >= MaxSize THEN [s |-> r.s, at |-> AddrOf(r.page, 0, 0)]
        ELSE CutPage(r.s, r.page, shift)

\* A full page returns to the list of its size; an empty one is given back.
DeallocChunk(s, page, chunk) ==
    LET shift == s.slab[page]
        back == IF s.next[page] = Nil THEN PushFront(s, page, SlotList(shift)) ELSE s
        rest == s.map[page] \ {chunk}
        freed == [back EXCEPT !.map = [@ EXCEPT ![page] = rest]]
    IN  IF chunk \notin s.map[page] THEN s     \* "Chunk is already free"
        ELSE IF \E c \in rest : c >= Reserved(shift) THEN freed
        ELSE DeallocPages(freed, page, 1)

SlabDealloc(s, at) ==
    LET page == at \div PageSize
        offset == at % PageSize
    IN  IF s.type[page] # "page"
        THEN IF offset % 2 ^ s.slab[page] # 0 THEN s     \* "Pointer to wrong chunk"
             ELSE DeallocChunk(s, page, offset \div 2 ^ s.slab[page])
        ELSE IF offset # 0 \/ s.slab[page] \in {0, Nil} THEN s
             ELSE DeallocPages(s, page, s.slab[page])

-----------------------------------------------------------------------------
\* What must hold of a pool from which the intervals in "live" were handed out.

Units(x) == x.at..x.at + x.size - 1

\* The units of a page that hold its map.
MapUnits(s, page) ==
    IF s.type[page] # "small" THEN {}
    ELSE page * PageSize..page * PageSize + 2 ^ (PageShift - s.slab[page]) \div UnitBits - 1

\* Each page is in one place: the start or the rest of a free run, a list of chunks
\* (with a free chunk), full, or handed out as a page.
SlabExact(s, live) ==
    LET free == OnList(s, FreeList)
        runs == [i \in DOMAIN free |-> free[i]..free[i] + s.slab[free[i]] - 1]
        whole == {x \in live : x.size >= MaxSize}
        runOf(x) == x.at \div PageSize..x.at \div PageSize + PagesFor(x.size) - 1
        cut == {p \in 0..Pages - 1 : s.type[p] # "page"}
    IN  /\ \A n \in DOMAIN s.next : s.next[n] \notin Lists \cup {Nil} => s.prev[s.next[n]] = n
        /\ \A i, j \in DOMAIN runs : i # j => runs[i] \cap runs[j] = {}
        /\ \A i \in DOMAIN runs : \A x \in whole : runs[i] \cap runOf(x) = {}
        /\ \A i \in DOMAIN runs : runs[i] \cap cut = {}
        /\ UNION {runs[i] : i \in DOMAIN runs} \cup UNION {runOf(x) : x \in whole} \cup cut
            = 0..Pages - 1
        /\ \A p \in cut :
            LET shift == s.slab[p]
                list == OnList(s, SlotList(shift))
                held == {x \in live : x.at \div PageSize = p}
            IN  /\ (\E i \in DOMAIN list : list[i] = p) <=> s.map[p] # Chunks(shift)
                /\ {(x.at % PageSize) \div 2 ^ shift : x \in held} # {}
                /\ s.map[p] = 0..Reserved(shift) - 1
                                 \cup {(x.at % PageSize) \div 2 ^ shift : x \in held}
                /\ \A x \in held : Units(x) \cap MapUnits(s, p) = {}
=============================================================================
