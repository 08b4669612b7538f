-------------------------------- MODULE Arena --------------------------------
(***************************************************************************)
(* Arena: a region allocator with checkpoints.  A page is its capacity and *)
(* its cursor; a place is where an allocation lies.  The arena is a value, *)
(* and an operation that can fail returns whether it did, the arena it     *)
(* leaves and the place it gives out.  `memory` says whether the operator  *)
(* new calls of the operation succeed.                                     *)
(***************************************************************************)
EXTENDS Naturals, Sequences

CONSTANTS PageSize,        \* page_size_
          LargeThreshold,  \* large_threshold_
          MaxPage,         \* max_page_size_
          MaxAlign         \* alignof(std::max_align_t)

ASSUME ArenaAssumption ==
    /\ PageSize \in 1 .. MaxPage
    /\ {LargeThreshold, MaxPage, MaxAlign} \subseteq Nat \ {0}

EmptyArena == [pages |-> <<>>, large |-> <<>>, destructors |-> <<>>]

NoPlace == [kind |-> "null", index |-> 0, offset |-> 0, size |-> 0]

failed(a) == [ok |-> FALSE, arena |-> a, at |-> NoPlace]

\* A mutant: the cursor is rounded down.
align_down(x, alignment) == x - (x % alignment)

align_up(x, alignment) == x + ((alignment - (x % alignment)) % alignment)

fits_in(page, n, alignment) == align_up(page.used, alignment) + n <= page.cap

greater(x, y) == IF x >= y THEN x ELSE y

get_next_page_size(a, n) ==
    IF a.pages = <<>> THEN greater(PageSize, n)
    ELSE LET previous == a.pages[Len(a.pages)].cap
         IN greater(IF previous > MaxPage \div 2 THEN MaxPage ELSE previous * 2, n)

page_needed(a, n, alignment) ==
    a.pages = <<>> \/ ~fits_in(a.pages[Len(a.pages)], n, alignment)

\* append_page
with_page(a, n) == Append(a.pages, [cap |-> get_next_page_size(a, n), used |-> 0])

\* The end of alloc_small: n bytes of the last page.
taken(a, pages, n, alignment) ==
    LET i == Len(pages)
        offset == align_up(pages[i].used, alignment)
    IN [ok |-> TRUE,
        arena |-> [a EXCEPT !.pages = [pages EXCEPT ![i].used = offset + n]],
        at |-> [kind |-> "page", index |-> i, offset |-> offset, size |-> n]]

alloc_small(a, n, alignment, memory) ==
    IF ~page_needed(a, n, alignment) THEN taken(a, a.pages, n, alignment)
    ELSE IF memory THEN taken(a, with_page(a, n), n, alignment)
    ELSE failed(a)

alloc_large(a, n, memory) ==
    IF memory
    THEN [ok |-> TRUE,
          arena |-> [a EXCEPT !.large = Append(a.large, [cap |-> n, used |-> n])],
          at |-> [kind |-> "large", index |-> Len(a.large) + 1, offset |-> 0, size |-> n]]
    ELSE failed(a)

has_single_bit(alignment) == \E k \in 0 .. alignment : alignment = 2 ^ k

alloc(a, n, alignment, memory) ==
    IF n = 0 THEN [ok |-> TRUE, arena |-> a, at |-> NoPlace]
    ELSE IF alignment = 0 \/ ~has_single_bit(alignment) THEN failed(a)
    ELSE IF n >= LargeThreshold \/ n > MaxPage \/ alignment > MaxAlign
    THEN alloc_large(a, n, memory)
    ELSE alloc_small(a, n, alignment, memory)

checkpoint(a) ==
    [page_count |-> Len(a.pages),
     page_used |-> IF a.pages = <<>> THEN 0 ELSE a.pages[Len(a.pages)].used,
     large_count |-> Len(a.large),
     destructor_count |-> Len(a.destructors)]

\* A checkpoint that does not satisfy this makes rollback throw.
reachable(a, cp) ==
    /\ cp.page_count <= Len(a.pages)
    /\ cp.large_count <= Len(a.large)
    /\ cp.destructor_count <= Len(a.destructors)
    /\ cp.page_count > 0 => cp.page_used <= a.pages[cp.page_count].used

\* destroy_to and the release of what came after the checkpoint.
rollback(a, cp) ==
    LET kept == SubSeq(a.pages, 1, cp.page_count)
    IN [pages |-> IF kept = <<>> THEN kept
                  ELSE [kept EXCEPT ![cp.page_count].used = cp.page_used],
        large |-> SubSeq(a.large, 1, cp.large_count),
        destructors |-> SubSeq(a.destructors, 1, cp.destructor_count)]

\* The element i of an array of objects of n bytes.
element(at, n, i) == [at EXCEPT !.offset = @ + (i - 1) * n, !.size = n]

\* arena_new_array: the objects are constructed one by one and each destructor
\* is registered.  Only the first `built` of them succeed: when that is not all,
\* everything is rolled back.
arena_new_array(a, n, alignment, count, memory, built) ==
    LET got == alloc(a, n * count, alignment, memory)
        objects == [got.arena EXCEPT !.destructors =
                        @ \o [i \in 1 .. built |-> element(got.at, n, i)]]
    IN IF count = 0 THEN failed(a)
       ELSE IF ~got.ok THEN got
       ELSE IF built = count THEN [got EXCEPT !.arena = objects]
       ELSE failed(rollback(objects, checkpoint(a)))

arena_new(a, n, alignment, memory, built) ==
    arena_new_array(a, n, alignment, 1, memory, IF built THEN 1 ELSE 0)

\* A place lies in a page the arena has, below its cursor.
backed(a, at) ==
    \/ at = NoPlace
    \/ /\ at.kind = "page" /\ at.index \in DOMAIN a.pages
       /\ at.offset + at.size <= a.pages[at.index].used
       /\ a.pages[at.index].used <= a.pages[at.index].cap
    \/ at.kind = "large" /\ at.index \in DOMAIN a.large

\* Two places share no byte.
apart(p, q) ==
    \/ NoPlace \in {p, q}
    \/ <<p.kind, p.index>> # <<q.kind, q.index>>
    \/ p.offset + p.size <= q.offset
    \/ q.offset + q.size <= p.offset
=============================================================================
