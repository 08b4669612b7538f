------------------------------- MODULE Drivers -------------------------------
(***************************************************************************)
(* The four structures a build can choose as MemTableDriver: RBTree,       *)
(* Treap, SplayTree and SkipList.  A node is known by the sequence number  *)
(* of its record, and 0 is the null pointer.  The three trees share their  *)
(* rotations, descent and iterator (each class has its own copy of them);  *)
(* they differ in what they do after the plain insertion.                  *)
(***************************************************************************)
EXTENDS Naturals, Sequences

CONSTANTS MaxSeq,    \* bound: records carry sequence numbers 1 .. MaxSeq
          MaxLevel   \* SkipList::MAX_LEVEL

ASSUME DriversAssumption == MaxSeq \in Nat \ {0} /\ MaxLevel \in Nat \ {0}

Nil  == 0
Node == 1 .. MaxSeq
ListHead == MaxSeq + 1      \* the skip list's head node

\* Node::color, or Node::priority of a treap.
Black == 0
Red   == 1

\* VirtualNode::operator<: by key, and the newer version of one key first.
less(t, a, b) == IF t.key[a] = t.key[b] THEN a > b ELSE t.key[a] < t.key[b]

-----------------------------------------------------------------------------
EmptyTree ==
    LET none == [n \in 0 .. MaxSeq |-> Nil]
    IN [root |-> Nil, key |-> none, left |-> none, right |-> none,
        parent |-> none, mark |-> none]

opposite(side) == IF side = "left" THEN "right" ELSE "left"

\* The link that led to v leads to u.
relinked(t, v, u) ==
    LET p == t.parent[v]
    IN IF p = Nil THEN [t EXCEPT !.root = u]
       ELSE IF v = t.left[p] THEN [t EXCEPT !.left[p] = u]
       ELSE [t EXCEPT !.right[p] = u]

\* left_rotate for side = "left", right_rotate for side = "right": v goes down
\* on that side and its child of the other side takes its place.
rotate(t, v, side) ==
    LET u == t[opposite(side)][v]
        w == t[side][u]
        moved == [relinked(t, v, u) EXCEPT ![opposite(side)][v] = w, ![side][u] = v]
    IN IF v = Nil \/ u = Nil THEN t
       ELSE [moved EXCEPT !.parent = [n \in DOMAIN t.parent |->
                IF n = u THEN t.parent[v]
                ELSE IF n = v THEN u
                ELSE IF n = w /\ w # Nil THEN v
                ELSE t.parent[n]]]

\* The leaf under which n belongs.
RECURSIVE leaf_for(_, _, _)
leaf_for(t, current, n) ==
    LET below == IF less(t, n, current) THEN t.left[current] ELSE t.right[current]
    IN IF below = Nil THEN current ELSE leaf_for(t, below, n)

\* The descent and the link of bst_insert, which rejects a record that is there.
linked(t, n) ==
    IF t.root = Nil THEN [t EXCEPT !.root = n]
    ELSE LET p == leaf_for(t, t.root, n)
         IN [t EXCEPT !.parent[n] = p,
                      ![IF less(t, n, p) THEN "left" ELSE "right"][p] = n]

-----------------------------------------------------------------------------
\* A mutant: the loop ends after a recolouring.
RECURSIVE balance_once(_, _)
balance_once(t, v) ==
    LET p == t.parent[v]
        g == t.parent[p]
        side == IF p = t.left[g] THEN "left" ELSE "right"
        uncle == t[opposite(side)][g]
        inner == v = t[opposite(side)][p]
        top == IF inner THEN v ELSE p
        turned == IF inner THEN rotate(t, p, side) ELSE t
    IN IF v = t.root \/ p = Nil \/ t.mark[p] # Red \/ g = Nil
       THEN [t EXCEPT !.mark[t.root] = Black]
       ELSE IF uncle # Nil /\ t.mark[uncle] = Red
       THEN [t EXCEPT !.mark[p] = Black, !.mark[uncle] = Black, !.mark[g] = Red,
                      !.mark[t.root] = Black]
       ELSE balance_once(rotate([turned EXCEPT !.mark[top] = Black, !.mark[g] = Red],
                                g, opposite(side)),
                         IF inner THEN p ELSE v)

\* RBTree::balance: v is red.  The two halves of the loop mirror each other.
RECURSIVE balance(_, _)
balance(t, v) ==
    LET p == t.parent[v]
        g == t.parent[p]
        side == IF p = t.left[g] THEN "left" ELSE "right"
        uncle == t[opposite(side)][g]
        inner == v = t[opposite(side)][p]
        top == IF inner THEN v ELSE p
        turned == IF inner THEN rotate(t, p, side) ELSE t
    IN IF v = t.root \/ p = Nil \/ t.mark[p] # Red \/ g = Nil
       THEN [t EXCEPT !.mark[t.root] = Black]
       ELSE IF uncle # Nil /\ t.mark[uncle] = Red
       THEN balance([t EXCEPT !.mark[p] = Black, !.mark[uncle] = Black, !.mark[g] = Red], g)
       ELSE balance(rotate([turned EXCEPT !.mark[top] = Black, !.mark[g] = Red],
                           g, opposite(side)),
                    IF inner THEN p ELSE v)

\* Treap::bst_insert after the link.
RECURSIVE bubble_up(_, _)
bubble_up(t, v) ==
    LET p == t.parent[v]
    IN IF p = Nil \/ t.mark[v] <= t.mark[p] THEN t
       ELSE bubble_up(rotate(t, p, IF v = t.left[p] THEN "right" ELSE "left"), v)

\* One turn of the loop of SplayTree::splay, for a v that has a parent.  With
\* links that disagree no branch is taken and the loop turns without effect.
splay_step(t, v) ==
    LET p == t.parent[v]
        g == t.parent[p]
        side == IF p = t.left[g] THEN "left" ELSE "right"
    IN IF g = Nil THEN rotate(t, p, IF v = t.left[p] THEN "right" ELSE "left")
       ELSE IF t[side][g] # p \/ v \notin {t.left[p], t.right[p]} THEN t
       ELSE IF v = t[side][p]
       THEN rotate(rotate(t, g, opposite(side)), p, opposite(side))
       ELSE rotate(rotate(t, p, side), g, opposite(side))

RECURSIVE splay(_, _)
splay(t, v) == IF t.parent[v] = Nil THEN t ELSE splay(splay_step(t, v), v)

-----------------------------------------------------------------------------
\* InorderIterator: a stack of the nodes whose left side is done.
RECURSIVE push_left(_, _, _)
push_left(t, stack, n) == IF n = Nil THEN stack ELSE push_left(t, <<n>> \o stack, t.left[n])

RECURSIVE iterated(_, _)
iterated(t, stack) ==
    IF stack = <<>> THEN <<>>
    ELSE <<stack[1]>> \o iterated(t, push_left(t, Tail(stack), t.right[stack[1]]))

tree_dump(t) == iterated(t, push_left(t, <<>>, t.root))

-----------------------------------------------------------------------------
\* The validators of the classes.
ordering_correct(t, dump) == \A i \in 1 .. Len(dump) - 1 : less(t, dump[i], dump[i + 1])

parent_links_valid(t, nodes) ==
    /\ t.root # Nil => t.parent[t.root] = Nil
    /\ \A n \in nodes : \A c \in {t.left[n], t.right[n]} \ {Nil} : t.parent[c] = n

no_red_node_has_red_child(t, nodes) ==
    \A n \in nodes : t.mark[n] = Red =>
        \A c \in {t.left[n], t.right[n]} \ {Nil} : t.mark[c] = Black

\* subtree_black_height_info: 0 where the heights below a node differ.
RECURSIVE black_height(_, _)
black_height(t, n) ==
    IF n = Nil THEN 1
    ELSE LET l == black_height(t, t.left[n])
             r == black_height(t, t.right[n])
         IN IF l = 0 \/ l # r THEN 0 ELSE IF t.mark[n] = Black THEN l + 1 ELSE l

heap_ordering_correct(t, nodes) ==
    \A n \in nodes : \A c \in {t.left[n], t.right[n]} \ {Nil} : t.mark[c] <= t.mark[n]

-----------------------------------------------------------------------------
\* SkipList: next[n][level], and current_level.
EmptyList ==
    LET none == [n \in 0 .. ListHead |-> Nil]
    IN [key |-> none, level |-> 1, height |-> [none EXCEPT ![ListHead] = MaxLevel],
        next |-> [n \in 0 .. ListHead |-> [l \in 1 .. MaxLevel |-> Nil]]]

\* The last node of a level, from `current` on, before which no node of
\* `smaller` is missed.
RECURSIVE along(_, _, _, _)
along(s, current, level, smaller) ==
    IF s.next[current][level] \in smaller
    THEN along(s, s.next[current][level], level, smaller) ELSE current

\* The node after which the insertion leaves each level.
search_path(s, smaller) ==
    LET update[l \in 1 .. s.level] ==
            along(s, IF l = s.level THEN ListHead ELSE update[l + 1], l, smaller)
    IN update

list_insert(s, n, height) ==
    LET path == search_path(s, {m \in Node : s.key[m] # Nil /\ m # n /\ less(s, m, n)})
        update(l) == IF l <= s.level THEN path[l] ELSE ListHead
    IN [s EXCEPT !.level = IF height > s.level THEN height ELSE s.level,
                 !.height[n] = height,
                 !.next = [m \in DOMAIN s.next |-> [l \in 1 .. MaxLevel |->
                    IF l > height THEN s.next[m][l]
                    ELSE IF m = n THEN s.next[update(l)][l]
                    ELSE IF m = update(l) THEN n ELSE s.next[m][l]]]]

\* dump_level_inorder from a node on.
RECURSIVE list_dump(_, _, _)
list_dump(s, n, level) ==
    IF n = Nil THEN <<>> ELSE <<n>> \o list_dump(s, s.next[n][level], level)

list_validate(s, nodes) ==
    \A n \in nodes : \A l \in 1 .. s.height[n] :
        s.next[n][l] # Nil => ~less(s, s.next[n][l], n)

-----------------------------------------------------------------------------
\* Driver, for the class d.
empty_driver(d) == IF d = "SkipList" THEN EmptyList ELSE EmptyTree

holds(t, n) == t.key[n] # Nil

\* The priority of a treap node or the height of a skip list node is drawn at
\* random; the others draw nothing.
draws(d) == IF d \in {"Treap", "SkipList"} THEN 1 .. MaxLevel ELSE {Red}

insert(d, t, n, key, drawn) ==
    LET keyed == [t EXCEPT !.key[n] = key]
        marked == [keyed EXCEPT !.mark[n] = drawn]
    IN IF holds(t, n) THEN t
       ELSE CASE d = "RBTree"    -> balance(linked(marked, n), n)
              [] d = "Treap"     -> bubble_up(linked(marked, n), n)
              [] d = "SplayTree" -> splay(linked(keyed, n), n)
              [] d = "SkipList"  -> list_insert(keyed, n, drawn)

(***************************************************************************)
(* find_latest_by_key, turn by turn.  A search is the locals of the loop:  *)
(* current (Nil when it has ended), level of a skip list, last of a splay  *)
(* tree, and the result so far.                                            *)
(***************************************************************************)
NoSearch == [current |-> Nil, level |-> 0, last |-> Nil, found |-> Nil]

search_begin(d, t) ==
    IF d = "SkipList" THEN [NoSearch EXCEPT !.current = ListHead, !.level = t.level]
    ELSE [NoSearch EXCEPT !.current = t.root]

\* The loops of the trees.
tree_turn(t, key, at) ==
    LET n == at.current
    IN [at EXCEPT !.current = IF t.key[n] < key THEN t.right[n] ELSE t.left[n],
                  !.last = n,
                  !.found = IF t.key[n] = key THEN n ELSE @]

\* SkipList: along a level, down to the next one, or the look at the node
\* behind the last one of the lowest level.
list_turn(s, key, at) ==
    LET n == s.next[at.current][at.level]
    IN IF n # Nil /\ s.key[n] < key THEN [at EXCEPT !.current = n]
       ELSE IF at.level > 1 THEN [at EXCEPT !.level = @ - 1]
       ELSE [at EXCEPT !.current = Nil,
                       !.found = IF n # Nil /\ s.key[n] = key THEN n ELSE Nil]

search_turn(d, t, key, at) ==
    IF d = "SkipList" THEN list_turn(t, key, at) ELSE tree_turn(t, key, at)

RECURSIVE searched(_, _, _, _)
searched(d, t, key, at) ==
    IF at.current = Nil THEN at.found ELSE searched(d, t, key, search_turn(d, t, key, at))

\* find_latest_by_key const, which runs undisturbed.
find_latest_by_key(d, t, key) == searched(d, t, key, search_begin(d, t))

dump_inorder(d, t) ==
    IF d = "SkipList" THEN list_dump(t, t.next[ListHead][1], 1) ELSE tree_dump(t)

empty(d, t) == IF d = "SkipList" THEN t.next[ListHead][1] = Nil ELSE t.root = Nil

validate(d, t, dump) ==
    LET nodes == {dump[i] : i \in DOMAIN dump}
    IN /\ ordering_correct(t, dump)
       /\ d = "SkipList" => list_validate(t, nodes)
       /\ d # "SkipList" => parent_links_valid(t, nodes)
       /\ d = "Treap" => heap_ordering_correct(t, nodes)
       /\ d = "RBTree" => /\ t.root # Nil => t.mark[t.root] = Black
                          /\ no_red_node_has_red_child(t, nodes)
                          /\ black_height(t, t.root) # 0
=============================================================================
