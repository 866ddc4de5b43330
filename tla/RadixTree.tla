------------------------------ MODULE RadixTree ------------------------------
(***************************************************************************)
(* The radix tree of fboss/lib/RadixTree.h: the container of the routes of *)
(* the RIB.  A prefix (ipAddress_, masklen_) is the sequence of its bits,  *)
(* most significant first, so masking is SubSeq and a full address is a    *)
(* prefix of maximal length.  A tree is a record of the prefix at its      *)
(* root, the links of every node, keyed by the node's prefix (unique in a  *)
(* tree), and the values of the value nodes.                               *)
(***************************************************************************)
EXTENDS Integers, SequencesExt

(* nullptr, as a link: no prefix has a bit -1. *)
nullptr == <<-1>>

NoLinks == [left |-> nullptr, right |-> nullptr, parent |-> nullptr]
EmptyFunction == [p \in {} |-> p]
EmptyTree == [root |-> nullptr, node |-> EmptyFunction, value |-> EmptyFunction]

isValueNode(t, n) == n \in DOMAIN t.value

mask(addr, masklen) == SubSeq(addr, 1, masklen)

longestCommonPrefix(p, q) == LongestCommonPrefix({p, q})

(* Where toSearch lies seen from the node with prefix n. *)
searchDirection(n, toSearch) ==
  IF Len(n) < Len(toSearch)
  THEN IF mask(toSearch, Len(n)) # n THEN "parent"
       ELSE IF toSearch[Len(n) + 1] = 1 THEN "right" ELSE "left"
  ELSE IF n = toSearch THEN "this" ELSE "parent"

otherSide(side) == IF side = "left" THEN "right" ELSE "left"

---------------------------------------------------------------------------
(* resetLeft and resetRight: hang child below n and point it back to n. *)
resetChild(t, n, side, child) ==
  LET linked == [t.node EXCEPT ![n][side] = child]
  IN [t EXCEPT !.node = IF child = nullptr THEN linked
                        ELSE [linked EXCEPT ![child].parent = n]]

makeRoot(t, n) == [t EXCEPT !.root = n, !.node[n].parent = nullptr]
makeNode(t, n) == [t EXCEPT !.node = [m \in DOMAIN @ \cup {n} |->
                                        IF m = n THEN NoLinks ELSE @[m]]]
freeNode(t, n) == [t EXCEPT !.node = Restrict(@, DOMAIN @ \ {n})]
setValue(t, n, v) == [t EXCEPT !.value = [m \in DOMAIN @ \cup {n} |->
                                            IF m = n THEN v ELSE @[m]]]
makeNonValueNode(t, n) == [t EXCEPT !.value = Restrict(@, DOMAIN @ \ {n})]
sideOf(t, n) == IF t.node[t.node[n].parent].left = n THEN "left" ELSE "right"

---------------------------------------------------------------------------
(* The walk of longestMatchImpl from cur, whose parent is up; last is the  *)
(* last value node seen.                                                   *)
RECURSIVE walk(_, _, _, _, _)
walk(t, toMatch, cur, up, last) ==
  LET dir == searchDirection(cur, toMatch)
      seen == IF isValueNode(t, cur) THEN cur ELSE last
      next == t.node[cur][dir]
  IN CASE cur = nullptr -> [node |-> cur, last |-> last, found |-> FALSE]
       [] dir = "this" -> [node |-> cur, last |-> seen, found |-> TRUE]
       [] dir = "parent" -> [node |-> up, last |-> last, found |-> FALSE]
       [] next = nullptr -> [node |-> cur, last |-> seen, found |-> FALSE]
       [] OTHER -> walk(t, toMatch, next, cur, seen)

longestMatchImpl(t, toMatch) ==
  IF t.root = nullptr THEN [node |-> nullptr, last |-> nullptr, found |-> FALSE]
  ELSE walk(t, toMatch, t.root, nullptr, nullptr)

longestMatch(t, toMatch) == longestMatchImpl(t, toMatch).last

exactMatch(t, p) ==
  LET m == longestMatchImpl(t, p)
  IN IF m.found /\ isValueNode(t, m.node) THEN m.node ELSE nullptr

---------------------------------------------------------------------------
(* A new node p, already made, where the tree has no match for it: it or   *)
(* the common prefix with the old root becomes the root.                   *)
insertAboveRoot(t, p) ==
  LET common == longestCommonPrefix(t.root, p)
      top == IF common = p THEN t ELSE makeNode(t, common)
      side == searchDirection(common, t.root)
      hung == resetChild(top, common, side, t.root)
  IN makeRoot(IF common = p THEN hung
              ELSE resetChild(hung, common, otherSide(side), p), common)

(* A new node p, already made, below its best match best. *)
insertBelow(t, best, p) ==
  LET side == searchDirection(best, p)
      child == t.node[best][side]
      common == longestCommonPrefix(child, p)
      between == resetChild(makeNode(t, common), best, side, common)
      newSide == searchDirection(common, p)
  IN CASE child = nullptr -> resetChild(t, best, side, p)
       [] common # p -> resetChild(resetChild(between, common, newSide, p),
                                   common, otherSide(newSide), child)
       [] OTHER -> resetChild(resetChild(t, best, side, p),
                              p, searchDirection(p, child), child)

insert(t, p, v) ==
  LET m == longestMatchImpl(t, p)
      made == setValue(makeNode(t, p), p, v)
  IN CASE m.found -> IF isValueNode(t, p) THEN t ELSE setValue(t, p, v)
       [] m.node # nullptr -> insertBelow(made, m.node, p)
       [] t.root = nullptr -> makeRoot(made, p)
       [] OTHER -> insertAboveRoot(made, p)

(* child takes the place of n, which goes away. *)
replaceNode(t, n, child) ==
  LET up == t.node[n].parent
  IN freeNode(IF up = nullptr THEN makeRoot(t, child)
              ELSE resetChild(t, up, sideOf(t, n), child), n)

(* A childless n leaves; a non value parent goes with it, its other child  *)
(* taking the parent's place.                                              *)
eraseLeaf(t, n) ==
  LET up == t.node[n].parent
      freed == freeNode(resetChild(t, up, sideOf(t, n), nullptr), n)
      links == freed.node[up]
      sibling == IF links.left # nullptr THEN links.left ELSE links.right
  IN CASE up = nullptr -> EmptyTree
       [] isValueNode(t, up) -> freed
       [] OTHER -> replaceNode(freed, up, sibling)

erase(t, n) ==
  LET links == t.node[n]
      cleared == makeNonValueNode(t, n)
  IN CASE links.left # nullptr /\ links.right # nullptr -> cleared
       [] links.left = nullptr /\ links.right = nullptr -> eraseLeaf(cleared, n)
       [] OTHER -> replaceNode(cleared, n, IF links.left # nullptr THEN links.left
                                           ELSE links.right)

---------------------------------------------------------------------------
(* radixTreeItrIncrement: the next value node in preorder, found through   *)
(* the parent links.                                                       *)
RECURSIVE step(_, _, _)
step(t, cursor, previous) ==
  LET links == t.node[cursor]
      arrive(n) == IF n = nullptr \/ isValueNode(t, n) THEN n ELSE step(t, n, cursor)
      climb == IF links.parent = nullptr THEN nullptr
               ELSE step(t, links.parent, cursor)
  IN CASE previous = nullptr \/ links.parent = previous ->
            IF links.left # nullptr THEN arrive(links.left)
            ELSE IF links.right # nullptr THEN arrive(links.right) ELSE climb
       [] links.left = previous ->
            IF links.right # nullptr THEN arrive(links.right) ELSE climb
       [] OTHER -> climb

RECURSIVE iterateFrom(_, _)
iterateFrom(t, cursor) ==
  IF cursor = nullptr THEN <<>>
  ELSE (IF isValueNode(t, cursor) THEN <<cursor>> ELSE <<>>)
       \o iterateFrom(t, step(t, cursor, nullptr))

(* The prefixes of the value nodes in the order of a for loop. *)
iterate(t) == iterateFrom(t, t.root)

---------------------------------------------------------------------------
(* What a tree must be, without reference to how it was built.             *)

(* The longest stored prefix of addr, from the set of values alone. *)
ReferenceMatch(t, addr) ==
  LET covering == {p \in DOMAIN t.value : IsPrefix(p, addr)}
  IN IF covering = {} THEN nullptr
     ELSE CHOOSE p \in covering : \A q \in covering : Len(q) <= Len(p)
=============================================================================
