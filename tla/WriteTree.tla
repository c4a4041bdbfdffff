------------------------------ MODULE WriteTree ------------------------------
(***************************************************************************)
(* The pending writes of the Realtime Database library: FWriteTree over    *)
(* FCompoundWrite, and the nodes and paths they are made of.               *)
(*                                                                         *)
(* A path is the set of the leaves below it, so that one path contains     *)
(* another when its set does; a node at a path is the function from its    *)
(* leaves to their values, Nil where there is nothing.                     *)
(***************************************************************************)
EXTENDS Integers, SequencesExt

CONSTANTS
  Paths,   \* sets of leaves that form a tree
  Nil      \* no value

Leaves == UNION Paths

ASSUME PathsAssumption ==
  /\ IsFiniteSet(Paths)
  /\ Leaves \in Paths
  /\ \A l \in Leaves : {l} \in Paths
  /\ \A p, q \in Paths : p # {} /\ (p \cap q = {} \/ p \subseteq q \/ q \subseteq p)

Above(p) == {q \in Paths : p \subseteq q /\ q # p}
Children(p) == {c \in Paths : p \in Above(c) /\ Above(c) \cap Above(p) = Above(c) \ {p}}

(* The child of p on the way to q.                                         *)
ChildTowards(p, q) == CHOOSE c \in Children(p) : q \subseteq c

Empty(p) == [l \in p |-> Nil]
IsEmpty(node) == \A l \in DOMAIN node : node[l] = Nil

(* getChild: of a node at or above p.                                      *)
Child(node, p) == [l \in p |-> node[l]]

(* updateChild: withNewChild: at or below the node.                        *)
UpdateChild(node, new) == [l \in DOMAIN node |-> IF l \in DOMAIN new THEN new[l] ELSE node[l]]

(***************************************************************************)
(* FCompoundWrite: a tree with a node at each of its root-most values, as  *)
(* the set of these nodes.                                                 *)
(***************************************************************************)
Covering(writes, p) == {w \in writes : p \subseteq DOMAIN w}

(* hasCompleteWriteAtPath, and shadowingWriteAtPath # nil.                 *)
HasCompleteWrite(writes, p) == Covering(writes, p) # {}

(* removeWriteAtPath leaves a write at a higher location alone.            *)
RemoveWriteAtPath(writes, p) == {w \in writes : ~(DOMAIN w \subseteq p)}

(* addWrite:atPath: goes into the write above it, or replaces those below. *)
AddWrite(writes, node) ==
  IF HasCompleteWrite(writes, DOMAIN node)
    THEN {IF DOMAIN node \subseteq DOMAIN w THEN UpdateChild(w, node) ELSE w : w \in writes}
    ELSE RemoveWriteAtPath(writes, DOMAIN node) \cup {node}

(* applyToNode of the childCompoundWriteAtPath of the node.                *)
Overlay(writes, node) ==
  [l \in DOMAIN node |->
     LET over == Covering(writes, {l})
     IN  IF over = {} THEN node[l] ELSE (CHOOSE w \in over : TRUE)[l]]

(***************************************************************************)
(* FWriteTree: allWrites is a sequence of records of a number and a node,  *)
(* visibleWrites their compound write.                                     *)
(***************************************************************************)

(* layerTreeFromWrites.                                                    *)
Layer(allWrites) ==
  FoldLeft(LAMBDA writes, record : AddWrite(writes, record.node), {}, allWrites)

Ids(allWrites) == {allWrites[k].id : k \in DOMAIN allWrites}
IndexOf(allWrites, i) == CHOOSE k \in DOMAIN allWrites : allWrites[k].id = i
WriteOf(allWrites, i) == allWrites[IndexOf(allWrites, i)]
PathOf(allWrites, i) == DOMAIN WriteOf(allWrites, i).node

(* A later write contains the one removed.                                 *)
Shadowed(allWrites, i) ==
  \E k \in DOMAIN allWrites :
    k > IndexOf(allWrites, i) /\ PathOf(allWrites, i) \subseteq DOMAIN allWrites[k].node

(* Mutant: the writes below the one removed are forgotten with it.         *)
NeverOverlaps(allWrites, i) == FALSE

(* The one removed contains another write.                                 *)
Overlaps(allWrites, i) ==
  \E k \in DOMAIN allWrites :
    k # IndexOf(allWrites, i) /\ DOMAIN allWrites[k].node \subseteq PathOf(allWrites, i)

(* removeWriteId: what allWrites and visibleWrites become, and whether the *)
(* write may have been visible.                                            *)
RemoveWriteId(allWrites, visibleWrites, i) ==
  LET rest == RemoveAt(allWrites, IndexOf(allWrites, i))
      path == PathOf(allWrites, i)
  IN  [allWrites |-> rest,
       visibleWrites |->
         IF Shadowed(allWrites, i) THEN visibleWrites
         ELSE IF Overlaps(allWrites, i) THEN Layer(rest)
         ELSE RemoveWriteAtPath(visibleWrites, path),
       visible |-> ~Shadowed(allWrites, i)]

(* calculateCompleteEventChildren: the children that are known.            *)
CompleteEventChildren(writes, node) ==
  LET known == UNION {c \in Children(DOMAIN node) :
                        ~IsEmpty(Child(node, c)) \/ HasCompleteWrite(writes, c)}
  IN  [l \in DOMAIN node |-> IF l \in known THEN Overlay(writes, node)[l] ELSE Nil]
=============================================================================
