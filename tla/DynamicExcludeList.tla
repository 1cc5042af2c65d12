------------------------ MODULE DynamicExcludeList -------------------------
(***************************************************************************)
(* DynamicExcludeList (VerletList.cpp): pairs of particles that the Verlet *)
(* list leaves out, kept alike on all nodes.                               *)
(*                                                                         *)
(* exclude() and unexclude() are called on one node, by scripts or by the  *)
(* signals of a bonded list, and only note the pair.  updateList() gathers *)
(* what all nodes have noted and applies it sender by sender, removals of  *)
(* a sender before its additions.                                          *)
(***************************************************************************)
EXTENDS Integers

CONSTANTS N        \* number of nodes

Node == 0 .. N - 1

VARIABLES exList,    \* pairs a node excludes
          exAdd,     \* exList_add of a node
          exRemove,  \* exList_remove of a node
          exDirty    \* is_dirty of a node

exVars == <<exList, exAdd, exRemove, exDirty>>

\* the list starts with the pairs a script has excluded on all nodes
ExInit(pairs) ==
  /\ exList = [n \in Node |-> pairs]
  /\ exAdd = [n \in Node |-> {}] /\ exRemove = [n \in Node |-> {}]
  /\ exDirty = [n \in Node |-> FALSE]

\* exclude() and unexclude() of all the pairs nodes are told about
Note(excluded, unexcluded) ==
  /\ exAdd' = [n \in Node |-> exAdd[n] \cup excluded[n]]
  /\ exRemove' = [n \in Node |-> exRemove[n] \cup unexcluded[n]]
  /\ exDirty' = [n \in Node |-> exDirty[n] \/ excluded[n] \cup unexcluded[n] # {}]
  /\ UNCHANGED exList

\* variant: what the first node has noted is applied
UpdatedFirst(E) == E \cup exAdd[0]

\* the pairs E after the lists of all senders: the last one that names a pair
\* decides, and excludes it if it names it in both lists
Updated(E) ==
  LET touched == UNION {exAdd[n] \cup exRemove[n] : n \in Node}
      last(e) == CHOOSE n \in Node : /\ e \in exAdd[n] \cup exRemove[n]
                                     /\ \A m \in Node : m > n => e \notin exAdd[m] \cup exRemove[m]
  IN  (E \ touched) \cup {e \in touched : e \in exAdd[last(e)]}

\* updateList(): returns at once unless a node is dirty, and rebuilds the
\* Verlet list otherwise
UpdateList ==
  IF \E n \in Node : exDirty[n]
  THEN /\ exList' = [n \in Node |-> Updated(exList[n])]
       /\ exAdd' = [n \in Node |-> {}] /\ exRemove' = [n \in Node |-> {}]
       /\ exDirty' = [n \in Node |-> FALSE]
  ELSE UNCHANGED exVars

\* All nodes exclude the same pairs, whoever excluded them.
ExclusionsAgree == \A m, n \in Node : exList[m] = exList[n]

=============================================================================
