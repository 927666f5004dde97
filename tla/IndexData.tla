------------------------------ MODULE IndexData ------------------------------
(***************************************************************************)
(* The data a saved generic index is made of, reduced to what the store's  *)
(* promises depend on.  A navigation node is a group card or a collection  *)
(* node; an entry is a node together with its search text (the text stands *)
(* for its own sha256, which the code stores as text_hash).  A vector      *)
(* remembers the text it was computed from and the embedding contract      *)
(* (provider, model, dimensions, builder version) that computed it.        *)
(***************************************************************************)

CONSTANTS
  Node,      \* ids of navigation nodes
  Text,      \* search texts
  Index,     \* the indexes build_generic_index can return
  Model,     \* embedding contracts
  NoModel    \* no usable embedder, or no contract in the catalog

Entry  == [node : Node, text : Text]
Vector == [node : Node, text : Text, model : Model]

\* Cards are saved as rows; collection nodes are rebuilt from the catalog's
\* profile.
Shape == [cards : SUBSET Entry, cols : SUBSET Entry]

\* build_nav_nodes: one node per card and one per profiled collection.
NavNodes(index) == index.cards \cup index.cols

\* Node ids are unique within an index: "card:<collection>:<key>" or
\* "col:<name>".
OneTextPerNode(index) ==
  \A e, f \in NavNodes(index) : e.node = f.node => e = f

\* What embedding every node of an index afresh yields.
VectorsOf(entries, model) ==
  {[node |-> e.node, text |-> e.text, model |-> model] : e \in entries}

ASSUME IndexAssumption ==
  /\ Index \subseteq Shape
  /\ \A i \in Index : OneTextPerNode(i)

ASSUME ModelAssumption == NoModel \notin Model
=============================================================================
