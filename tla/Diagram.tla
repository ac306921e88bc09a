-------------------------------- MODULE Diagram --------------------------------
(***************************************************************************)
(* to_mermaid (diagram.py): the nodes and edges of the diagram of a graph. *)
(* A node id is a sanitised state name; names that sanitise alike get a    *)
(* numbered suffix, which may itself be the name of another state.  The    *)
(* wording of the lines is left out.                                       *)
(***************************************************************************)
EXTENDS Build, SequencesExt

CONSTANT Sanitised   \* a function: state name -> the id with unsafe characters
                     \* replaced, and "s_" before a digit or an empty name

Suffixed(safe, n) == safe \o "_" \o ToString(n)

(***************************************************************************)
(* Two numbers are not written alike; as far as the ids of one machine     *)
(* need it.                                                                *)
(***************************************************************************)
ASSUME SuffixAssumption ==
  \A src \in Sources :
    \A s \in DOMAIN src, m \in 2 .. Cardinality(DOMAIN src) + 2,
                         n \in 2 .. Cardinality(DOMAIN src) + 2 :
      Suffixed(Sanitised[s], m) = Suffixed(Sanitised[s], n) => m = n

(* Mutant: the suffixed id is not checked again. *)
FreshIdOnce(safe, used) == IF safe \notin used THEN safe ELSE Suffixed(safe, 2)

(* safe, or else the first of safe_2, safe_3, ... that is free. *)
FreshId(safe, used) ==
  IF safe \notin used THEN safe
  ELSE LET n == CHOOSE n \in 2 .. Cardinality(used) + 2 :
                  /\ Suffixed(safe, n) \notin used
                  /\ \A m \in 2 .. n - 1 : Suffixed(safe, m) \in used
       IN Suffixed(safe, n)

(* One turn of the loop of _assign_ids. *)
AddId(ids, name) ==
  [x \in DOMAIN ids \cup {name} |->
     IF x = name THEN FreshId(Sanitised[name], Range(ids)) ELSE ids[x]]

(* _assign_ids, over the names in declaration order: ids after each turn. *)
AssignIds(names) ==
  LET ids[k \in 0 .. Len(names)] ==
        IF k = 0 THEN <<>> ELSE AddId(ids[k - 1], names[k])
  IN ids[Len(names)]

Edge(ids, from, to, label, guard) ==
  [from |-> ids[from], to |-> ids[to], label |-> label, guard |-> guard]

(* One edge for every candidate, and one for an error state. *)
EdgesFrom(c, ids, s) ==
       (UNION {{Edge(ids, s, t.target, e, t.guard) : t \in Elements(c[s].on[e])}
                 : e \in DOMAIN c[s].on})
  \cup {Edge(ids, s, t.target, "always", t.guard) : t \in Elements(c[s].always)}
  \cup {Edge(ids, s, err, "error", None) : err \in {c[s].error_state} \ {None}}

Edges(c, ids) == UNION {EdgesFrom(c, ids, s) : s \in DOMAIN c}

----------------------------------------------------------------------------
(* The successors of a state, and what the reader of a diagram takes for   *)
(* them: a node stands for every state that was given its id.              *)

Successors(c, s) ==
  {t.target : t \in AllCandidates(c, s)} \cup ({c[s].error_state} \ {None})

DrawnSuccessors(c, ids, s) ==
  {x \in DOMAIN c : \E edge \in Edges(c, ids) : edge.from = ids[s] /\ edge.to = ids[x]}

(* The ids of a graph, for every order its states may be declared in. *)
IdsOf(c) == {AssignIds(names) : names \in SetToSeqs(DOMAIN c)}

DrawsTheGraph(c, ids) ==
  \A s \in DOMAIN c : DrawnSuccessors(c, ids, s) = Successors(c, s)

(* The diagram of a machine shows, from every state, edges to the states   *)
(* the engine can go to from there and to no other, whatever characters    *)
(* the names are made of and in whatever order the states are declared.    *)
(* An error_state of "", which from_dict accepts, is left out: there       *)
(* to_mermaid raises KeyError (diagram.py:57).                             *)
DiagramTellsTheGraph ==
  config # None /\ (\A s \in DOMAIN config : config[s].error_state # "") =>
    \A ids \in IdsOf(config) : DrawsTheGraph(config, ids)
=============================================================================
