------------------------------ MODULE ScopeTrie ------------------------------
(***************************************************************************)
(* ScopeTrie (app/pdp/authz/scope.py): a trie of scopes such as            *)
(* tenant/service or tenant/service/action, and the check of a service     *)
(* against it.                                                             *)
(*                                                                         *)
(* A path is the sequence of the parts that "/" separates; a part may be   *)
(* empty (two slashes in a row, or one at an end of the path).  A node of  *)
(* the trie is the sequence of the parts that lead to it from the root.    *)
(***************************************************************************)
EXTENDS Integers, SequencesExt

CONSTANTS
    Paths,      \* paths that are inserted and looked up, sequences of parts
    Tenants,    \* values of tenant, one part each
    Services,   \* values of service, one part each
    Empty       \* the empty part

VARIABLES
    nodes,      \* the nodes that exist
    ends,       \* the nodes with is_end
    inserted    \* history: the paths that were inserted

vars == <<nodes, ends, inserted>>

\* path.strip("/").split("/"): without the empty parts at both ends, and
\* never without any part.
Parts(path) ==
    LET named == {i \in DOMAIN path : path[i] # Empty}
    IN  IF named = {} THEN <<Empty>>
        ELSE LET first == CHOOSE i \in named : \A j \in named : i <= j
                 last == CHOOSE i \in named : \A j \in named : j <= i
             IN  SubSeq(path, first, last)

NodesOf(parts) == {SubSeq(parts, 1, i) : i \in 0..Len(parts)}

Init ==
    /\ nodes = {<<>>}
    /\ ends = {}
    /\ inserted = {}

\* Faulty variant of Insert: the node before the last one is marked.
InsertMarksParent(path) ==
    /\ nodes' = nodes \cup NodesOf(Parts(path))
    /\ ends' = ends \cup {Front(Parts(path))}
    /\ inserted' = inserted \cup {path}

\* Faulty variant of Insert: the last node is marked and never created.
InsertStopsEarly(path) ==
    /\ nodes' = nodes \cup NodesOf(Front(Parts(path)))
    /\ ends' = ends \cup {Parts(path)}
    /\ inserted' = inserted \cup {path}

Insert(path) ==
    /\ nodes' = nodes \cup NodesOf(Parts(path))
    /\ ends' = ends \cup {Parts(path)}
    /\ inserted' = inserted \cup {path}

Next == \E path \in Paths : Insert(path)

Spec == Init /\ [][Next]_vars

-----------------------------------------------------------------------------
(* prefix_match and check                                                   *)

\* The walk goes on while there is a child, and succeeds at the first end.
PrefixMatch(path) ==
    LET parts == Parts(path)
        Walked == {i \in 0..Len(parts) : NodesOf(SubSeq(parts, 1, i)) \subseteq nodes}
    IN  \E i \in Walked : SubSeq(parts, 1, i) \in ends

Check(tenant, service, owned) ==
    \/ "*" \in owned
    \/ nodes # {<<>>} /\ PrefixMatch(<<tenant, service>>)
    \/ nodes = {<<>>} /\ service \in owned

Granted ==
    {grant \in [tenant : Tenants, service : Services, owned : SUBSET (Services \cup {"*"})] :
        Check(grant.tenant, grant.service, grant.owned)}

-----------------------------------------------------------------------------
(* Properties                                                               *)

\* The nodes form a tree under the root, and its leaves, apart from a root
\* that is alone, are marked: no path ends in the air.
TypeOK ==
    /\ <<>> \in nodes /\ ends \subseteq nodes \ {<<>>} /\ inserted \subseteq Paths
    /\ \A node \in nodes : NodesOf(node) \subseteq nodes
    /\ \A node \in nodes \ {<<>>} : \E end \in ends : IsPrefix(node, end)

\* prefix_match(path) holds exactly when a path that was inserted is a prefix
\* of it, part by part and whatever slashes surround either, although paths
\* share nodes and one path may end inside another.
MatchesPrefixes ==
    \A path \in Paths :
        PrefixMatch(path) <=> \E p \in inserted : IsPrefix(Parts(p), Parts(path))

\* The trie decides as the set of its paths does after every insert, and once
\* it decides, an insert takes no service from anybody.
ScopeIsExact ==
    [][ inserted' # inserted =>
          MatchesPrefixes' /\ (nodes # {<<>>} => Granted \subseteq Granted') ]_vars
=============================================================================
