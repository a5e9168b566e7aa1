------------------------------ MODULE MCReads ------------------------------
(* Reads on small instances.  The site is that of MCSiteQueries.           *)
(* The objects are of a namespaced kind, two of one name, and of a         *)
(* cluster-wide one; a third kind is installed late, and stores a version  *)
(* other than its first.  The stream has up to seven messages, one without *)
(* metadata, one malformed, one whose filter fails after a match, one      *)
(* before it, one where it yields nothing; limits are below, at and above  *)
(* the ceilings.                                                           *)
EXTENDS MCSiteQueries, Reads

MCYields ==
  [n \in 1..7 |->
     CASE n = 3 -> << "falsy", "error", "truthy" >>
       [] n = 5 -> << "falsy", "truthy", "error" >>
       [] n = 6 -> << >>
       [] OTHER -> << "truthy" >>]

MCNamespaced ==
  [k \in {<<"tawon", "Directive">>, <<"", "Node">>} |-> k = <<"tawon", "Directive">>]
MCCRDs ==
  [k \in {<<"tawon", "Directive">>, <<"tawon", "Stream">>} |->
     IF k = <<"tawon", "Directive">> THEN <<[name |-> "v1", storage |-> TRUE, schema |-> TRUE]>>
     ELSE <<[name |-> "v1", storage |-> FALSE, schema |-> TRUE],
            [name |-> "v2", storage |-> TRUE, schema |-> TRUE],
            [name |-> "v3", storage |-> FALSE, schema |-> TRUE]>>]

Resource(group, kind, ns, name) ==
  [group |-> group, kind |-> kind, ns |-> ns, name |-> name]
MCObjects ==
  {Resource("tawon", "Directive", "a", "x"), Resource("tawon", "Directive", "b", "x"),
   Resource("", "Node", "", "x")}
MCReadRequests ==
  {Resource("tawon", "Directive", "", ""), Resource("tawon", "Directive", "a", "x"),
   Resource("", "Directive", "", "x"), Resource("", "Stream", "a", "")}
MCWatchRequests ==
  {[group |-> "", kind |-> "Directive", ns |-> ns] : ns \in {"", "a"}}
    \cup {[group |-> "", kind |-> "Stream", ns |-> ""]}
=============================================================================
