---------------------------- MODULE MCStreamRouting ----------------------------
(***************************************************************************)
(* TLC instances of StreamRouting.  Streams are published on "b" and "c";  *)
(* "a" is an alias name, and in some runs also a stream of its own.        *)
(***************************************************************************)
EXTENDS StreamRouting

CONSTANTS a, b, c, p1, p2, p3, s1, s2, s3

\* Who publishes where.
AllOnB == [p \in Pub |-> b]
P3OnA == [p \in Pub |-> IF p = p3 THEN a ELSE b]
P3OnC == [p \in Pub |-> IF p = p3 THEN c ELSE b]
AThenBC == [p \in Pub |-> CASE p = p1 -> a [] p = p2 -> b [] OTHER -> c]

\* Who subscribes where.
SubsOnA == [s \in Sub |-> a]
SubsOnB == [s \in Sub |-> b]
S1OnA == [s \in Sub |-> IF s = s1 THEN a ELSE b]

\* The configured rewriting rules: none, or "a" to "b".
NoRegex == [x \in Path |-> NoPath]
AToB == [x \in Path |-> IF x = a THEN b ELSE NoPath]

\* The calls of SetStreamAlias: "a" for "b", kept or removed with its stream;
\* also its removal; also its redirection to "c".
Create == {<<a, b, TRUE>>, <<a, b, FALSE>>}
CreateAndRemove == {<<a, b, FALSE>>, <<a, NoPath, FALSE>>}
Redirect == CreateAndRemove \cup {<<a, c, FALSE>>}
===============================================================================
