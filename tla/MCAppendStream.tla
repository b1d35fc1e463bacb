-------------------------- MODULE MCAppendStream ---------------------------
(* Small instances of AppendStream.                                         *)
EXTENDS AppendStream

\* Two payloads that differ in every respect the code looks at.
MCBodies == {[events |-> 1, topics |-> TRUE], [events |-> 2, topics |-> FALSE]}

MCExpectedVersions == {-1, 0, 1}
=============================================================================
