----------------------------- MODULE MCRestore -----------------------------
(* Instances of Restore for TLC.  The prefix is "b"; the other instances'    *)
(* prefixes are chosen around it in the order of strings.                    *)
EXTENDS Restore

Backups  == <<98>>        \* "b"
After    == <<99>>        \* "c"
Sibling  == <<98, 50>>    \* "b2", which begins with this instance's prefix
Around   == {After, Sibling}
Siblings == {Sibling}

\* While psql runs the restore looks at the bucket no more, and psql at nothing but its
\* input: jobs and clock do their steps before it or after it.  A dump taken
\* meanwhile is also taken after psql stopped at that line.
JobsOutsidePsql ==
  rpc' = "psql" => dumping' = {} /\ (rpc = "psql" => UNCHANGED <<now, backups>>)
=============================================================================
