---------------------------- MODULE MCIngestion ----------------------------
(* Instances of Ingestion for TLC. *)
EXTENDS IngestionProperties

\* Each kind of wrong row, in files with good ones; in two of them the second
\* chunk has a line that does not parse.
Files ==
  {<<"malformed", "good", "unreadable">>, <<"constraint", "good", "unreadable">>,
   <<"good", "oversized", "good">>, <<"good", "unreadable", "good">>}

=============================================================================
