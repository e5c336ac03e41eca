---------------------------- MODULE MCFileAccess ----------------------------
(* Instances of FileAccess for TLC: the ranges clients lock and write.       *)
EXTENDS FileAccess

\* Either block of a two-block file; with Preload = 1 the second grows it.
EitherBlock == {<<0, 1>>, <<1, 1>>}

\* The first byte of a block of two: with an empty file it grows it, otherwise it patches it.
FirstByte == {<<0, 1>>}

=============================================================================
