--------------------------- MODULE MCMusicPlayer ---------------------------
(* Small instances of MusicPlayer for TLC. *)
EXTENDS MusicPlayer

CONSTANTS u1, u2, f1     \* two URLs and a local file

MCTracks == {u1, u2, f1}
MCUrls   == {u1, u2}

Batch(first, rest) == [first |-> first, rest |-> rest]

\* A list, a single file, a list whose first entry is dropped, and one of which
\* nothing is left.
MCBatches == {Batch(u1, <<f1, u2>>), Batch(f1, <<>>), Batch(Blank, <<u2>>),
              Batch(Blank, <<>>)}
=============================================================================
