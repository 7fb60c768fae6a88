--------------------------- MODULE MCFileTransfer ---------------------------
\* What the user chooses, for TLC
EXTENDS FileTransfer

\* Up: two chunks at once, a batch of two files, one of them empty.
Selected == <<{<<2>>, <<0, 1>>}, {<<0, 1>>}>>

\* Down: a batch of two files, of an empty one or of a longer one, and a second batch.
Chosen == <<{<<2, 1>>, <<0>>, <<3>>}, {<<1>>}>>
=============================================================================
