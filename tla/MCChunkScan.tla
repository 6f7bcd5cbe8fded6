---------------------------- MODULE MCChunkScan -----------------------------
(* Small instances of ChunkScan for TLC: chunks of 4 characters that share *)
(* 1.  Character 0 is plain, the others make up the words.                 *)
EXTENDS ChunkScan, TLC

\* A word, two in front of it that link up with what a chunk shows of it when
\* its end is cut off, and a stronger one.
MCWord == {<<1, 2>>, <<7, 8>>, <<8, 1>>, <<5>>}

\* The word lies across the first chunk's end; a text of one chunk.
MCText == {<<5, 7, 8, 1, 2, 0>>, <<0, 1, 2>>}

MCScore == [w \in Word |-> IF w = <<5>> THEN 3 ELSE IF w = <<1, 2>> THEN 2 ELSE 1]

MCPolicy == {{}, Word}

Symmetry == Permutations(Scan)
=============================================================================
