------------------------ MODULE MCLithiumHeaderNoise ------------------------
(* Headers at the edges of every check, and noise that can turn one valid  *)
(* field into another or cancel in the sums (changes by 64, 128 and 192).  *)
EXTENDS LithiumHeaderNoise

MCCommands == {0, 32}
MCLengths == {0, 255, ACK_LENGTH, NACK_LENGTH}
MCNoise == {0, 1, 10, 16, 32, 80, 128, 138, 160, 255}
=============================================================================
