------------------------------- MODULE MCWsPack -------------------------------
EXTENDS WsPack

(* The edges of each length encoding, and of the chunks.                   *)
EdgeLengths ==
    {0, 1, 124, 125, 126, 127, 255, 256, 257, 1023, 1024, 1025, 2047, 2048, 2049, 3000, 5120, 5121,
     65534, 65535, 65536, 65537}
===============================================================================
