------------------------------ MODULE MCPlayer ------------------------------
(***************************************************************************)
(* Small instances of Player: small packets, limits of one or two packets  *)
(* and frames, files of a few packets.                                     *)
(***************************************************************************)
EXTENDS Player

MCBytes == [s \in Streams \cup {"other"} |-> IF s = "video" THEN 2 ELSE 1]
MCMaxQueued == [s \in Streams |-> IF s = "video" THEN 2 ELSE 1]

\* More video than the frame queue and the packet queue hold together, and a
\* stream the player does not use.
LongFile == <<"video", "audio", "video", "other", "video", "audio", "video", "video", "audio">>
ShortFile == <<"video", "audio", "video", "audio">>
=============================================================================
