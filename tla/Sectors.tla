------------------------------- MODULE Sectors -------------------------------
(***************************************************************************)
(* What the sectors of sector.c are to the rest of fatfs: bytes that only  *)
(* a write changes, and only those it covers, with no sign of the buffers  *)
(* that SectorCache keeps.                                                 *)
(***************************************************************************)
CONSTANTS SectorIds, Offsets, Bytes, Spans

VARIABLE content  \* content[s][o]: what a reader sees at offset o of sector s

Init == content \in [SectorIds -> [Offsets -> Bytes]]

Write(s, bytes) ==
  content' = [content EXCEPT ![s] =
                [o \in Offsets |-> IF o \in DOMAIN bytes THEN bytes[o] ELSE @[o]]]

Next == \E s \in SectorIds, span \in Spans : \E bytes \in [span -> Bytes] : Write(s, bytes)

Spec == Init /\ [][Next]_content
==============================================================================
