---------------------------- MODULE MCSectorCache ----------------------------
(***************************************************************************)
(* Three sectors, two of them in one hash list, of two bytes that are      *)
(* written one at a time, and two buffers.  The cache is that of           *)
(* init.c:64, without delay, where the clients write with mode 0 and the   *)
(* device drops one write; or it is one of either delay, with each mode    *)
(* and a device that drops none.                                           *)
(***************************************************************************)
EXTENDS SectorCache

MCSectorIds == 0..2
MCBuffers   == {"b1", "b2"}
MCOffsets   == 0..1
MCBytes     == 0..1
MCSpans     == {{0}, {1}}

MCConfigs ==
  {[writeback_delay |-> 0, writethru_critical |-> 1, modes |-> {{}}, maxDropped |-> 1]}
    \union {[writeback_delay |-> d, writethru_critical |-> 1, maxDropped |-> 0,
             modes |-> {{}, {"BUF_IMMED"}, {"BUF_ONESHOT"}}] : d \in {0, 5}}
==============================================================================
