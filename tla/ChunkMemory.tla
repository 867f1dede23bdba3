----------------------------- MODULE ChunkMemory -----------------------------
(***************************************************************************)
(* What a program that has mapped /dev/pcieBase may rely on: an array of   *)
(* chunks that remember what was written to them.  A chunk is Unset until  *)
(* it is touched; it then holds an arbitrary value (the driver clears      *)
(* nothing) that stays until it is overwritten or the memory is reset.     *)
(***************************************************************************)
CONSTANTS Chunk, Value, Unset

VARIABLES
  content,  \* what each chunk holds
  last      \* the last operation: which chunk, and the value read or written

Touch(c) ==
  /\ content[c] = Unset
  /\ \E v \in Value : content' = [content EXCEPT ![c] = v]
  /\ UNCHANGED last

Write(c, v) ==
  /\ content[c] # Unset
  /\ content' = [content EXCEPT ![c] = v]
  /\ last' = [op |-> "write", chunk |-> c, value |-> v]

Read(c) ==
  /\ content[c] # Unset
  /\ last' = [op |-> "read", chunk |-> c, value |-> content[c]]
  /\ UNCHANGED content

ResetAll ==
  /\ content' = [c \in Chunk |-> Unset]
  /\ UNCHANGED last

MemInit ==
  /\ content = [c \in Chunk |-> Unset]
  /\ last = Unset

MemNext ==
  \/ \E c \in Chunk : Touch(c) \/ Read(c) \/ \E v \in Value : Write(c, v)
  \/ ResetAll

MemSpec == MemInit /\ [][MemNext]_<<content, last>>
=============================================================================
