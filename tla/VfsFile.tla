------------------------------ MODULE VfsFile -------------------------------
(***************************************************************************)
(* A file as sqlite's pager uses it: bytes written at an offset are read   *)
(* back until they are overwritten or cut off; a write past the end leaves *)
(* a gap whose bytes are not specified; a write may be refused.            *)
(***************************************************************************)
EXTENDS Integers, Sequences

CONSTANTS
  Blocks,  \* what can be written in one call: non-empty sequences of bytes
  Limit    \* the largest end of a write

VARIABLES
  size,     \* the length of the file
  content,  \* content[j], j in 1..size: the bytes
  reply     \* what the last call returned: [status, bytes]

vars == <<size, content, reply>>

Status(s) == [status |-> s, bytes |-> <<>>]

Init ==
  /\ size \in 0..Limit
  /\ DOMAIN content = 1..size
  /\ reply = Status("ok")

Write(offset, block) ==
  LET last == offset + Len(block) IN
  /\ size' = IF last > size THEN last ELSE size
  /\ DOMAIN content' = 1..size'
  /\ \A j \in 1..Len(block) : content'[offset + j] = block[j]
  /\ \A j \in 1..size : j \notin (offset + 1)..last => content'[j] = content[j]
  /\ reply' = Status("ok")

Refuse ==
  /\ reply' = Status("nomem")
  /\ UNCHANGED <<size, content>>

Truncate(n) ==
  /\ size' = IF n < size THEN n ELSE size
  /\ content' = [j \in 1..size' |-> content[j]]
  /\ reply' = Status("ok")

Read(offset, len) ==
  /\ reply' = IF offset + len > size
              THEN Status("short")
              ELSE [status |-> "ok", bytes |-> [j \in 1..len |-> content[offset + j]]]
  /\ UNCHANGED <<size, content>>

Next ==
  \/ \E offset \in 0..Limit, block \in Blocks :
       offset + Len(block) <= Limit /\ Write(offset, block)
  \/ Refuse
  \/ \E n \in 0..Limit : Truncate(n)
  \/ \E offset \in 0..Limit, len \in 1..Limit : Read(offset, len)

Spec == Init /\ [][Next]_vars
=============================================================================
