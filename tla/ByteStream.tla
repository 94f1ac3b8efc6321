----------------------------- MODULE ByteStream -----------------------------
(* What a buffer promises: bytes are read in the order they were written. *)
EXTENDS Integers, Sequences

CONSTANTS Bytes, MaxWrite

VARIABLES content, position, returned

Init == content = <<>> /\ position = 0

Write(bytes) ==
    /\ content' = content \o bytes
    /\ returned' = bytes
    /\ UNCHANGED position

Read(n) ==
    /\ position + n <= Len(content)
    /\ position' = position + n
    /\ returned' = SubSeq(content, position + 1, position + n)
    /\ UNCHANGED content

DropRead ==
    /\ content' = SubSeq(content, position + 1, Len(content))
    /\ position' = 0

DropUnread ==
    /\ content' = SubSeq(content, 1, position)
    /\ UNCHANGED position

Empty == content' = <<>> /\ position' = 0

Rewind == position' = 0 /\ UNCHANGED content

Keep == UNCHANGED <<content, position>>

\* calls that yield no bytes
Silent == returned' \notin UNION {[1..n -> Bytes] : n \in 1..MaxWrite}

Next ==
    \/ \E n \in 1..MaxWrite : Read(n) \/ \E bytes \in [1..n -> Bytes] : Write(bytes)
    \/ Silent /\ (DropRead \/ DropUnread \/ Empty \/ Rewind \/ Keep)
=============================================================================
