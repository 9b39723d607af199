-------------------------- MODULE MCMemoryStorage --------------------------
(* Instances of MemoryStorage for TLC. *)
EXTENDS MemoryStorage

CONSTANTS c1, c2

MCClients == {c1, c2}

(* Two clients share one typed store and the key-value store.              *)
MCCallers == [k \in Kinds |-> IF k \in {"kv", "dialog"} THEN MCClients ELSE {c1}]

(* Each store alone, and two that a client uses while Close writes them.   *)
MCUses == {{k} : k \in Kinds} \cup {{"rtp", "ami"}}
=============================================================================
