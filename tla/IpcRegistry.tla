---------------------------- MODULE IpcRegistry ----------------------------
(***************************************************************************)
(* What the identifier table promises to semaphores, message queues and    *)
(* shared memory: a set of objects that are registered and removed one at  *)
(* a time, in which no two objects answer to the same identifier or, unless*)
(* they are private, to the same key.                                      *)
(***************************************************************************)
EXTENDS Integers

CONSTANTS Keys, IPC_PRIVATE, Ids, Objs

VARIABLE registry   \* set of [id, key, obj]

Init == registry = {}

\* A new object gets an identifier and a key that no registered object has.
Register(id, key, obj) ==
    /\ \A r \in registry : r.id # id
    /\ key # IPC_PRIVATE => \A r \in registry : r.key # key
    /\ registry' = registry \cup {[id |-> id, key |-> key, obj |-> obj]}

\* A registered object is removed, and nothing else changes.
Unregister(r) == registry' = registry \ {r}

Next ==
    \/ \E id \in Ids, key \in Keys, obj \in Objs : Register(id, key, obj)
    \/ \E r \in registry : Unregister(r)

Spec == Init /\ [][Next]_registry
=============================================================================
