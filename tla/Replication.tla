---------------------------- MODULE Replication ----------------------------
(***************************************************************************)
(* What metadata replication of a folder promises, with no messages, no    *)
(* workers and no file system: one origin publishes Metas of a path with   *)
(* ever higher revisions, every other peer adopts published revisions in   *)
(* increasing order and never one the origin has not reached, and every    *)
(* peer eventually holds what the origin holds.  A revision the origin     *)
(* holds identifies its Meta: a peer adopting that revision gets that Meta.*)
(***************************************************************************)
EXTENDS Naturals

CONSTANTS
    Peer,    \* peers of the folder
    Origin,  \* the one peer that signs (ReadWrite)
    Path,    \* path_ids
    Nil

VARIABLE held  \* held[p][path]: the Meta peer p holds for path, or Nil

Rev(m) == IF m = Nil THEN 0 ELSE m.rev

Init == held = [p \in Peer |-> [path \in Path |-> Nil]]

\* The origin publishes a newer Meta of path.
Publish(path, m) ==
    /\ m # Nil
    /\ m.rev > Rev(held[Origin][path])
    /\ held' = [held EXCEPT ![Origin][path] = m]

\* Peer p adopts a Meta newer than its own and no newer than the origin's;
\* at the origin's revision it is the origin's Meta.
Adopt(p, path, m) ==
    /\ p # Origin /\ m # Nil
    /\ Rev(held[p][path]) < m.rev
    /\ m.rev <= Rev(held[Origin][path])
    /\ m.rev = Rev(held[Origin][path]) => m = held[Origin][path]
    /\ held' = [held EXCEPT ![p][path] = m]

\* A step stores one Meta at one peer and path; the Meta it stores is
\* the new value held'[p][path], which fixes the m of Publish and Adopt.
Next ==
    \E path \in Path :
        \/ Publish(path, held'[Origin][path])
        \/ \E p \in Peer : Adopt(p, path, held'[p][path])

\* A peer behind the origin eventually catches up with it.
Fairness ==
    \A p \in Peer, path \in Path : WF_held(Adopt(p, path, held[Origin][path]))

Spec == Init /\ [][Next]_held /\ Fairness

=============================================================================
