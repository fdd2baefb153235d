--------------------- MODULE MCRendezvousRegistration ---------------------
(***************************************************************************)
(* Instances of RendezvousRegistration for TLC: two servers, and one kind  *)
(* of trouble at a time.                                                   *)
(***************************************************************************)
EXTENDS RendezvousRegistration

CONSTANTS h1, h2

TwoHosts == {h1, h2}

One == [h \in TwoHosts |-> 1]

Nothing == [faults |-> 0, losses |-> 0, changes |-> 0, restarts |-> 0, syncs |-> 0,
            drops |-> 0, forces |-> 0, renames |-> 0, ids |-> 0,
            deletions |-> 0, deployments |-> 0, notices |-> 0]

Quiet == [servers |-> {h1}, taken |-> {}, room |-> [h \in TwoHosts |-> 2],
          gap |-> FALSE, todo |-> Nothing]

\* A message is lost while h1 asks for another id.
Lossy == [Quiet EXCEPT !.servers = TwoHosts, !.taken = {h1},
                       !.todo = [Nothing EXCEPT !.losses = 1]]
\* Both servers ask for another id.
Taken == [Quiet EXCEPT !.servers = TwoHosts, !.taken = TwoHosts,
                       !.room = [One EXCEPT ![h1] = 2]]
\* Sockets fail.
Faulty == [Quiet EXCEPT !.servers = TwoHosts, !.todo = [Nothing EXCEPT !.faults = 2]]
\* The user sets options; once in the gap before SHOULD_EXIT is cleared.
Changing == [Quiet EXCEPT !.todo = [Nothing EXCEPT !.changes = 2], !.room = One]
Gap == [Quiet EXCEPT !.todo = [Nothing EXCEPT !.changes = 1, !.deletions = 1],
                   !.room = One, !.gap = TRUE]
\* The device is deleted, and perhaps deployed again.
Deleted == [Quiet EXCEPT !.todo = [Nothing EXCEPT !.deletions = 1, !.deployments = 1,
                                                  !.notices = 1]]
\* The configuration is synchronised from the root's.
Syncing == [Quiet EXCEPT !.todo = [Nothing EXCEPT !.syncs = 1]]

\* The user sets another id, and a peer does not know the key.
Renaming == [Quiet EXCEPT !.todo = [Nothing EXCEPT !.renames = 1, !.forces = 1]]

OneThingWrong == {Lossy, Taken, Faulty, Changing, Gap, Deleted, Syncing, Renaming}

Synced == {Syncing}

=============================================================================
