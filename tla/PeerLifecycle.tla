---------------------------- MODULE PeerLifecycle ----------------------------
(***************************************************************************)
(* Folders and peer connections across Client (daemon/Client.cpp),         *)
(* PeerServer (p2p/PeerServer.cpp) and PeerPool (p2p/PeerPool.cpp).        *)
(*                                                                         *)
(* Client::initFolder creates a PeerPool and a FolderGroup and registers   *)
(* the pool with the PeerServer; deinitFolder deletes the FolderGroup.     *)
(* The PeerServer hands every incoming connection to the pool registered   *)
(* for the folder id in its URL; the pool accepts it unless it already    *)
(* knows the peer object, its endpoint or its certificate digest.  The     *)
(* Peer's own session code is not in the source tree: a session either     *)
(* completes its handshake, fails it, or later closes.                     *)
(*                                                                         *)
(* handleDiscovered is not modelled as a step: the only connection to it   *)
(* (the DiscoveryGroup signal) is commented out, so nothing calls it.      *)
(***************************************************************************)
EXTENDS Naturals, FiniteSets

CONSTANTS
    Folder,     \* folder ids
    Node,       \* remote nodes; a node's certificate digest is the node
    Endpoint,   \* remote (address, port) pairs
    MaxPools,   \* bound on PeerPool objects created
    MaxPeers,   \* bound on Peer objects created
    Nil

PoolId == 1..MaxPools
PeerId == 1..MaxPeers

VARIABLES
    groups,     \* Client::groups_: folder ids with a live FolderGroup
    registry,   \* PeerServer::peer_pools_: folder id -> pool, or Nil
    poolOf,     \* poolOf[p]: folder of PeerPool p, or Nil if not created
    members,    \* PeerPool::peers_
    ready,      \* PeerPool::peers_ready_
    endpoints,  \* PeerPool::endpoints_
    digests,    \* PeerPool::digests_
    peer,       \* peer[i]: Peer object i, or Nil if not created
    listening   \* the PeerServer's QWebSocketServer is bound

vars == <<groups, registry, poolOf, members, ready, endpoints, digests, peer, listening>>

PeerState == {"handshaking", "ready", "closed"}
PeerRec == [node: Node, endpoint: Endpoint, pool: PoolId, state: PeerState]

\* The PeerServer constructor: no pools yet, and listen() on p2p_listen,
\* which fails (logged only) when the port is taken.
PeerServerInit ==
    /\ registry = [f \in Folder |-> Nil]
    /\ listening \in BOOLEAN

Init ==
    /\ groups = {}
    /\ PeerServerInit
    /\ poolOf = [p \in PoolId |-> Nil]
    /\ members = [p \in PoolId |-> {}]
    /\ ready = [p \in PoolId |-> {}]
    /\ endpoints = [p \in PoolId |-> {}]
    /\ digests = [p \in PoolId |-> {}]
    /\ peer = [i \in PeerId |-> Nil]

FreePool == {p \in PoolId : poolOf[p] = Nil}
FreePeer == {i \in PeerId : peer[i] = Nil}

-----------------------------------------------------------------------------
\* PeerServer::addPeerPool: Q_ASSUME(!peer_pools_.contains(folderid)),
\* then peer_pools_[folderid] = pool.  The pool's destroyed signal would
\* remove the entry.
AddPeerPool(f, p) == registry' = [registry EXCEPT ![f] = p]

\* The PeerPool constructor: pool p keeps the folder's params and starts
\* with no peers (the discovery group it would join is commented out).
NewPeerPool(p, f) == poolOf' = [poolOf EXCEPT ![p] = f]

\* Config::folderAdded -> Client::initFolder: a new PeerPool (parent: the
\* Client) and FolderGroup, then addPeerPool.
InitFolder(f) ==
    /\ f \notin groups
    /\ FreePool # {}
    /\ LET p == CHOOSE q \in FreePool : TRUE IN
          /\ NewPeerPool(p, f)
          /\ AddPeerPool(f, p)
    /\ groups' = groups \cup {f}
    /\ UNCHANGED <<members, ready, endpoints, digests, peer, listening>>

\* Config::folderRemoved -> Client::deinitFolder: the FolderGroup is
\* removed from groups_ and deleted.  The PeerPool's parent is the Client,
\* so the pool lives on and stays in peer_pools_.
DeinitFolder(f) ==
    /\ f \in groups
    /\ groups' = groups \ {f}
    /\ UNCHANGED <<registry, poolOf, members, ready, endpoints, digests, peer, listening>>

\* Mutant: PeerPool::contains without the digest test.
ContainsNoDigest(p, n, e) == e \in endpoints[p]

\* PeerPool::contains for a new Peer object from node n at endpoint e (a
\* new object is never in peers_ already).
Contains(p, n, e) == n \in digests[p] \/ e \in endpoints[p]

\* PeerPool::handleIncoming of the new Peer object i from node n at
\* endpoint e: dropped (deleteLater) if contains(peer), otherwise recorded
\* in peers_, endpoints_ and digests_.
HandleIncoming(p, i, n, e) ==
    IF Contains(p, n, e)
    THEN /\ peer' = [peer EXCEPT ![i] = [node |-> n, endpoint |-> e, pool |-> p, state |-> "closed"]]
         /\ UNCHANGED <<members, endpoints, digests>>
    ELSE /\ peer' = [peer EXCEPT ![i] = [node |-> n, endpoint |-> e, pool |-> p, state |-> "handshaking"]]
         /\ members' = [members EXCEPT ![p] = @ \cup {i}]
         /\ endpoints' = [endpoints EXCEPT ![p] = @ \cup {e}]
         /\ digests' = [digests EXCEPT ![p] = @ \cup {n}]

\* PeerServer::handleSingleConnection: a connection from node n at
\* endpoint e for folder f.  With no pool registered the socket is
\* dropped; otherwise a Peer is made and handed to the pool.  A server
\* that failed to bind accepts nothing.
Incoming(f, n, e) ==
    /\ listening
    /\ registry[f] # Nil
    /\ FreePeer # {}
    /\ HandleIncoming(registry[f], CHOOSE j \in FreePeer : TRUE, n, e)
    /\ UNCHANGED <<groups, registry, poolOf, ready, listening>>

\* Peer::handshakeSuccess -> PeerPool::handleHandshake.
HandshakeSuccess(i) ==
    /\ peer[i] # Nil /\ peer[i].state = "handshaking"
    /\ peer' = [peer EXCEPT ![i].state = "ready"]
    /\ ready' = [ready EXCEPT ![peer[i].pool] = @ \cup {i}]
    /\ UNCHANGED <<groups, registry, poolOf, members, endpoints, digests, listening>>

\* Mutant: handleDisconnected leaving the digest in digests_.
ForgetKeepDigest(p, i) ==
    /\ members' = [members EXCEPT ![p] = @ \ {i}]
    /\ ready' = [ready EXCEPT ![p] = @ \ {i}]
    /\ endpoints' = [endpoints EXCEPT ![p] = @ \ {peer[i].endpoint}]
    /\ UNCHANGED digests

\* PeerPool::handleDisconnected.
Forget(p, i) ==
    /\ members' = [members EXCEPT ![p] = @ \ {i}]
    /\ ready' = [ready EXCEPT ![p] = @ \ {i}]
    /\ endpoints' = [endpoints EXCEPT ![p] = @ \ {peer[i].endpoint}]
    /\ digests' = [digests EXCEPT ![p] = @ \ {peer[i].node}]

\* Peer::handshakeFailed, the one signal wired to handleDisconnected.
HandshakeFailed(i) ==
    /\ peer[i] # Nil /\ peer[i].state = "handshaking"
    /\ peer' = [peer EXCEPT ![i].state = "closed"]
    /\ Forget(peer[i].pool, i)
    /\ UNCHANGED <<groups, registry, poolOf, listening>>

\* An established session closes (the remote goes away).  No signal of
\* the Peer is connected to the pool for this.
Disconnect(i) ==
    /\ peer[i] # Nil /\ peer[i].state = "ready"
    /\ peer' = [peer EXCEPT ![i].state = "closed"]
    /\ UNCHANGED <<groups, registry, poolOf, members, ready, endpoints, digests, listening>>

Next ==
    \/ \E f \in Folder : InitFolder(f) \/ DeinitFolder(f)
    \/ \E f \in Folder, n \in Node, e \in Endpoint : Incoming(f, n, e)
    \/ \E i \in PeerId : HandshakeSuccess(i) \/ HandshakeFailed(i) \/ Disconnect(i)

Spec == Init /\ [][Next]_vars

-----------------------------------------------------------------------------
\* The pool's endpoint and digest sets are exactly those of the peers it
\* holds: handleIncoming adds the three together and handleDisconnected
\* removes them together, so nothing blocks a node that the pool no longer
\* holds and nothing the pool holds goes unblocked.
PoolTracksMembers ==
    \A p \in PoolId :
        /\ endpoints[p] = {peer[i].endpoint : i \in members[p]}
        /\ digests[p] = {peer[i].node : i \in members[p]}

\* No pool holds two sessions with one node, nor two from one endpoint:
\* handleIncoming refuses a peer whose digest or endpoint it already has.
OneSessionPerNode ==
    \A p \in PoolId : \A i, j \in members[p] :
        i # j => peer[i].node # peer[j].node /\ peer[i].endpoint # peer[j].endpoint

\* A connection for a folder that is not (or no longer) configured is
\* refused: the PeerServer routes only to pools of live folders.
RemovedFolderUnreachable ==
    \A f \in Folder : registry[f] # Nil => f \in groups

=============================================================================
