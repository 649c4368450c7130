------------------------------ MODULE NetSync -------------------------------
(***************************************************************************)
(* Block synchronisation and block gossip between nodes: the handlers and  *)
(* loops of libraries/net/node.cpp over the node delegate of               *)
(* libraries/app/application.cpp.                                          *)
(*                                                                         *)
(* All nodes run the same code.  Links are TCP connections: messages       *)
(* arrive in order, until the connection is lost with everything in        *)
(* flight.  A handler of the network thread is one step; the tasks it      *)
(* starts (the fetch loops, the backlog, pushing a sync block to the chain *)
(* in its own thread) are steps of their own, run when their flag is set.  *)
(* Transactions, hard-fork checks and wall-clock times are left out.       *)
(***************************************************************************)
EXTENDS Synopsis

CONSTANTS
    Nodes,
    Dials,         \* pairs <<n, p>>: n connects to p
    Start,         \* head of every node's chain when it starts
    Base,          \* highest block number of a node that it cannot undo
    Makes,         \* blocks a node may produce when they fit on its head
    MinPrefetch,   \* GRAPHENE_NET_MIN_BLOCK_IDS_TO_PREFETCH: 10000
    MaxPerPeer,    \* _maximum_blocks_per_peer_during_syncing: 200
    MaxHandled,    \* _maximum_number_of_blocks_to_handle_at_one_time: 200
    MaxBacklog,    \* _maximum_number_of_sync_blocks_to_prefetch: 2000
    MaxDrops       \* bound: connections lost

ASSUME NetAssumption ==
    /\ IsFiniteSet(Nodes)
    /\ Dials \subseteq Nodes \X Nodes
    /\ \A d \in Dials : d[1] # d[2] /\ <<d[2], d[1]>> \notin Dials
    /\ Start \in [Nodes -> Blocks \cup {Zero}]
    /\ Base \in [Nodes -> Nat] /\ \A n \in Nodes : Base[n] <= NumOf(Start[n])
    /\ Makes \in [Nodes -> SUBSET Blocks]
    /\ {MinPrefetch, MaxPerPeer, MaxHandled, MaxBacklog} \subseteq Nat \ {0}
    /\ MinPrefetch > MaxPerPeer + MaxBacklog  \* or a drained list is not asked for again
    /\ MaxDrops \in Nat

VARIABLES
    chain,  \* chain database of every node: [known, head, base]
    peer,   \* peer[n][p]: the peer_connection n keeps for p
    node,   \* the rest of node_impl
    wire,   \* wire[n][p]: messages on their way from n to p
    drops   \* connections lost so far, for the bound

vars == <<chain, peer, node, wire, drops>>

Peers(n) == {p \in Nodes : <<n, p>> \in Dials \/ <<p, n>> \in Dials}

(* state      the list of connections the peer is in; "none" for no peer   *)
(* we_need    we_need_sync_items_from_peer                                 *)
(* they_need  peer_needs_sync_items_from_us                                *)
(* to_get     ids_of_items_to_get                                          *)
(* being      ids_of_items_being_processed                                 *)
(* unfetched  number_of_unfetched_item_ids                                 *)
(* seen       last_block_delegate_has_seen                                 *)
(* asked      item_ids_requested_from_peer: no or one synopsis             *)
(* sync_req   sync_items_requested_from_peer                               *)
(* item_req   items_requested_from_peer                                    *)
(* inhibit    inhibit_fetching_sync_blocks                                 *)
(* adv_us     inventory_peer_advertised_to_us                              *)
(* adv_peer   inventory_advertised_to_peer                                 *)
NewPeer ==
    [state |-> "none", we_need |-> TRUE, they_need |-> TRUE, to_get |-> <<>>, being |-> {},
     unfetched |-> 0, seen |-> Zero, asked |-> <<>>, sync_req |-> {}, item_req |-> {},
     inhibit |-> FALSE, adv_us |-> {}, adv_peer |-> {}]

(* active     _active_sync_requests                                        *)
(* received   _new_received_sync_items and _received_sync_items            *)
(* handling   send_sync_block_to_node_delegate calls, oldest first: the    *)
(*            block and what the chain has said of it                      *)
(* accepted   _most_recent_blocks_accepted                                 *)
(* suspended  _suspend_fetching_sync_blocks                                *)
(* fetch, backlog, fetch_items: the task or loop has been triggered        *)
(* items      _items_to_fetch                                              *)
(* inventory  _new_inventory                                               *)
NewNode ==
    [active |-> {}, received |-> <<>>, handling |-> <<>>, accepted |-> {}, suspended |-> FALSE,
     fetch |-> FALSE, backlog |-> FALSE, fetch_items |-> FALSE, items |-> {}, inventory |-> {}]

Init ==
    /\ chain = [n \in Nodes |-> [known |-> Range(ChainTo(Start[n])), head |-> Start[n], base |-> Base[n]]]
    /\ peer  = [n \in Nodes |-> [p \in Peers(n) |-> NewPeer]]
    /\ node  = [n \in Nodes |-> NewNode]
    /\ wire  = [n \in Nodes |-> [p \in Peers(n) |-> <<>>]]
    /\ drops = 0

Active(n) == {p \in Peers(n) : peer[n][p].state = "active"}
busy(q)   == q.item_req # {} \/ q.sync_req # {} \/ q.asked # <<>>

-----------------------------------------------------------------------------
(* Steps of one node.  A handler works on a record of what it can change:  *)
(* the peers of the node, the node and the messages it sends.              *)

State(n) == [peer |-> peer[n], node |-> node[n], sent |-> [p \in Peers(n) |-> <<>>]]

(* The network thread of n goes from State(n) to s. *)
Becomes(n, s) ==
    /\ peer' = [peer EXCEPT ![n] = s.peer]
    /\ node' = [node EXCEPT ![n] = s.node]

Sends(n, s) ==
    wire' = [wire EXCEPT ![n] = [p \in Peers(n) |-> @[p] \o s.sent[p]]]

(* n ends a task of its own in s. *)
Runs(n, s) == Becomes(n, s) /\ Sends(n, s)

(* n ends the handler of the first message from p in s. *)
Receives(n, p, s) ==
    /\ Becomes(n, s)
    /\ wire' = [wire EXCEPT ![n] = [r \in Peers(n) |-> @[r] \o s.sent[r]],
                            ![p][n] = Tail(@)]

Send(s, p, m) == [s EXCEPT !.sent[p] = Append(@, m)]

(* disconnect_from_peer: to the closing list; the connection is closed     *)
(* later (Drop).  An exception that leaves a handler closes it as well.    *)
disconnect_from_peer(s, p) == [s EXCEPT !.peer[p].state = "closing"]

Ask(s, p, synopsis) ==
    Send([s EXCEPT !.peer[p].asked = <<synopsis>>], p, [type |-> "fetch_ids", synopsis |-> synopsis])

fetch_next_batch_of_item_ids_from_peer(n, s, p) ==
    LET q == s.peer[p]
    IN  IF NoBranch(chain'[n], q.seen) \/ ForkedTooLongAgo(chain'[n], q.seen)
        THEN disconnect_from_peer(s, p)
        ELSE Ask(s, p, create_blockchain_synopsis(chain'[n], q.seen, q.to_get))

start_synchronizing_with_peer(n, s, p) ==
    fetch_next_batch_of_item_ids_from_peer(n,
        [s EXCEPT !.peer[p] = [@ EXCEPT !.to_get = <<>>, !.unfetched = 0, !.we_need = TRUE,
                                        !.seen = Zero, !.inhibit = FALSE]], p)

trigger_fetch_sync_items_loop(s) == [s EXCEPT !.node.fetch = TRUE]

(* Reception of message m of a type from p by n. *)
Next_message(n, p, type) == wire[p][n] # <<>> /\ Head(wire[p][n]).type = type

-----------------------------------------------------------------------------
(* The chain of a node, in the chain thread. *)

(* Known blocks may be pushed again; the fork database refuses a block     *)
(* without its predecessor and one below the part that can be switched.    *)
unlinkable(c, b) == Prev[b] # Zero /\ Prev[b] \notin c.known
too_old(c, b)    == Num[b] <= NumOf(c.head) - MaxUndo

push_block(c, b) ==
    [c EXCEPT !.known = @ \cup {b}, !.head = IF Num[b] > NumOf(@) THEN b ELSE @]

(* broadcast of a block that has been accepted or produced *)
broadcast(s, b) == [s EXCEPT !.node.accepted = @ \cup {b}, !.node.inventory = @ \cup {b}]

(* The node produces a block on its head and broadcasts it. *)
ProduceBlock(n) ==
    \E b \in Makes[n] :
        /\ Prev[b] = chain[n].head
        /\ chain' = [chain EXCEPT ![n] = push_block(@, b)]
        /\ LET s == broadcast(State(n), b) IN Runs(n, s)
        /\ UNCHANGED drops

-----------------------------------------------------------------------------
(* Connections *)

Unconnected(n, p) == peer[n][p].state = "none" /\ peer[p][n].state = "none"
Closing(n, p)     == "closing" \in {peer[n][p].state, peer[p][n].state}

(* The handshake succeeded: the caller moves the peer to the active list   *)
(* and starts to synchronise, the called side waits for that.              *)
Connect(n, p) ==
    /\ <<n, p>> \in Dials
    /\ Unconnected(n, p)
    /\ UNCHANGED <<chain, drops>>
    /\ LET s == start_synchronizing_with_peer(n, [State(n) EXCEPT !.peer[p].state = "active"], p)
       IN  /\ peer' = [peer EXCEPT ![n] = s.peer, ![p] = [@ EXCEPT ![n].state = "handshaking"]]
           /\ node' = [node EXCEPT ![n] = s.node]
           /\ Sends(n, s)

(* mutant: blocks requested from the lost peer stay requested *)
on_connection_closed_KeepsRequests(n, p) ==
    [node[n] EXCEPT !.fetch = @ \/ peer[n][p].sync_req # {},
                    !.items = @ \cup {b \in peer[n][p].item_req : \E r \in Active(n) \ {p} : b \in peer[n][r].adv_us},
                    !.fetch_items = @ \/ peer[n][p].item_req # {}]

(* on_connection_closed: what was requested from the peer is requested     *)
(* from others.                                                            *)
on_connection_closed(n, p) ==
    [node[n] EXCEPT !.active = @ \ peer[n][p].sync_req,
                    !.fetch  = @ \/ peer[n][p].sync_req # {},
                    !.items  = @ \cup {b \in peer[n][p].item_req : \E r \in Active(n) \ {p} : b \in peer[n][r].adv_us},
                    !.fetch_items = @ \/ peer[n][p].item_req # {}]

(* The connection is lost, times out, or one side is closing it. *)
Drop(n, p) ==
    /\ <<n, p>> \in Dials
    /\ peer[n][p].state # "none"
    /\ drops' = IF Closing(n, p) THEN drops ELSE drops + 1
    /\ drops' <= MaxDrops
    /\ peer' = [peer EXCEPT ![n][p] = NewPeer, ![p][n] = NewPeer]
    /\ node' = [node EXCEPT ![n] = on_connection_closed(n, p), ![p] = on_connection_closed(p, n)]
    /\ wire' = [wire EXCEPT ![n][p] = <<>>, ![p][n] = <<>>]
    /\ UNCHANGED chain

-----------------------------------------------------------------------------
(* Exchange of block ids *)

(* The peer has everything: our last block is in its synopsis. *)
InSync(synopsis, ids) == ids = <<>> \/ (synopsis # <<>> /\ Len(ids) = 1 /\ ids[1] \in Range(synopsis))

(* The peer's synopsis ends with a block we do not know. *)
Restart(n, s, p, unknown) == IF unknown THEN start_synchronizing_with_peer(n, s, p) ELSE s

(* After the reply: we want nothing from a peer on a fork we cannot switch *)
(* to, and a peer that asks for the first time is active from now on.      *)
AfterReply(n, s, p, useless) ==
    CASE useless -> disconnect_from_peer(s, p)
      [] ~ useless /\ s.peer[p].state = "handshaking" ->
           start_synchronizing_with_peer(n, [s EXCEPT !.peer[p].state = "active"], p)
      [] OTHER -> s

on_fetch_blockchain_item_ids_message(n, p) ==
    /\ Next_message(n, p, "fetch_ids")
    /\ LET synopsis == Head(wire[p][n]).synopsis
           reply    == get_block_ids(chain[n], synopsis)
           insync   == InSync(synopsis, reply.ids)
           unknown  == /\ ~ peer[n][p].we_need /\ synopsis # <<>>
                       /\ ~ is_known_block(chain[n], Last(synopsis))
           useless  == reply.ids # <<>> /\ insync /\ peer[n][p].inhibit
           s0 == Restart(n, [State(n) EXCEPT !.peer[p].they_need = ~ insync], p, unknown)
           s1 == Send(s0, p, [type |-> "ids", ids |-> reply.ids, remaining |-> reply.remaining])
       IN  /\ UNCHANGED <<chain, drops>>
           /\ Receives(n, p, AfterReply(n, s1, p, useless))

(* mutant: the reply must begin at the last block we named *)
ValidReply_Last(synopsis, ids) ==
    \/ ids = <<>>
    \/ /\ \A i \in DOMAIN ids : NumOf(ids[i]) = NumOf(ids[1]) + i - 1
       /\ IF synopsis = <<>> THEN NumOf(ids[1]) = 1 ELSE ids[1] = Last(synopsis)

(* The reply must be consecutive and begin at a block we named. *)
ValidReply(synopsis, ids) ==
    \/ ids = <<>>
    \/ /\ \A i \in DOMAIN ids : NumOf(ids[i]) = NumOf(ids[1]) + i - 1
       /\ IF synopsis = <<>> THEN NumOf(ids[1]) = 1 ELSE ids[1] \in Range(synopsis)

(* Leading blocks the chain has are skipped, unless another peer's list    *)
(* begins with the first one.                                              *)
SkipKnown(n, p, ids) ==
    LET other == \E r \in Active(n) \ {p} :
                    peer[n][r].to_get # <<>> /\ Head(peer[n][r].to_get) = ids[1]
        first == SelectInSeq(ids, LAMBDA b : ~ is_known_block(chain[n], b))
        count == IF first = 0 THEN Len(ids) ELSE first - 1
    IN  IF other THEN 0 ELSE count

(* The peer's list after a reply: ids the chain has are skipped; a list    *)
(* that is there already is cut back to the first id of the reply.         *)
Merged(n, p, ids) ==
    LET q    == peer[n][p]
        skip == SkipKnown(n, p, ids)
        at   == SelectLastInSeq(q.to_get, LAMBDA b : b = ids[1])
    IN  IF ids = <<>> THEN q
        ELSE IF q.to_get = <<>>
        THEN [q EXCEPT !.to_get = SubSeq(ids, skip + 1, Len(ids)), !.seen = IF skip = 0 THEN @ ELSE ids[skip]]
        ELSE IF at = 0 THEN [q EXCEPT !.to_get = Tail(ids), !.seen = ids[1]]
        ELSE [q EXCEPT !.to_get = SubSeq(@, 1, at - 1) \o ids]

on_blockchain_item_ids_inventory_message(n, p) ==
    /\ Next_message(n, p, "ids")
    /\ LET m  == Head(wire[p][n])
           q  == peer[n][p]
           upToDate == /\ m.remaining = 0 /\ q.to_get = <<>> /\ q.unfetched = 0
                       /\ m.ids = <<>> \/ (Len(m.ids) = 1 /\ is_known_block(chain[n], m.ids[1]))
           r  == [Merged(n, p, m.ids) EXCEPT !.asked = <<>>, !.unfetched = m.remaining]
           s1 == [State(n) EXCEPT !.peer[p] = r]
           s  == CASE q.asked = <<>> -> State(n)
                   [] q.asked # <<>> /\ ~ ValidReply(q.asked[1], m.ids) -> disconnect_from_peer(State(n), p)
                   [] q.asked # <<>> /\ ValidReply(q.asked[1], m.ids) /\ upToDate ->
                        [State(n) EXCEPT !.peer[p].asked = <<>>, !.peer[p].we_need = FALSE]
                   [] OTHER ->
                        IF IF m.remaining # 0 THEN Len(r.to_get) > MinPrefetch ELSE r.to_get # <<>>
                        THEN trigger_fetch_sync_items_loop(s1)
                        ELSE fetch_next_batch_of_item_ids_from_peer(n, s1, p)
       IN  /\ UNCHANGED <<chain, drops>>
           /\ Receives(n, p, s)

-----------------------------------------------------------------------------
(* Fetching blocks while synchronising *)

(* The blocks to request from p when those in taken are requested from     *)
(* other peers in the same iteration: the first of its list that nobody    *)
(* has been asked for, as many as one peer may be asked for.               *)
Wanted(n, p, taken) ==
    LET q == peer[n][p]
        add(ids, b) ==
            IF Len(ids) = MaxPerPeer \/ b \in taken \cup node[n].active \cup Range(node[n].received) \cup Range(ids)
            THEN ids ELSE Append(ids, b)
    IN  IF q.we_need /\ ~ busy(q) /\ ~ q.inhibit THEN FoldLeft(add, <<>>, q.to_get) ELSE <<>>

request_sync_items_from_peer(s, p, ids) ==
    IF ids = <<>> THEN s
    ELSE Send([s EXCEPT !.node.active = @ \cup Range(ids), !.peer[p].sync_req = @ \cup Range(ids)],
              p, [type |-> "fetch_items", ids |-> ids])

(* An iteration visits the active peers in the order of a hash table. *)
fetch_sync_items_loop(n) ==
    /\ node[n].fetch
    /\ \E order \in SetToSeqs(Active(n)) :
          LET visit(s, p) ==
                  request_sync_items_from_peer(s, p, Wanted(n, p, s.node.active \ node[n].active))
              s0 == [State(n) EXCEPT !.node.fetch = FALSE]
              s  == IF node[n].suspended THEN s0 ELSE FoldLeft(visit, s0, order)
          IN  Runs(n, s)
    /\ UNCHANGED <<chain, drops>>

(* Every requested block is sent; the last one becomes the last block      *)
(* exchanged with the peer.  A missing block is an exception.              *)
on_fetch_items_message(n, p) ==
    /\ Next_message(n, p, "fetch_items")
    /\ LET ids == Head(wire[p][n]).ids
           s   == [State(n) EXCEPT !.peer[p].seen = Last(ids),
                                   !.sent[p] = [i \in DOMAIN ids |-> [type |-> "block", id |-> ids[i]]]]
       IN  Receives(n, p, IF \A i \in DOMAIN ids : is_known_block(chain[n], ids[i])
                          THEN s ELSE disconnect_from_peer(State(n), p))
    /\ UNCHANGED <<chain, drops>>

(* process_block_during_normal_operation, with chain'[n] the chain after   *)
(* the block has been handed to it.                                        *)
process_block_during_normal_operation(n, s, p, b) ==
    LET done == broadcast([s EXCEPT !.peer =
                     [r \in Peers(n) |-> IF r \in Active(n) /\ b \in @[r].adv_us THEN [@[r] EXCEPT !.seen = b] ELSE @[r]]], b)
        offered == {r \in Active(n) : s.peer[r].to_get # <<>> /\ Head(s.peer[r].to_get) = b}
    IN  IF b \notin node[n].accepted /\ unlinkable(chain[n], b)
        THEN start_synchronizing_with_peer(n, s, p)
        ELSE IF b \notin node[n].accepted /\ too_old(chain[n], b)
        THEN [s EXCEPT !.peer = [r \in Peers(n) |-> IF r \in offered \cup {p} THEN [@[r] EXCEPT !.state = "closing"] ELSE @[r]]]
        ELSE done

Refused(c, b) == unlinkable(c, b) \/ too_old(c, b)

(* trigger_fetch_items_loop for an idle peer *)
FetchMore(s, p) == [s EXCEPT !.node.fetch_items = @ \/ ~ busy(s.peer[p])]

process_block_message(n, p) ==
    /\ Next_message(n, p, "block")
    /\ LET b == Head(wire[p][n]).id
           q == peer[n][p]
           normal == b \in q.item_req
           sync   == ~ normal /\ b \in q.sync_req
           s1 == process_block_during_normal_operation(n, [State(n) EXCEPT !.peer[p].item_req = @ \ {b}], p, b)
           (* process_block_during_sync *)
           t1 == [State(n) EXCEPT !.peer[p].sync_req = @ \ {b}, !.node.active = @ \ {b},
                                  !.node.received = <<b>> \o @, !.node.backlog = TRUE]
           t2 == CASE busy(t1.peer[p]) -> t1
                   [] ~ busy(t1.peer[p]) /\ q.unfetched > 0 /\ Len(q.to_get) < MinPrefetch ->
                        fetch_next_batch_of_item_ids_from_peer(n, t1, p)
                   [] OTHER -> trigger_fetch_sync_items_loop(t1)
           s  == CASE normal -> FetchMore(s1, p) [] sync -> t2 [] OTHER -> disconnect_from_peer(State(n), p)
       IN  /\ chain' = IF normal /\ b \notin node[n].accepted /\ ~ Refused(chain[n], b)
                       THEN [chain EXCEPT ![n] = push_block(@, b)] ELSE chain
           /\ UNCHANGED drops
           /\ Receives(n, p, s)

-----------------------------------------------------------------------------
(* Received sync blocks go to the chain in the order of the peers' lists.  *)

(* Position of the first received block that begins some peer's list. *)
Ready(n, s) ==
    SelectInSeq(s.node.received,
        LAMBDA b : \E r \in Active(n) : s.peer[r].to_get # <<>> /\ Head(s.peer[r].to_get) = b)

(* The block leaves the lists it begins; it is handed to the chain unless  *)
(* it has been accepted already.                                           *)
TakeReady(n, s, i) ==
    LET b == s.node.received[i]
        pop(r) == [r EXCEPT !.to_get = Tail(@), !.being = @ \cup {b}]
        q == [s EXCEPT !.peer = [r \in Peers(n) |->
                 IF r \in Active(n) /\ @[r].to_get # <<>> /\ Head(@[r].to_get) = b THEN pop(@[r]) ELSE @[r]]]
    IN  IF b \in s.node.accepted THEN q
        ELSE [q EXCEPT !.node.received = RemoveAt(@, i),
                       !.node.handling = Append(@, [id |-> b, result |-> "none"])]

Full(s) == Len(s.node.handling) >= MaxHandled

(* The loop of process_backlog_of_sync_blocks.  It ends when no block is   *)
(* ready, at a block that has been accepted already, and when enough are   *)
(* being handled.                                                          *)
Backlog(n, s0) ==
    LET loop[k \in Nat] ==
            IF k = 0 THEN [s |-> s0, go |-> TRUE]
            ELSE LET s == loop[k - 1].s
                     t == TakeReady(n, s, Ready(n, s))
                 IN  IF ~ loop[k - 1].go \/ Ready(n, s) = 0 THEN [s |-> s, go |-> FALSE]
                     ELSE [s |-> t, go |-> Len(t.node.handling) > Len(s.node.handling) /\ ~ Full(t)]
    IN  loop[Len(s0.node.received)].s

(* Fetching goes on unless enough blocks are received and being handled. *)
Resume(s) ==
    LET full == Full(s) /\ Len(s.node.received) >= MaxBacklog
    IN  [s EXCEPT !.node.suspended = full, !.node.fetch = @ \/ ~ full]

process_backlog_of_sync_blocks(n) ==
    /\ node[n].backlog
    /\ LET s0 == [State(n) EXCEPT !.node.backlog = FALSE]
       IN  Runs(n, IF Full(s0) THEN s0 ELSE Resume(Backlog(n, s0)))
    /\ UNCHANGED <<chain, drops>>

(* The chain thread pushes the oldest block handed to it. *)
PushSyncBlock(n) ==
    \E i \in DOMAIN node[n].handling :
        /\ node[n].handling[i].result = "none"
        /\ \A j \in 1 .. i - 1 : node[n].handling[j].result # "none"
        /\ LET b  == node[n].handling[i].id
               ok == ~ Refused(chain[n], b)
           IN  /\ chain' = IF ok THEN [chain EXCEPT ![n] = push_block(@, b)] ELSE chain
               /\ node'  = [node EXCEPT ![n].handling[i].result = IF ok THEN "accepted" ELSE "rejected"]
    /\ UNCHANGED <<peer, wire, drops>>

(* What the acceptance of sync block b means for peer p. *)
AfterAccepted(n, s, p, b) ==
    LET q == s.peer[p]
        r == [q EXCEPT !.seen = b, !.being = @ \ {b}]
        t == [s EXCEPT !.peer[p] = r]
    IN  IF q.to_get = <<>> /\ q.being = {}
        THEN IF q.they_need \/ q.we_need THEN s ELSE start_synchronizing_with_peer(n, s, p)
        ELSE IF b \notin q.being THEN s
        ELSE IF r.to_get = <<>> /\ r.unfetched = 0 /\ r.being = {}
        THEN fetch_next_batch_of_item_ids_from_peer(n, t, p)
        ELSE t

Handled(n) == node[n].handling # <<>> /\ Head(node[n].handling).result # "none"

(* The rest of send_sync_block_to_node_delegate, back in the network       *)
(* thread.  A rejected block disconnects the peers that offered it.        *)
SyncBlockHandled(n) ==
    /\ Handled(n)
    /\ LET b  == Head(node[n].handling).id
           ok == Head(node[n].handling).result = "accepted"
           s0 == [State(n) EXCEPT !.node.handling = Tail(@), !.node.backlog = TRUE,
                                  !.node.accepted = IF ok THEN @ \cup {b} ELSE @]
           visit(s, p) == CASE ok -> AfterAccepted(n, s, p, b)
                            [] ~ ok /\ b \in s.peer[p].being -> disconnect_from_peer(s, p)
                            [] OTHER -> s
           s  == FoldLeft(visit, s0, SetToSeq(Active(n)))
       IN  /\ UNCHANGED <<chain, drops>>
           /\ Runs(n, s)

-----------------------------------------------------------------------------
(* Gossip of new blocks *)

(* Peers that are in sync with us hear of blocks neither side has told the *)
(* other about.                                                            *)
advertise_inventory_loop(n) ==
    /\ node[n].inventory # {}
    /\ LET news(p) == IF p \in Active(n) /\ ~ peer[n][p].they_need
                      THEN node[n].inventory \ (peer[n][p].adv_us \cup peer[n][p].adv_peer) ELSE {}
           s == [peer |-> [p \in Peers(n) |-> [peer[n][p] EXCEPT !.adv_peer = @ \cup news(p)]],
                 node |-> [node[n] EXCEPT !.inventory = {}],
                 sent |-> [p \in Peers(n) |-> IF news(p) = {} THEN <<>> ELSE <<[type |-> "inventory", ids |-> news(p)]>>]]
       IN  Runs(n, s)
    /\ UNCHANGED <<chain, drops>>

on_item_ids_inventory_message(n, p) ==
    /\ Next_message(n, p, "inventory")
    /\ LET ids == {b \in Head(wire[p][n]).ids : \A r \in Active(n) : b \notin peer[n][r].adv_peer}
           new == {b \in ids : \A r \in Active(n) : b \notin peer[n][r].item_req}
           s   == [State(n) EXCEPT !.peer[p].adv_us = @ \cup ids, !.node.items = @ \cup new,
                                   !.node.fetch_items = @ \/ new \ node[n].items # {}]
       IN  Receives(n, p, s)
    /\ UNCHANGED <<chain, drops>>

(* Every wanted block is requested from one idle peer that offered it. *)
fetch_items_loop(n) ==
    /\ node[n].fetch_items
    /\ LET idle   == {p \in Active(n) : ~ busy(peer[n][p])}
           can(b) == {p \in idle : b \in peer[n][p].adv_us}
           now    == {b \in node[n].items : can(b) # {}}
       IN  \E from \in {f \in [now -> idle] : \A b \in now : f[b] \in can(b)} :
             LET of(p) == {b \in now : from[b] = p}
                 s == [peer |-> [p \in Peers(n) |-> [peer[n][p] EXCEPT !.item_req = @ \cup of(p)]],
                       node |-> [node[n] EXCEPT !.items = @ \ now, !.fetch_items = FALSE],
                       sent |-> [p \in Peers(n) |-> IF of(p) = {} THEN <<>>
                                     ELSE <<[type |-> "fetch_items", ids |-> SetToSeq(of(p))]>>]]
             IN  Runs(n, s)
    /\ UNCHANGED <<chain, drops>>

-----------------------------------------------------------------------------
Message(n, p) ==
    \/ on_fetch_blockchain_item_ids_message(n, p)
    \/ on_blockchain_item_ids_inventory_message(n, p)
    \/ on_fetch_items_message(n, p)
    \/ process_block_message(n, p)
    \/ on_item_ids_inventory_message(n, p)

Task(n) ==
    \/ fetch_sync_items_loop(n)
    \/ process_backlog_of_sync_blocks(n)
    \/ PushSyncBlock(n)
    \/ SyncBlockHandled(n)
    \/ advertise_inventory_loop(n)
    \/ fetch_items_loop(n)

Next ==
    \/ \E n \in Nodes : Task(n) \/ ProduceBlock(n)
    \/ \E n \in Nodes : \E p \in Peers(n) : Message(n, p) \/ Connect(n, p) \/ Drop(n, p)

(* Messages are delivered, triggered tasks run, nodes connect again, and a *)
(* connection one side is closing is closed.  Weak fairness throughout; it *)
(* is written out where ENABLED would be costly to evaluate.               *)
Fairness ==
    /\ \A n \in Nodes :
          /\ WF_vars(fetch_sync_items_loop(n))
          /\ WF_vars(PushSyncBlock(n))
          /\ WF_vars(advertise_inventory_loop(n))
          /\ WF_vars(fetch_items_loop(n))
          /\ (<>[] node[n].backlog => []<> <<process_backlog_of_sync_blocks(n)>>_vars)
          /\ (<>[] Handled(n) => []<> <<SyncBlockHandled(n)>>_vars)
    /\ \A n \in Nodes : \A p \in Peers(n) : (<>[] (wire[p][n] # <<>>) => []<> <<Message(n, p)>>_vars)
    /\ \A d \in Dials :
          /\ (<>[] Unconnected(d[1], d[2]) => []<> <<Connect(d[1], d[2])>>_vars)
          /\ (<>[] Closing(d[1], d[2]) => []<> <<Drop(d[1], d[2])>>_vars)

Spec == Init /\ [][Next]_vars /\ Fairness

-----------------------------------------------------------------------------
(* _active_sync_requests names exactly the blocks requested from peers that *)
(* are still connected: a block a lost peer was asked for can be requested *)
(* from another one.                                                       *)
RequestsAreReal ==
    \A n \in Nodes : node[n].active = UNION {peer[n][p].sync_req : p \in Peers(n)}

(* Nodes that follow the protocol, on whatever forks they start, never     *)
(* disconnect each other: no reply is taken for an invalid one, no sync    *)
(* block is rejected, no synopsis fails, nobody sends what was not asked.  *)
HonestPeersKept ==
    \A n \in Nodes : \A p \in Peers(n) : peer[n][p].state # "closing"

(* No synopsis is built from memory outside of the fork history: its block *)
(* numbers stay in the range of the chain it describes.                    *)
NoGarbage ==
    \A n \in Nodes : \A p \in Peers(n) : \A i \in DOMAIN wire[n][p] :
        wire[n][p][i].type = "fetch_ids" => Garbage \notin Range(wire[n][p][i].synopsis)

(* ids_of_items_being_processed: the blocks a peer offered that the chain  *)
(* has been given and has not finished processing (peer_connection.hpp).   *)
BeingProcessed ==
    \A n \in Nodes : \A p \in Peers(n) :
        peer[n][p].being \subseteq {node[n].handling[i].id : i \in DOMAIN node[n].handling}

Highest == Max({NumOf(chain[n].head) : n \in Nodes})

(* While no connection is lost the nodes come to chains of the same        *)
(* length, blocks produced during the exchange included.                   *)
Converges == <>[] (drops > 0 \/ \A n \in Nodes : NumOf(chain[n].head) = Highest)
=============================================================================
