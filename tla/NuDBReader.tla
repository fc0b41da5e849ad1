----------------------------- MODULE NuDBReader -----------------------------
(***************************************************************************)
(* NuDBReader: reading SHAMap trees out of one or more NuDB stores.  A     *)
(* caller makes one call: the walk of a state tree with a concurrency      *)
(* found by timing (collect_reachable_adaptive), the diffs of consecutive  *)
(* trees (diff_batch_concurrent), or the transactions of a ledger          *)
(* (collect_transactions).  Any node may turn out to be unreadable.        *)
(*                                                                         *)
(* The stores do not change during a call, so a parallel iterator is a     *)
(* choice of order: the nodes of one level are fetched in any order and    *)
(* put into the places they were asked for; so are the diffs of a batch.   *)
(***************************************************************************)
EXTENDS ValueCodec

CONSTANTS
  Calls,          \* the calls made and the nodes the stores hold for them
  SHARED_DISK_LEVELS, DEDICATED_LEVELS,  \* the ladders of concurrency levels
  SAMPLE_SIZE,    \* 2048 in the code
  ABORT_LATENCY,  \* 50 ms in the code
  Latencies       \* how long one request of a probe may take

ASSUME CallsAssumption == \A c \in Calls : c.op \in {"walk", "txns", "diff"}

\* Each ladder climbs.
ASSUME LadderAssumption ==
  /\ \A ladder \in {SHARED_DISK_LEVELS, DEDICATED_LEVELS} :
       /\ ladder \in Seq(Nat \ {0}) /\ Len(ladder) > 1
       /\ \A k, l \in DOMAIN ladder : k < l => ladder[k] < ladder[l]
  /\ SAMPLE_SIZE \in Nat \ {0} /\ ABORT_LATENCY \in Nat /\ Latencies \subseteq Nat \ {0}

VARIABLES
  call,     \* op, its roots, the shards' values by hash, which of them are on the root disk
  pc,       \* where the call is
  stack,    \* hashes to visit: a stack, or the frontier of a level
  visited,  \* the set of that name
  found,    \* the result so far
  probes,   \* the probes made, with what they measured
  conc,     \* the level calibration returned, or the caller gave
  answers   \* per pair of a batch: its lists, or Error while not there

vars == <<call, pc, stack, visited, found, probes, conc, answers>>

-----------------------------------------------------------------------------
(* Looking a node up                                                       *)

\* get_wire: each shard in turn.  A value that is no node is passed over.
get_wire(hash) ==
  LET Wire(s) == IF hash \in DOMAIN call.shards[s]
                 THEN decode_value_to_wire(call.shards[s][hash]) ELSE NoWire
      hits == {s \in DOMAIN call.shards : Wire(s) # NoWire}
  IN  IF hits = {} THEN NoWire ELSE Wire(Min(hits))

\* get_node: an error, or the node.
Readable(hash) == get_wire(hash) # NoWire
get_node(hash) == get_wire(hash)

\* The children a node is read with.
Children(hash) == child_hashes(get_node(hash))

\* The hashes not in visited yet, each once.  They are pushed in an order of the
\* model's own: it decides when a walk meets a node, not which nodes it meets.
Unvisited(hashes, seen) == SetToSeq(hashes \ seen)

-----------------------------------------------------------------------------
(* diff: what the recursion collects, and whether it met an error          *)

Nothing == [ok |-> TRUE,  added |-> <<>>, deleted |-> <<>>]
Error   == [ok |-> FALSE, added |-> <<>>, deleted |-> <<>>]

Then(x, y) == [ok      |-> x.ok /\ y.ok,
               added   |-> x.added \o y.added,
               deleted |-> x.deleted \o y.deleted]

Pushed(x, added, deleted) == Then(x, [ok |-> TRUE, added |-> added, deleted |-> deleted])

\* One result after another.
Joined(results) ==
  LET upto[k \in 0..Len(results)] ==
        IF k = 0 THEN Nothing ELSE Then(upto[k - 1], results[k])
  IN  upto[Len(results)]

\* What the slots of a tree's inner nodes hold, and its root.
WithZero(root) == NodesOf(root) \cup {ZERO_HASH}

collect_added(root) ==
  LET collect[hash \in WithZero(root)] ==
        IF hash = ZERO_HASH THEN Nothing
        ELSE IF ~Readable(hash) THEN Error
        ELSE LET children == slots(get_node(hash))
             IN  Pushed(Joined([i \in DOMAIN children |-> collect[children[i]]]),
                        <<get_node(hash)>>, <<>>)
  IN  collect[root]

\* A node that cannot be read counts as deleted already; nodes under it are
\* not looked for.
collect_deleted(root) ==
  LET collect[hash \in WithZero(root)] ==
        IF hash = ZERO_HASH THEN Nothing
        ELSE LET children == IF Readable(hash) THEN slots(get_node(hash)) ELSE <<>>
             IN  Pushed(Joined([i \in DOMAIN children |-> collect[children[i]]]), <<>>, <<hash>>)
  IN  collect[root]

\* Mutant: a leaf that gives way to an inner node is not listed as deleted.
DiffNodesKeepingLeaf(old_root, new_root) ==
  LET diff[old \in WithZero(old_root)] ==
        [new \in WithZero(new_root) |->
           IF old = new THEN Nothing
           ELSE IF new = ZERO_HASH THEN collect_deleted(old)
           ELSE IF old = ZERO_HASH THEN collect_added(new)
           ELSE IF ~(Readable(new) /\ Readable(old)) THEN Error
           ELSE IF is_inner(get_node(new)) /\ is_inner(get_node(old))
           THEN Pushed(Joined([i \in 1..Branch |->
                                 diff[slots(get_node(old))[i]][slots(get_node(new))[i]]]),
                       <<get_node(new)>>, <<old>>)
           ELSE IF is_inner(get_node(new)) THEN collect_added(new)
           ELSE Then(collect_added(new), collect_deleted(old))]
  IN  diff[old_root][new_root]

\* Equal hashes are skipped; two inner nodes are compared slot by slot;
\* anything else is replaced as a whole.
diff_nodes(old_root, new_root) ==
  LET diff[old \in WithZero(old_root)] ==
        [new \in WithZero(new_root) |->
           IF old = new THEN Nothing
           ELSE IF new = ZERO_HASH THEN collect_deleted(old)
           ELSE IF old = ZERO_HASH THEN collect_added(new)
           ELSE IF ~(Readable(new) /\ Readable(old)) THEN Error
           ELSE IF is_inner(get_node(new)) /\ is_inner(get_node(old))
           THEN Pushed(Joined([i \in 1..Branch |->
                                 diff[slots(get_node(old))[i]][slots(get_node(new))[i]]]),
                       <<get_node(new)>>, <<old>>)
           ELSE Then(collect_added(new), collect_deleted(old))]
  IN  diff[old_root][new_root]

-----------------------------------------------------------------------------
(* Starting a call                                                         *)

Root == call.roots[1]

Init ==
  /\ call \in Calls
  /\ pc = CASE call.op = "walk" -> "sample"
            [] call.op = "txns" -> IF Root = ZERO_HASH THEN "done" ELSE "txns"
            [] call.op = "diff" -> "diff"
  /\ stack = <<Root>>
  /\ visited = IF call.op = "walk" THEN {Root} ELSE {}
  /\ found = <<>> /\ probes = <<>>
  /\ conc = IF call.op = "diff" THEN call.conc ELSE 1
  /\ answers = [p \in 1..(Len(call.roots) - 1) |-> Error]

Top == Last(stack)

\* Any `?`.
Fails ==
  /\ pc' = "failed"
  /\ UNCHANGED <<call, stack, visited, found, probes, conc, answers>>

-----------------------------------------------------------------------------
(* calibrate_concurrency                                                   *)

\* Mutant: a store counts as dedicated if any of its shards is.
LevelsIfAnyDedicated ==
  IF call.onRootDisk = DOMAIN call.shards THEN SHARED_DISK_LEVELS ELSE DEDICATED_LEVELS

\* shares_device_with_os_root: one shard on the system's disk is enough.
Levels == IF call.onRootDisk # {} THEN SHARED_DISK_LEVELS ELSE DEDICATED_LEVELS

\* sample_hashes: a hash goes on the stack once.
Sample ==
  /\ pc = "sample" /\ stack # <<>> /\ Len(found) < SAMPLE_SIZE
  /\ Readable(Top)
  /\ stack' = Front(stack) \o Unvisited(Children(Top), visited)
  /\ visited' = visited \cup Children(Top)
  /\ found' = Append(found, Top)
  /\ UNCHANGED <<call, pc, probes, conc, answers>>

SampleFails ==
  /\ pc = "sample" /\ stack # <<>> /\ Len(found) < SAMPLE_SIZE
  /\ ~Readable(Top)
  /\ Fails

Sampled == pc = "sample" /\ (stack = <<>> \/ Len(found) = SAMPLE_SIZE)

\* Too few nodes for the second rung: stay serial.
TooFewToCalibrate ==
  /\ Sampled
  /\ Len(found) < Levels[2]
  /\ pc' = "chosen"
  /\ UNCHANGED <<call, stack, visited, found, probes, conc, answers>>

StartProbing ==
  /\ Sampled
  /\ Len(found) >= Levels[2]
  /\ pc' = "probe"
  /\ UNCHANGED <<call, stack, visited, found, probes, conc, answers>>

Rung == Levels[Len(probes) + 1]

CanProbe == pc = "probe" /\ Len(probes) < Len(Levels) /\ Rung <= Len(found)

\* What is measured when each request takes the given time: the probe's nodes are
\* fetched by as many workers as the level says.
Probe(latency) ==
  LET n == Min({4 * Rung, 128, Len(found)})
  IN  [level |-> Rung, n |-> n, elapsed |-> ((n + Rung - 1) \div Rung) * latency]

\* avg_latency: the time of the whole probe over its nodes, however many of them
\* were under way at once.
QueuesUp(p) == p.elapsed > ABORT_LATENCY * p.n

\* p's throughput is more than 15 % above q's.
Faster(p, q) == p.n * q.elapsed * 100 > q.n * p.elapsed * 115

\* The first rung, or 15 % more than the best so far.
Gains(p) == probes # <<>> => Faster(p, Last(probes))

\* Climb.
ProbeGains ==
  /\ CanProbe
  /\ \E latency \in Latencies : \E p \in {Probe(latency)} :
       ~QueuesUp(p) /\ Gains(p) /\ probes' = Append(probes, p)
  /\ conc' = Rung
  /\ UNCHANGED <<call, pc, stack, visited, found, answers>>

\* Not enough gained: the level before it is the one.
ProbeIsMarginal ==
  /\ CanProbe
  /\ \E latency \in Latencies : \E p \in {Probe(latency)} :
       ~QueuesUp(p) /\ ~Gains(p) /\ probes' = Append(probes, p)
  /\ pc' = "chosen"
  /\ UNCHANGED <<call, stack, visited, found, conc, answers>>

\* Requests queue up: as if the probe had not been made.
ProbeIsSlow ==
  /\ CanProbe
  /\ \E latency \in Latencies : \E p \in {Probe(latency)} :
       QueuesUp(p) /\ probes' = Append(probes, p)
  /\ pc' = "chosen"
  /\ UNCHANGED <<call, stack, visited, found, conc, answers>>

\* The top of the ladder, or a rung the sample is too small for.
LadderEnds ==
  /\ pc = "probe" /\ ~CanProbe
  /\ pc' = "chosen"
  /\ UNCHANGED <<call, stack, visited, found, probes, conc, answers>>

-----------------------------------------------------------------------------
(* collect_reachable, collect_reachable_concurrent                         *)

StartWalk ==
  /\ pc = "chosen"
  /\ pc' = IF conc <= 1 THEN "serial" ELSE "levels"
  /\ stack' = <<Root>>
  /\ visited' = IF conc <= 1 THEN {} ELSE {Root}
  /\ found' = <<>>
  /\ UNCHANGED <<call, probes, conc, answers>>

\* Serial: visited is looked up when a hash is popped.
Visit ==
  /\ pc \in {"serial", "txns"} /\ stack # <<>>
  /\ Top \in visited \/ Readable(Top)
  /\ IF Top \in visited
     THEN stack' = Front(stack) /\ UNCHANGED <<visited, found>>
     ELSE /\ visited' = visited \cup {Top}
          /\ stack' = Front(stack) \o Unvisited(Children(Top), visited')
          /\ found' = IF pc = "serial" THEN Append(found, get_node(Top))
                      ELSE IF is_inner(get_node(Top)) THEN found
                      ELSE found \o SetToSeq(parse_tx_leaf(get_node(Top)))
  /\ UNCHANGED <<call, pc, probes, conc, answers>>

VisitFails ==
  /\ pc \in {"serial", "txns"} /\ stack # <<>>
  /\ Top \notin visited /\ ~Readable(Top)
  /\ Fails

\* Concurrent: one level at a time, its nodes in the order of the frontier; a
\* hash enters the next frontier with the node it is met under first.
VisitLevel ==
  /\ pc = "levels" /\ stack # <<>>
  /\ \A k \in DOMAIN stack : Readable(stack[k])
  /\ LET next == UNION {Children(h) : h \in ToSet(stack)}
     IN  /\ stack' = Unvisited(next, visited)
         /\ visited' = visited \cup next
  /\ found' = found \o [k \in DOMAIN stack |-> get_node(stack[k])]
  /\ UNCHANGED <<call, pc, probes, conc, answers>>

LevelFails ==
  /\ pc = "levels" /\ stack # <<>>
  /\ \E k \in DOMAIN stack : ~Readable(stack[k])
  /\ Fails

\* The transactions of a ledger are returned in the order of their ids.
WalkEnds ==
  /\ pc \in {"serial", "txns", "levels"} /\ stack = <<>>
  /\ pc' = "done"
  /\ found' = IF pc = "txns" THEN SortSeq(found, LAMBDA x, y : KeyBefore(x.id, y.id)) ELSE found
  /\ UNCHANGED <<call, stack, visited, probes, conc, answers>>

-----------------------------------------------------------------------------
(* diff_batch_concurrent                                                   *)

Pending == {p \in DOMAIN answers : ~answers[p].ok}

\* The pairs whose diff may be next: in order, or any.
Ready == IF conc <= 1 \/ Len(answers) <= 1
         THEN {p \in Pending : \A q \in Pending : p <= q}
         ELSE Pending

\* diff also sorts both lists by hash; hashes have no order here.
Lists(p) == diff_nodes(call.roots[p], call.roots[p + 1])

\* Mutant: answers are kept in the order they come in.
DiffAsItComes ==
  /\ pc = "diff"
  /\ \E p \in Ready :
       /\ Lists(p).ok
       /\ answers' = [answers EXCEPT ![CHOOSE q \in Pending : \A r \in Pending : q <= r] =
                                        Lists(p)]
  /\ UNCHANGED <<call, pc, stack, visited, found, probes, conc>>

\* An answer goes where its pair is.
Diff ==
  /\ pc = "diff"
  /\ \E p \in Ready : Lists(p).ok /\ answers' = [answers EXCEPT ![p] = Lists(p)]
  /\ UNCHANGED <<call, pc, stack, visited, found, probes, conc>>

DiffFails ==
  /\ pc = "diff"
  /\ \E p \in Ready : ~Lists(p).ok
  /\ Fails

DiffsEnd ==
  /\ pc = "diff" /\ Pending = {}
  /\ pc' = "done"
  /\ UNCHANGED <<call, stack, visited, found, probes, conc, answers>>

-----------------------------------------------------------------------------

Calibrate == \/ Sample \/ SampleFails \/ TooFewToCalibrate \/ StartProbing
             \/ ProbeGains \/ ProbeIsMarginal \/ ProbeIsSlow \/ LadderEnds

Walk == StartWalk \/ Visit \/ VisitFails \/ VisitLevel \/ LevelFails \/ WalkEnds

DiffBatch == Diff \/ DiffFails \/ DiffsEnd

Next == Calibrate \/ Walk \/ DiffBatch

Spec == Init /\ [][Next]_vars

-----------------------------------------------------------------------------
(* Properties                                                              *)

NoDuplicates(seq) == Len(seq) = Cardinality(ToSet(seq))

\* A walk that returns has every node of the tree, each once and with the
\* content its hash stands for, however the stores encode it and at whatever
\* level of concurrency; it gives up only on a tree with an unreadable node
\* (collect_reachable, collect_reachable_concurrent, decode_value_to_wire).
WalkExact ==
  call.op = "walk" =>
    /\ pc = "done" => NoDuplicates(found) /\ ToSet(found) = NodesOf(Root)
    /\ pc = "failed" => \E n \in NodesOf(Root) : ~Readable(n)

\* The level calibration returns is 1 or one that was tried and did not queue up,
\* and no level tried was faster by more than the gain asked for.  A probe that
\* queued up is the last, and nothing above the shared ceiling is ever tried on
\* a store that shares the system's disk (calibrate_concurrency_with_levels).
CalibrationSafe ==
  /\ conc = 1 \/ call.op = "diff" \/ \E k \in DOMAIN probes :
       /\ probes[k].level = conc /\ ~QueuesUp(probes[k])
       /\ pc # "probe" => \A j \in DOMAIN probes : ~Faster(probes[j], probes[k])
  /\ \A k \in DOMAIN probes : QueuesUp(probes[k]) => k = Len(probes) /\ pc # "probe"
  /\ call.onRootDisk # {} =>
       \A k \in DOMAIN probes : probes[k].level <= Last(SHARED_DISK_LEVELS)

\* What a walk can rely on: its root is one of a tree, no deeper than keys are
\* long, and a store holds a node's content under its hash or no node at all.
IsSHAMap(root) ==
  /\ root # ZERO_HASH /\ IsFiniteSet(NodesOf(root))
  /\ \A n \in NodesOf(root) : child_hashes(n) \subseteq NodesOf(root)

Authentic(shard) ==
  \A h \in DOMAIN shard : decode_value_to_wire(shard[h]) \in {NoWire, h}

SoundStores(shards) ==
  /\ shards \in Seq({shards[s] : s \in DOMAIN shards})
  /\ \A s \in DOMAIN shards : Authentic(shards[s])

WalksAreSound ==
  \A c \in Calls : c.op = "walk" => IsSHAMap(c.roots[1]) /\ SoundStores(c.shards)

\* What a diff can rely on besides: its trees are ordered by keys.  A leaf under a
\* slot has the slot's number as its key's nibble at that depth, and an inner
\* node other than the root has more than one leaf.
IsKeyed(root) ==
  /\ is_inner(root) /\ LeavesOf(root) # {}
  /\ AtDepth(root)[KeyLen + 1] = {}
  /\ \A depth \in 0..KeyLen : \A node \in AtDepth(root)[depth] : is_inner(node) =>
       /\ DOMAIN slots(node) = 1..Branch
       /\ \A slot \in 1..Branch : \A l \in LeavesOf(slots(node)[slot]) : nibble(l, depth) = slot - 1
       /\ depth > 0 => \E l, m \in LeavesOf(node) : l # m

DiffsAreSound ==
  \A c \in Calls : c.op = "diff" =>
    /\ c.roots \in Seq({c.roots[p] : p \in DOMAIN c.roots}) /\ c.roots # <<>>
    /\ \A p \in DOMAIN c.roots : IsKeyed(c.roots[p])
    /\ SoundStores(c.shards)

\* What ChunkExport assumes of a diff: added and deleted are those two trees'
\* differences, up to nodes that moved and, if old nodes are gone, nodes under
\* those; nothing is listed twice, and without unreadable nodes the diff
\* succeeds (diff_nodes, collect_added, collect_deleted).
Promise(gone) == INSTANCE NodeDiff WITH OldNodesGone <- gone

Unreadable(root) == {n \in NodesOf(root) : ~Readable(n)}

DiffExact ==
  call.op = "diff" =>
    /\ pc = "done" =>
         \A p \in DOMAIN answers :
           /\ NoDuplicates(answers[p].added) /\ NoDuplicates(answers[p].deleted)
           /\ [added |-> ToSet(answers[p].added), deleted |-> ToSet(answers[p].deleted)] \in
                Promise(Unreadable(call.roots[p]) # {})!DiffLists(
                  NodesOf(call.roots[p]), NodesOf(call.roots[p + 1]))
    /\ pc = "failed" => \E p \in DOMAIN call.roots : Unreadable(call.roots[p]) # {}

\* A batch of deltas is what the importer accepts: replayed in order from the
\* first tree, each gives exactly the nodes of the next one, has that one's root
\* as its only unreferenced inner node, and refers to no missing node
\* (find_new_root, check_added_children).
Map == INSTANCE NodeMap

\* A node as the reader hands it out, its type and content as decoded.
Listed(n) ==
  [hash |-> n, type |-> IF is_inner(n) THEN "inner" ELSE "account", parses |-> TRUE,
   slots |-> [slot \in {s \in DOMAIN slots(n) : slots(n)[s] # ZERO_HASH} |-> slots(n)[slot]]]

Content(nodes) == [n \in nodes |-> Listed(n)]

ImporterAccepts ==
  call.op = "diff" /\ pc = "done" /\ (\A p \in DOMAIN call.roots : Unreadable(call.roots[p]) = {}) =>
    LET added(p) == ToSet(answers[p].added)
        list(p)  == {Listed(n) : n \in added(p)}
        state[p \in 0..Len(answers)] ==
          IF p = 0 THEN Content(NodesOf(Root))
          ELSE Map!Insert(Map!Remove(state[p - 1], ToSet(answers[p].deleted)), Content(added(p)))
    IN  \A p \in DOMAIN answers :
          /\ DOMAIN state[p] = NodesOf(call.roots[p + 1])
          /\ Cardinality(Map!NewRoots(list(p))) <= 1
          /\ Map!NewRoot(list(p), call.roots[p]) = call.roots[p + 1]
          /\ Map!ChildrenPresent(list(p), state[p])

\* The transaction tree rebuilt from a ledger's transactions is a SHAMap: each
\* leaf is found by its key's nibbles, at the first depth no other key shares
\* (build_tx_tree).  Walking it gives those transactions back, with the blobs
\* they had, in the order of their ids (collect_transactions, parse_tx_leaf).
Path(root, leaf) ==
  LET at[depth \in 0..KeyLen] ==
        IF depth = 0 THEN root
        ELSE LET hash == at[depth - 1]
             IN  IF hash # ZERO_HASH /\ is_inner(hash)
                 THEN hash[2][nibble(leaf, depth - 1) + 1]
                 ELSE ZERO_HASH
  IN  at

SharedNibbles(l, m) ==
  Cardinality({d \in 1..KeyLen : SubSeq(l[2], 1, d) = SubSeq(m[2], 1, d)})

TxTreeExact ==
  call.op = "txns" =>
    /\ LET leaves == {TxLeaf(tx) : tx \in call.txns}
           Depth(l) == 1 + Max({0} \cup {SharedNibbles(l, m) : m \in leaves \ {l}})
       IN  LeavesOf(Root) = leaves /\ \A l \in leaves : Path(Root, l)[Depth(l)] = l
    /\ pc = "done" =>
         /\ ToSet(found) = call.txns
         /\ \A j, k \in DOMAIN found : j < k => KeyBefore(found[j].id, found[k].id)
    /\ pc = "failed" => Unreadable(Root) # {}

=============================================================================
