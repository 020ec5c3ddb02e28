------------------------------ MODULE HashMap ------------------------------
(***************************************************************************)
(* util/hashmap.c and the macros of dsim/hashmap.h as circuit.c uses them:  *)
(* a hash table of chained nodes that grows through a list of primes, that  *)
(* keeps the nodes it is cleared of for the next allocation, and that is    *)
(* iterated by foreach_hashmap while a callback may add to it.             *)
(*                                                                         *)
(* max_load_factor is 1.0 and growth_factor 2.0 for ever, so next_resize    *)
(* is the number of buckets and is not a variable.  A key is a pointer or   *)
(* an integer: hash_number is the identity on unsigned long.               *)
(***************************************************************************)
EXTENDS Integers, FiniteSets, SequencesExt

CONSTANTS
  Key,             \* keys, as unsigned long
  Node,            \* memory for nodes
  NoNode,          \* a null pointer
  Primes,          \* the beginning of prime_list
  IntMax           \* the largest int: 2^31 - 1

ASSUME HashAssumption ==
  /\ Key \subseteq Nat
  /\ NoNode \notin Node
  /\ Primes \subseteq Nat \ {0}
  /\ IsFiniteSet(Node)
  /\ \E p \in Primes : p >= 2 * Cardinality(Node)
  /\ IntMax \in Nat

VARIABLES
  table,           \* hashmap_t.nodes: bucket -> its chain, head first
  element_count,   \* hashmap_t.element_count
  collected,       \* collected_root .. collected_tail
  key,             \* hashmap_node_t.key of the nodes in the table
  answer,          \* history: what the last hashmap_contains said
  iter             \* foreach_hashmap: its bucket and node; history: what it has
                   \* still to visit, what it has visited, whether it visited a
                   \* node twice and whether the table grew under it

vars == <<table, element_count, collected, key, answer, iter>>

size == Cardinality(DOMAIN table)
Nodes == UNION {ToSet(table[b]) : b \in DOMAIN table}

\* The nodes of the table, bucket by bucket and from head to tail.
InOrder == FlattenSeq([i \in 1..size |-> table[i - 1]])

Idle == [on |-> FALSE, bucket |-> 0, node |-> NoNode, due |-> {}, visited |-> {},
         twice |-> FALSE, grown |-> FALSE]

TypeOK ==
  /\ size \in Primes \cup {0} /\ table \in [0..(size - 1) -> Seq(Node)]
  /\ element_count \in Nat
  /\ collected \in Seq(Node)
  /\ key \in [Node -> Key \cup {-1}]
  /\ answer \in BOOLEAN
  /\ iter \in [on : BOOLEAN, bucket : Nat, node : Node \cup {NoNode}, due : SUBSET Node,
              visited : SUBSET Node, twice : BOOLEAN, grown : BOOLEAN]

Init ==
  /\ table = [b \in {} |-> <<>>]   \* hashmap_init with init_size 0: no bucket
  /\ element_count = 0
  /\ collected = <<>>
  /\ key = [n \in Node |-> -1]
  /\ answer = FALSE
  /\ iter = Idle

-----------------------------------------------------------------------------
(* Looking up.                                                             *)

\* The conversion of unsigned long to int, and C's % on int.
ToInt(u) ==
  LET r == u % (2 * (IntMax + 1)) IN IF r > IntMax THEN r - 2 * (IntMax + 1) ELSE r
Rem(i, n) == IF i < 0 THEN -((-i) % n) ELSE i % n

\* hashmap_insert and rehash reduce the unsigned long, hashmap_at and
\* hashmap_remove an int made of it.
Bucket(k, n) == k % n
Probed(k) == Rem(ToInt(k), size)

\* A walk along the probed chain to the first node of key k.  A negative index
\* reads outside the array: whatever is there.
Chain(k) == IF Probed(k) \in DOMAIN table THEN table[Probed(k)] ELSE <<>>
Hits(k) == {i \in DOMAIN Chain(k) : key[Chain(k)[i]] = k}
FirstHit(k) == CHOOSE i \in Hits(k) : \A j \in Hits(k) : i <= j
Walk(k) == IF Hits(k) = {} THEN NoNode ELSE Chain(k)[FirstHit(k)]

At(k) == IF element_count = 0 THEN NoNode ELSE Walk(k)

-----------------------------------------------------------------------------
(* Operations.                                                             *)

\* hashmap_alloc_node: the first collected node, or fresh memory.
Fresh == {n \in Node : n \notin Nodes \cup ToSet(collected)}
Allocated == IF collected # <<>> THEN Head(collected) ELSE CHOOSE n \in Fresh : TRUE

\* lower_bound(prime_list, least).
PrimeFrom(least) == CHOOSE p \in Primes : p >= least /\ \A q \in Primes : q >= least => p <= q

\* max(count + 1, 2 * size) buckets are wanted for n nodes and one more.
Wanted(n) == IF n + 1 > 2 * size THEN n + 1 ELSE 2 * size

\* need_rehash: the size of the table that n nodes and one more are kept in; the
\* mutated forms grow one insertion late or to a size that is no prime.
GrowLate(n) == IF size > 0 /\ n <= size THEN size ELSE PrimeFrom(Wanted(n))
GrowLeast(n) == IF n < size THEN size ELSE Wanted(n)
Grow(n) == IF n < size THEN size ELSE PrimeFrom(Wanted(n))

\* rehash: every node, in the order of the table, is put at the head
\* of its new chain; the mutated forms drop what is behind the head of a chain,
\* or leave the nodes in their old buckets.
RehashHeads(n) ==
  LET heads == {table[b][1] : b \in {c \in DOMAIN table : table[c] # <<>>}}
  IN  [b \in 0..(n - 1) |-> SetToSeq({h \in heads : Bucket(key[h], n) = b})]
RehashInPlace(n) ==
  [b \in 0..(n - 1) |-> IF b \in DOMAIN table THEN table[b] ELSE <<>>]
Rehash(n) ==
  LET moved[i \in 0..Len(InOrder)] ==
        IF i = 0 THEN [b \in 0..(n - 1) |-> <<>>]
        ELSE LET m == InOrder[i]
             IN  [moved[i - 1] EXCEPT ![Bucket(key[m], n)] = <<m>> \o @]
  IN  moved[Len(InOrder)]

\* hashmap_insert of node n with key k, after need_rehash.
Inserted(n, k) ==
  LET grown == IF Grow(element_count) = size THEN table ELSE Rehash(Grow(element_count))
      b == Bucket(k, Cardinality(DOMAIN grown))
  IN  [grown EXCEPT ![b] = <<n>> \o @]

\* circuit_add_*: hashmap_contains_voidptr, then hashmap_new_at.
NewAt(k) ==
  /\ At(k) = NoNode
  /\ collected # <<>> \/ Fresh # {}
  /\ LET n == Allocated IN
       /\ key' = [key EXCEPT ![n] = k]
       /\ table' = Inserted(n, k)
       /\ element_count' = element_count + 1
       /\ collected' = IF collected # <<>> THEN Tail(collected) ELSE collected
       /\ iter' = [iter EXCEPT !.grown = @ \/ (iter.on /\ Grow(element_count) # size)]
  /\ UNCHANGED answer

HasKey(k) ==
  /\ answer' = (At(k) # NoNode)
  /\ UNCHANGED <<table, element_count, collected, key, iter>>

\* hashmap_remove with ds_heap_free, never called inside foreach_hashmap.
RemoveKey(k) ==
  /\ ~iter.on /\ size # 0 /\ Walk(k) # NoNode
  /\ table' = [table EXCEPT ![Probed(k)] = RemoveAt(@, FirstHit(k))]
  /\ element_count' = element_count - 1
  /\ key' = [key EXCEPT ![Walk(k)] = -1]
  /\ UNCHANGED <<collected, answer, iter>>

\* hashmap_clear with no free_elem: each chain is appended to the collected list
\* and its bucket emptied; a mutated form leaves the buckets.
EmptiedNot == table
Emptied == [b \in DOMAIN table |-> <<>>]
Clear ==
  /\ ~iter.on
  /\ collected' = collected \o InOrder
  /\ table' = Emptied
  /\ element_count' = 0
  /\ key' = [n \in Node |-> IF n \in ToSet(collected') THEN -1 ELSE key[n]]
  /\ UNCHANGED <<answer, iter>>

-----------------------------------------------------------------------------
(* foreach_hashmap.                                                        *)

\* The body of the loop runs for node n of bucket b.
Visit(i, b, n) ==
  [i EXCEPT !.on = TRUE, !.bucket = b, !.node = n, !.due = @ \ {n},
            !.visited = @ \cup {n}, !.twice = @ \/ n \in i.visited]

\* The loop goes on with the first chain from bucket b on that is not empty.
MoveTo(i, b) ==
  LET later == {c \in DOMAIN table : c >= b /\ table[c] # <<>>}
      c == CHOOSE c \in later : \A d \in later : c <= d
  IN  IF later = {} THEN [i EXCEPT !.on = FALSE, !.node = NoNode, !.visited = {}]
                    ELSE Visit(i, c, table[c][1])

\* What follows node n in its chain; the mutated form forgets the last node.
AfterButLast(n) ==
  LET b == CHOOSE b \in DOMAIN table : n \in ToSet(table[b])
      i == CHOOSE i \in DOMAIN table[b] : table[b][i] = n
  IN  SubSeq(table[b], i + 1, Len(table[b]) - 1)
After(n) ==
  LET b == CHOOSE b \in DOMAIN table : n \in ToSet(table[b])
      i == CHOOSE i \in DOMAIN table[b] : table[b][i] = n
  IN  SubSeq(table[b], i + 1, Len(table[b]))

ForEach ==
  /\ ~iter.on /\ Nodes # {}
  /\ iter' = MoveTo([Idle EXCEPT !.due = Nodes], 0)
  /\ UNCHANGED <<table, element_count, collected, key, answer>>

\* The node's successor is read after the body of the loop.
NextNode ==
  /\ iter.on
  /\ iter' = IF After(iter.node) # <<>>
               THEN Visit(iter, iter.bucket, Head(After(iter.node)))
               ELSE MoveTo(iter, iter.bucket + 1)
  /\ UNCHANGED <<table, element_count, collected, key, answer>>

Next ==
  \/ \E k \in Key : NewAt(k)
  \/ \E k \in Key : HasKey(k)
  \/ \E k \in Key : RemoveKey(k)
  \/ Clear \/ ForEach \/ NextNode

Spec == Init /\ [][Next]_vars

-----------------------------------------------------------------------------

\* Every node in the table is the one its key is found at, so that no key is
\* added twice: circuit.c keeps sets.
Findable == \A n \in Nodes : At(key[n]) = n

\* No node is in two places: two chains, two places of a chain, or a chain and the
\* list of collected nodes, from where it would be handed out while in use.
OnePlace == IsInjective(InOrder \o collected)

\* The count is that of the nodes in the table, so that a table is empty to
\* hashmap_at when it is, and grows in time: never more nodes than buckets.
Loaded == element_count = Cardinality(Nodes) /\ element_count <= size

\* An iteration during which the table did not grow has met every node it began
\* with, and no node twice, whatever its callbacks added.
IterationComplete ==
  ~iter.grown => ~iter.twice /\ (~iter.on => iter.due = {})

\* The map implements a set of keys.
Keys == INSTANCE KeySet WITH members <- {key[n] : n \in Nodes}
ImplementsKeySet == Keys!Spec
=============================================================================
