----------------------------- MODULE HostCache -----------------------------
(***************************************************************************)
(* The host cache of cwm/fastgen/utils/cache.py: a trie of kv-cache pages  *)
(* in host memory, shared by the prompts that begin alike.                 *)
(*                                                                         *)
(* FastGen._generate calls maintain() once per iteration; _prefill calls   *)
(* prepare_lane() for every new lane, pages the ready blocks in and the    *)
(* others out, and calls tick().  A node stands for its path from the      *)
(* root, its children are ordered by their id.  The contents of a buffer   *)
(* are the path whose keys and values were written to it.                  *)
(***************************************************************************)
EXTENDS Integers, Sequences, FiniteSets, SequencesExt

CONSTANTS
  Pages,     \* the different contents of a page of tokens
  Prompts,   \* the full pages of the prompts, a set of sequences of pages
  Limit,     \* limit, in nodes
  Target,    \* int(downsize * limit)
  MaxLanes,  \* bound: lanes of a batch
  MaxClock   \* bound: batches

ASSUME CacheAssumption ==
  /\ IsFiniteSet(Prompts) /\ Prompts \subseteq Seq(Pages)
  /\ Limit \in Nat \ {0} /\ Target \in 0..Limit
  /\ MaxLanes \in Nat \ {0} /\ MaxClock \in Nat

VARIABLES
  pc,        \* "maintain", "evict", "prepare" or "prefill"
  tree,      \* nodes: [path, up, clock, buf] by node_id
  frozen,    \* nodes of the current batch, not filled yet
  clock, nextId, numNodes,
  toEvict,   \* loop counter of maintain
  freeBufs,  \* free_caches, a stack
  content,   \* per buffer ever allocated, the path it holds, <<>> at first
  batch      \* the DynCacheLanes of the current prefill

vars == <<pc, tree, frozen, clock, nextId, numNodes, toEvict, freeBufs, content, batch>>

Root == 0
Kids(n) == {m \in DOMAIN tree : tree[m].up = n}
Prefix(p, k) == SubSeq(p, 1, k)

-----------------------------------------------------------------------------
(* maintain *)

Maintain ==
  /\ pc = "maintain"
  /\ IF numNodes <= Limit
     THEN pc' = "prepare" /\ UNCHANGED <<numNodes, toEvict>>
     ELSE /\ toEvict' = numNodes - Target
          /\ numNodes' = Target
          /\ pc' = "evict"
  /\ UNCHANGED <<tree, frozen, clock, nextId, freeBufs, content, batch>>

(* the order of the heap: least recently used first, then deepest first *)
BeforeShallow(m, n) ==
  \/ tree[m].clock < tree[n].clock
  \/ /\ tree[m].clock = tree[n].clock
     /\ \/ Len(tree[m].path) < Len(tree[n].path)
        \/ Len(tree[m].path) = Len(tree[n].path) /\ m < n
Before(m, n) ==
  \/ tree[m].clock < tree[n].clock
  \/ /\ tree[m].clock = tree[n].clock
     /\ \/ Len(tree[m].path) > Len(tree[n].path)
        \/ Len(tree[m].path) = Len(tree[n].path) /\ m < n

Victim == CHOOSE n \in DOMAIN tree : \A m \in DOMAIN tree \ {n} : Before(n, m)

EvictOne ==
  /\ pc = "evict" /\ toEvict > 0
  /\ tree' = [n \in DOMAIN tree \ {Victim} |-> tree[n]]
  /\ freeBufs' = Append(freeBufs, tree[Victim].buf)
  /\ toEvict' = toEvict - 1
  /\ UNCHANGED <<pc, frozen, clock, nextId, numNodes, content, batch>>

EvictEnd ==
  /\ pc = "evict" /\ toEvict = 0
  /\ pc' = "prepare"
  /\ UNCHANGED <<tree, frozen, clock, nextId, numNodes, toEvict, freeBufs, content, batch>>

-----------------------------------------------------------------------------
(* prepare_lane *)

MatchFrozen(n, page) == {m \in Kids(n) : Last(tree[m].path) = page}
Match(n, page) == {m \in Kids(n) \ frozen : Last(tree[m].path) = page}
Oldest(S) == CHOOSE m \in S : \A n \in S : m <= n

(* the k-th page of p is looked for below the nodes t found for those before *)
Below(t) == IF t = <<>> THEN Root ELSE Last(t)
Descend(t, p, k) ==
  IF Len(t) = k - 1 /\ Match(Below(t), p[k]) # {}
  THEN Append(t, Oldest(Match(Below(t), p[k]))) ELSE t

(* the nodes found for the first pages of p, fewer when one is missing *)
Trail(p) ==
  LET found[k \in 0..Len(p)] == IF k = 0 THEN <<>> ELSE Descend(found[k - 1], p, k)
  IN found[Len(p)]

(* the buffer of the j-th new node: from the stack, else a new one *)
NewBufPeeks(j) ==
  IF j <= Len(freeBufs) THEN Last(freeBufs) ELSE Len(content) + j - Len(freeBufs)
NewBuf(j) ==
  IF j <= Len(freeBufs) THEN freeBufs[Len(freeBufs) - j + 1]
  ELSE Len(content) + j - Len(freeBufs)

(* every node found is touched, the rest of the path is inserted below it *)
TouchedForgets(n, t) == tree[n]
Touched(n, t) ==
  IF n \in {t[k] : k \in DOMAIN t} THEN [tree[n] EXCEPT !.clock = clock] ELSE tree[n]

PrepareLane(p) ==
  /\ pc = "prepare" /\ Len(batch) < MaxLanes /\ clock < MaxClock
  /\ LET t == Trail(p)
         r == Len(t)
         new == nextId..(nextId + Len(p) - r - 1)
         nnew == Len(p) - r
         node(n) == [path |-> Prefix(p, r + n - nextId + 1),
                     up |-> IF n > nextId THEN n - 1 ELSE IF r = 0 THEN Root ELSE t[r],
                     clock |-> clock,
                     buf |-> NewBuf(n - nextId + 1)]
         nbuilt == IF nnew > Len(freeBufs) THEN nnew - Len(freeBufs) ELSE 0
     IN /\ tree' = [n \in DOMAIN tree \cup new |-> IF n \in new THEN node(n) ELSE Touched(n, t)]
        /\ frozen' = frozen \cup new
        /\ nextId' = nextId + nnew
        /\ numNodes' = numNodes + nnew
        /\ freeBufs' = SubSeq(freeBufs, 1, Len(freeBufs) - nnew)
        /\ content' = content \o [j \in 1..nbuilt |-> <<>>]
        /\ batch' = Append(batch,
             [path |-> p, ready |-> r,
              bufs |-> [k \in 1..Len(p) |-> IF k <= r THEN tree[t[k]].buf ELSE NewBuf(k - r)]])
  /\ UNCHANGED <<pc, clock, toEvict>>

(* no more lanes in this iteration *)
BatchEnd ==
  /\ pc = "prepare" /\ batch # <<>>
  /\ pc' = "prefill"
  /\ UNCHANGED <<tree, frozen, clock, nextId, numNodes, toEvict, freeBufs, content, batch>>

-----------------------------------------------------------------------------
(* _prefill: the ready blocks are paged in, the others are filled by the    *)
(* pages computed and paged out (d2h_blocks), then tick() ends the batch.  *)

PagesOut ==
  UNION {{l} \X ((batch[l].ready + 1)..Len(batch[l].path)) : l \in DOMAIN batch}

Prefill ==
  /\ pc = "prefill"
  /\ content' = [b \in DOMAIN content |->
       LET out == {w \in PagesOut : batch[w[1]].bufs[w[2]] = b}
       IN IF out = {} THEN content[b]
          ELSE LET w == CHOOSE w \in out : TRUE IN Prefix(batch[w[1]].path, w[2])]
  /\ frozen' = {} /\ clock' = clock + 1
  /\ batch' = <<>> /\ pc' = "maintain"
  /\ UNCHANGED <<tree, nextId, numNodes, toEvict, freeBufs>>

(* no prompt left within the bound *)
Rest == pc = "prepare" /\ clock = MaxClock /\ UNCHANGED vars

-----------------------------------------------------------------------------
(* __post_init__ and preallocate *)
Init ==
  /\ pc = "maintain" /\ tree = [n \in {} |-> 0] /\ frozen = {}
  /\ clock = 0 /\ nextId = 1 /\ numNodes = 0 /\ toEvict = 0
  /\ freeBufs = [j \in 1..Limit |-> j]
  /\ content = [j \in 1..Limit |-> <<>>]
  /\ batch = <<>>

Next ==
  \/ Maintain \/ EvictOne \/ EvictEnd
  \/ \E p \in Prompts : PrepareLane(p)
  \/ BatchEnd \/ Prefill \/ Rest

Spec == Init /\ [][Next]_vars

-----------------------------------------------------------------------------
(* Properties *)

LiveBufs == {tree[n].buf : n \in DOMAIN tree}

(***************************************************************************)
(* A page read from the host cache holds the keys and values of exactly    *)
(* the tokens that precede it in the prompt: matching, insertion, eviction *)
(* and buffer reuse never pair a node with another node's data, nor with a *)
(* page that this batch has yet to compute.                                *)
(***************************************************************************)
PageInsCoherent ==
  pc = "prefill" =>
    \A l \in DOMAIN batch : \A k \in 1..batch[l].ready :
      content[batch[l].bufs[k]] = Prefix(batch[l].path, k)

(***************************************************************************)
(* Each buffer is free or belongs to one node, the lanes of the batch hold *)
(* live buffers, and two lanes never write the same one.                   *)
(***************************************************************************)
BuffersOwned ==
  /\ Cardinality(LiveBufs) = Cardinality(DOMAIN tree)
  /\ Cardinality(LiveBufs \cup Range(freeBufs)) = Len(content)
  /\ LiveBufs \cap Range(freeBufs) = {}
  /\ \A l \in DOMAIN batch : Range(batch[l].bufs) \subseteq LiveBufs
  /\ \A v, w \in PagesOut :
       v # w => batch[v[1]].bufs[v[2]] # batch[w[1]].bufs[w[2]]

(* The assertions of maintain(): the node it pops has no child left, and the *)
(* count kept by prepare_lane() and maintain() is the number of nodes; when  *)
(* a batch begins they are within the limit.                                 *)
EvictsLeaves ==
  /\ pc = "evict" /\ toEvict > 0 => Kids(Victim) = {}
  /\ pc = "evict" => numNodes + toEvict = Cardinality(DOMAIN tree)
  /\ pc # "evict" => numNodes = Cardinality(DOMAIN tree)
  /\ pc = "prepare" /\ batch = <<>> => Cardinality(DOMAIN tree) <= Limit
=============================================================================
