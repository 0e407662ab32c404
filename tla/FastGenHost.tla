---------------------------- MODULE FastGenHost ----------------------------
(***************************************************************************)
(* FastGen with the host cache's asynchronous copies (cwm/fastgen/         *)
(* generate.py with DynCache of utils/cache.py).                           *)
(*                                                                         *)
(* _prefill queues, on a stream of its own (d2h_stream), one copy per full *)
(* page of the added lanes from its GPU block to host memory.  The copies  *)
(* finish at any time; _sync_host_cache waits for all of them.  A block    *)
(* written by _decode while its copy runs leaves a torn page in the host   *)
(* cache, which later prefills read as valid.  A copy is the pair of its   *)
(* block and the packet whose page it is.                                  *)
(*                                                                         *)
(* Every full page is copied: a page already in the host cache is not, and *)
(* that only removes copies.                                               *)
(***************************************************************************)
EXTENDS FastGen

VARIABLES
  copying,   \* device-to-host copies in flight
  ready,     \* cache_ready is not None: copies not waited for
  torn       \* copies whose block _decode wrote meanwhile, with the writer

hvars == <<vars, copying, ready, torn>>

HInit == Init /\ copying = {} /\ ready = FALSE /\ torn = {}

(* DynCache.page_out for lane l: its full pages, in blocks order *)
PagedOut(l) == {<<l.blocks[k], l.id>> : k \in 1..(LaneLen(l) \div PageLen)}

(***************************************************************************)
(* The blocks lane i writes in _decode: token number p (counted from 0)    *)
(* goes to block p \div page_len of its block table row, and the step that *)
(* extends seqlen from n to n + 1 writes token n - 1.                      *)
(***************************************************************************)
DecodeWrites(i) ==
  {dev[i].blktbl[p \div PageLen] : p \in (dev[i].seqlen - 1)..(dev'[i].seqlen - 2)}

(* _sync_host_cache *)
SyncForgets == UNCHANGED <<copying, ready>>
Sync == copying' = {} /\ ready' = FALSE

(* one copy finishes on the d2h stream *)
CopyDone(c) ==
  /\ c \in copying
  /\ copying' = copying \ {c}
  /\ UNCHANGED <<vars, ready, torn>>

HDecode ==
  /\ Decode
  /\ torn' = torn \cup {<<v[1], lane[v[2]].id>> :
                          v \in {w \in copying \X (0..Last) : w[1][1] \in DecodeWrites(w[2])}}
  /\ Sync

(* nothing to decode: _generate still syncs before _add_lanes *)
HPrepareEnd ==
  /\ PrepareEnd
  /\ IF nactive = 0 THEN Sync ELSE UNCHANGED <<copying, ready>>
  /\ UNCHANGED torn

HPrefill ==
  /\ Prefill
  /\ copying' = copying \cup UNION {PagedOut(lane[i]) : i \in nactive..(idx - 1)}
  /\ ready' = TRUE
  /\ UNCHANGED torn

HFinishKill == FinishKill /\ Sync /\ UNCHANGED torn

(* the steps that neither start copies nor wait for them *)
Other == \/ Client \/ Iterate \/ Return \/ AddLanes \/ FinishKeep \/ FinishYield
         \/ FinishEnd \/ Stopped
         \/ PrepareSkip \/ PrepareGrow \/ PrepareParkSelf \/ PreparePark \/ PrepareFull

HNext ==
  \/ \E c \in copying : CopyDone(c)
  \/ HDecode \/ HPrepareEnd \/ HPrefill \/ HFinishKill
  \/ Other /\ UNCHANGED <<copying, ready, torn>>

HSpec == HInit /\ [][HNext]_hvars

(* FairSpec with the copies *)
HFairSpec == HSpec /\ WF_vars(Generator)

-----------------------------------------------------------------------------
(***************************************************************************)
(* No block is overwritten while its copy to the host cache is running, so *)
(* every page of the host cache holds the page it was copied from.         *)
(***************************************************************************)
CopiesNotTorn == torn = {}

(***************************************************************************)
(* Through every path from one prefill to the next the copies of the last  *)
(* one have been waited for ("assert self.cache_ready is None").  Those in *)
(* flight when lanes finish are of blocks that their lane still holds; and *)
(* however lanes are parked, a lane never writes a page it has handed over *)
(* for copying itself: only the next owner of its block can.               *)
(***************************************************************************)
PrefillFindsCoherentCache ==
  /\ pc = "added" => ~ready /\ copying = {}
  /\ pc \in {"finish", "yielded"} =>
       \A c \in copying : \E i \in 0..Last : lane[i].id = c[2] /\ c[1] \in BlockSet(lane[i])
  /\ \A t \in torn : t[1][2] # t[2]
=============================================================================
