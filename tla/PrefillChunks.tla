---------------------------- MODULE PrefillChunks ----------------------------
(***************************************************************************)
(* _prefill of cwm/fastgen/generate.py with prefill() of forward.py: the   *)
(* prompts of the new lanes, without the part of each that the host cache  *)
(* has, are laid end to end and cut into calls of at most MaxPrefill       *)
(* tokens.  A cut splits a lane; what is left of it begins the next call.  *)
(*                                                                         *)
(* A token is <<lane, position>>.  Attention is what a sequence of a call  *)
(* finds in the blocks of its lane.                                        *)
(***************************************************************************)
EXTENDS Integers, Sequences, FiniteSetsExt, SequencesExt, Functions

CONSTANTS
  Batches,     \* [lanes |-> sequence of [len, ready], logprobs]; ready: pages in the host cache
  MaxPrefill,  \* max_prefill
  PageTokens,  \* tokens of a page
  Garbage      \* a position of a block that nobody has written

ASSUME PrefillAssumption ==
  /\ MaxPrefill \in Nat /\ MaxPrefill > 2 /\ PageTokens \in Nat \ {0}
  /\ \A b \in Batches :
       /\ b.lanes \in Seq([len : Nat \ {0}, ready : Nat]) /\ b.lanes # <<>>
       /\ b.logprobs \in BOOLEAN
       /\ \A i \in DOMAIN b.lanes : PageTokens * b.lanes[i].ready <= b.lanes[i].len

VARIABLES
  new,       \* the batch
  info,      \* seq_info
  start,     \* start_pos
  fst, lst,  \* fst_tok, lst_tok
  fidx,      \* fst_idx, counted from 1
  mode,      \* of the DynCache: the directions that are enabled
  kv,        \* lane -> position -> token, in the blocks on the device
  paged,     \* lane -> the pages copied out to the host
  rows,      \* logits: the token each row follows and what it attends to
  lps,       \* lane -> the tokens whose log-probabilities are returned
  pf         \* "split" or "done"

pvars == <<new, info, start, fst, lst, fidx, mode, kv, paged, rows, lps, pf>>

-----------------------------------------------------------------------------
Added == DOMAIN new.lanes
NToks(i) == new.lanes[i].len
Ready(i) == PageTokens * new.lanes[i].ready
(* the last token is processed again when all are cached *)
CachedTokens(lane) == IF PageTokens * lane.ready = lane.len THEN lane.len - 1 ELSE PageTokens * lane.ready
Total(f(_), S) == MapThenSumSet(f, S)

TokensList ==
  FoldLeft(LAMBDA acc, i :
             acc \o [k \in 1..(NToks(i) - CachedTokens(new.lanes[i])) |->
                       <<i, CachedTokens(new.lanes[i]) + k - 1>>],
           <<>>, [i \in Added |-> i])

InPages(i) == IF "in" \in mode THEN [p \in 0..(Ready(i) - 1) |-> <<i, p>>] ELSE <<>>
OutPages(i) == Ready(i)..(PageTokens * (NToks(i) \div PageTokens) - 1)
(* a block that is written keeps what is written last *)
Over(f, g) == [p \in DOMAIN f \cup DOMAIN g |-> IF p \in DOMAIN f THEN f[p] ELSE g[p]]
Held(i) == Over(InPages(i), kv[i])
At(f, p) == IF p \in DOMAIN f THEN f[p] ELSE Garbage

(* prefill(): lanes f..t take their part of toks, one after the other.  The *)
(* row of a lane follows its last token; an empty one has none of its own.  *)
TokensBefore(i, f, seqs) == Total(LAMBDA j : seqs[j][2], f..(i - 1))
Written(i, f, toks, seqs) ==
  [p \in seqs[i][1]..(seqs[i][1] + seqs[i][2] - 1) |->
     toks[TokensBefore(i, f, seqs) + p - seqs[i][1] + 1]]
Blocks(i, f, toks, seqs) == Over(Written(i, f, toks, seqs), Held(i))
Row(i, f, toks, seqs) ==
  IF seqs[i][2] = 0 THEN Garbage
  ELSE [after |-> toks[TokensBefore(i, f, seqs) + seqs[i][2]],
        sees  |-> [p \in 0..(seqs[i][1] + seqs[i][2] - 1) |-> At(Blocks(i, f, toks, seqs), p)]]
PromptLogprobs(i, f, toks, seqs) ==
  [k \in 1..(seqs[i][2] - 1) |-> toks[TokensBefore(i, f, seqs) + k + 1]]

PrefillCall(f, t, toks, seqs, last) ==
  LET in(i)  == f <= i /\ i <= t
      got    == [k \in 1..(t - f + 1) |-> Row(f + k - 1, f, toks, seqs)]
      blocks == [i \in Added |-> IF in(i) THEN Blocks(i, f, toks, seqs) ELSE Held(i)]
  IN /\ kv' = blocks
     /\ rows' = rows \o (IF last THEN got ELSE Front(got))
     /\ lps' = [i \in Added |-> IF new.logprobs /\ in(i)
                                THEN lps[i] \o PromptLogprobs(i, f, toks, seqs) ELSE lps[i]]
     /\ paged' = IF "out" \in mode'
                 THEN [i \in Added |-> [p \in OutPages(i) |-> At(blocks[i], p)]] ELSE paged

(* bisect_left: the lane that the end of the call cuts *)
More == lst < Len(TokensList)
SplitLane == Max({i \in fidx..Len(new.lanes) : start[i] < lst})
Cut == lst - start[SplitLane]

(* the split lane keeps a token for the next call, whose row is its own *)
KeepsNone(n) == n
KeepsOne(n) == IF n = info[SplitLane][2] THEN n - 1 ELSE n
(* with log-probabilities the last token is processed twice *)
Twice == IF new.logprobs THEN 1 ELSE 0

Chunk ==
  /\ pf = "split" /\ More
  /\ LET n    == KeepsOne(Cut)
         end  == lst - (Cut - n)
         done == n - Twice
     IN /\ mode' = mode \ {"out", "in"}
        /\ PrefillCall(fidx, SplitLane, SubSeq(TokensList, fst + 1, end), [info EXCEPT ![SplitLane][2] = n], FALSE)
        /\ info' = [info EXCEPT ![SplitLane] = <<@[1] + done, @[2] - done>>]
        /\ start' = [start EXCEPT ![SplitLane] = @ + done]
        /\ fidx' = SplitLane /\ fst' = end - Twice /\ lst' = end - Twice + MaxPrefill
  /\ UNCHANGED <<new, pf>>

LastChunk ==
  /\ pf = "split" /\ ~More
  /\ mode' = mode \cup {"out"}
  /\ PrefillCall(fidx, Len(new.lanes), SubSeq(TokensList, fst + 1, Len(TokensList)), info, TRUE)
  /\ pf' = "done"
  /\ UNCHANGED <<new, info, start, fst, lst, fidx>>

PrefillInit ==
  /\ new \in Batches
  /\ info = [i \in Added |-> <<CachedTokens(new.lanes[i]), NToks(i) - CachedTokens(new.lanes[i])>>]
  /\ start = [i \in Added |-> Total(LAMBDA j : info[j][2], 1..(i - 1))]
  /\ fst = 0 /\ lst = MaxPrefill /\ fidx = 1
  /\ mode = {"in", "out"}
  /\ kv = [i \in Added |-> <<>>] /\ paged = kv /\ lps = kv /\ rows = <<>> /\ pf = "split"
PrefillNext == Chunk \/ LastChunk
PrefillSpec == PrefillInit /\ [][PrefillNext]_pvars

-----------------------------------------------------------------------------
Own(i, f, S) == \A p \in S : p \in DOMAIN f /\ f[p] = <<i, p>>

(* The assertions of the split. *)
CutsLane == 0 < Cut /\ Cut <= info[SplitLane][2]

(* The blocks of a lane hold its own tokens, each at its position, and its pages go to the  *)
(* host complete; its row of logits follows its last token and attends to all of it; the    *)
(* log-probabilities asked for are those of its tokens, each once.                          *)
LanesServed ==
  /\ Len(rows) = Len(new.lanes)
  /\ \A i \in Added :
       LET all == 0..(NToks(i) - 1)
           first == CachedTokens(new.lanes[i])
       IN /\ Own(i, kv[i], all) /\ Own(i, paged[i], OutPages(i))
          /\ rows[i] = [after |-> <<i, NToks(i) - 1>>, sees |-> [p \in all |-> <<i, p>>]]
          /\ new.logprobs =>
               lps[i] = [k \in 1..(NToks(i) - 1 - first) |-> <<i, first + k>>]

(***************************************************************************)
(* Wherever the calls are cut: the assertions of the split hold, and in    *)
(* the end every lane is served with its own tokens, one row for each.     *)
(***************************************************************************)
PrefillsOwnTokens ==
  /\ pf = "split" /\ More => CutsLane
  /\ pf = "done" => LanesServed
=============================================================================
