---------------------------- MODULE DataPipeline ----------------------------
(***************************************************************************)
(* The pipelines of cwm/data and cwm/text/data: a FilterMap over a Mix     *)
(* with a ChainPolicy over sources, which are the lines of a file, a list  *)
(* or a range.  Every dataset has a cursor of its own; state_dict()        *)
(* collects the cursors and load_state_dict() puts them back.              *)
(*                                                                         *)
(* A line takes some bytes, and a file that is open has an offset of its   *)
(* own.  What fn makes of a value is Filter: kept, dropped, or an error   *)
(* (a line that is no JSON, with strict).                                  *)
(***************************************************************************)
EXTENDS Integers, Sequences, SequencesExt

CONSTANTS
  Sources,   \* the datasets mixed: [kind, vals] or [kind, begin, end]
  Bytes,     \* per line, its length
  Filter,   \* per value, "keep", "drop" or "raise"
  Closed,    \* the file of OneFileLines before it is opened
  Nothing,   \* no item was asked for yet
  Ended,     \* StopIteration
  Raised     \* the error of fn

N == Len(Sources)
ASSUME SourcesAssumption ==
  \A k \in 1..N : Sources[k].kind \in {"lines", "list", "range"}

VARIABLES
  src,      \* per dataset of the Mix, its cursor
  idx,      \* ChainPolicy.idx, 0 for None
  pulling,  \* inside __next__
  saved,    \* the last state_dict()
  got       \* what the last __next__ gave

dvars == <<src, idx, pulling, saved, got>>

-----------------------------------------------------------------------------
(* The sources: their cursors, what they read next, and their states. *)

Start(k) ==
  CASE Sources[k].kind = "lines" -> [pos |-> 0, line |-> 0, file |-> Closed]
    [] Sources[k].kind = "list"  -> [idx |-> 0]
    [] Sources[k].kind = "range" -> [curr |-> Sources[k].begin]

(* the offset of the i-th line *)
Offset(k, i) ==
  FoldLeft(LAMBDA n, v : n + Bytes[v], 0, SubSeq(Sources[k].vals, 1, i))
FileEnd(k) == Offset(k, Len(Sources[k].vals))
(* a file is opened, and put at pos, when it is first read *)
ReadAt(c) == IF c.file = Closed THEN c.pos ELSE c.file
LineAt(k, off) == Sources[k].vals[CHOOSE i \in DOMAIN Sources[k].vals : Offset(k, i - 1) = off]

AtEnd(k) ==
  CASE Sources[k].kind = "lines" -> ReadAt(src[k]) = FileEnd(k)
    [] Sources[k].kind = "list"  -> src[k].idx >= Len(Sources[k].vals)
    [] Sources[k].kind = "range" -> src[k].curr >= Sources[k].end

(* an item of a file carries where it comes from *)
Line(val, line, pos) == [val |-> val, line_no |-> line, pos |-> pos]
Item(k) ==
  LET c == src[k] IN
  CASE Sources[k].kind = "lines" -> Line(LineAt(k, ReadAt(c)), c.line, c.pos)
    [] Sources[k].kind = "list"  -> [val |-> Sources[k].vals[c.idx + 1]]
    [] Sources[k].kind = "range" -> [val |-> c.curr]

Advanced(k) ==
  LET c == src[k] IN
  CASE Sources[k].kind = "lines" ->
         LET n == Bytes[LineAt(k, ReadAt(c))]
         IN [pos |-> c.pos + n, line |-> c.line + 1, file |-> ReadAt(c) + n]
    [] Sources[k].kind = "list"  -> [c EXCEPT !.idx = @ + 1]
    [] Sources[k].kind = "range" -> [c EXCEPT !.curr = @ + 1]

StateOf(k, c) ==
  IF Sources[k].kind = "lines" THEN [pos |-> c.pos, line |-> c.line] ELSE c
LoadedOpen(k, st, c) ==
  IF Sources[k].kind = "lines" THEN [pos |-> st.pos, line |-> st.line, file |-> c.file] ELSE st
Loaded(k, st, c) ==
  IF Sources[k].kind = "lines" THEN [pos |-> st.pos, line |-> st.line, file |-> Closed] ELSE st

-----------------------------------------------------------------------------
(* __next__ of the FilterMap, an action for each turn of its loop and of *)
(* that of the Mix.                                                       *)

Call == ~pulling /\ pulling' = TRUE /\ UNCHANGED <<src, idx, saved, got>>

Kept(i) == Filter[i.val] # "drop"
Result(i) == IF Filter[i.val] = "raise" THEN Raised ELSE i

Pull ==
  /\ pulling /\ idx \in 1..N /\ ~AtEnd(idx)
  /\ src' = [src EXCEPT ![idx] = Advanced(idx)]
  /\ pulling' = ~Kept(Item(idx))
  /\ got' = IF Kept(Item(idx)) THEN Result(Item(idx)) ELSE got
  /\ UNCHANGED <<idx, saved>>

(* the policy goes to the next dataset, and is asked to reset the old one *)
AfterExhaustEarly(k) == IF k + 1 >= N THEN 0 ELSE k + 1
AfterExhaust(k) == IF k + 1 > N THEN 0 ELSE k + 1
Exhaust ==
  /\ pulling /\ idx \in 1..N /\ AtEnd(idx)
  /\ idx' = AfterExhaust(idx)
  /\ src' = IF idx' # 0 THEN [src EXCEPT ![idx] = Start(idx)] ELSE src
  /\ UNCHANGED <<pulling, saved, got>>

Stop ==
  /\ pulling /\ idx \notin 1..N
  /\ idx' = 0 /\ pulling' = FALSE /\ got' = Ended
  /\ UNCHANGED <<src, saved>>

-----------------------------------------------------------------------------
(* state_dict(), load_state_dict() into the same dataset or, after a        *)
(* restart at any point, into a new one; reset()                            *)

State == [srcs |-> [k \in 1..N |-> StateOf(k, src[k])], idx |-> idx]
Fresh == [k \in 1..N |-> Start(k)]
First == 1

SaveState == ~pulling /\ saved' = State /\ UNCHANGED <<src, idx, pulling, got>>

LoadState ==
  /\ ~pulling
  /\ src' = [k \in 1..N |-> Loaded(k, saved.srcs[k], src[k])]
  /\ idx' = saved.idx
  /\ got' = Nothing
  /\ UNCHANGED <<pulling, saved>>

Restart ==
  /\ src' = [k \in 1..N |-> Loaded(k, saved.srcs[k], Start(k))]
  /\ idx' = saved.idx
  /\ pulling' = FALSE /\ got' = Nothing
  /\ UNCHANGED saved

Reset ==
  /\ ~pulling
  /\ src' = Fresh /\ idx' = First /\ got' = Nothing
  /\ UNCHANGED <<pulling, saved>>

DataInit ==
  /\ src = Fresh /\ idx = First
  /\ pulling = FALSE /\ got = Nothing
  /\ saved = [srcs |-> [k \in 1..N |-> StateOf(k, Start(k))], idx |-> First]

DataNext == Call \/ Pull \/ Exhaust \/ Stop \/ SaveState \/ LoadState \/ Restart \/ Reset
DataSpec == DataInit /\ [][DataNext]_dvars

-----------------------------------------------------------------------------
(* The items of source k that fn keeps, those before a cursor c of it, and *)
(* the number of items before a state of the pipeline.                     *)
AllItems(k) ==
  CASE Sources[k].kind = "lines" ->
         [i \in DOMAIN Sources[k].vals |-> Line(Sources[k].vals[i], i - 1, Offset(k, i - 1))]
    [] Sources[k].kind = "list"  -> [i \in DOMAIN Sources[k].vals |-> [val |-> Sources[k].vals[i]]]
    [] Sources[k].kind = "range" ->
         [i \in 1..(Sources[k].end - Sources[k].begin) |-> [val |-> Sources[k].begin + i - 1]]
Consumed(k, c) ==
  CASE Sources[k].kind = "lines" -> c.line
    [] Sources[k].kind = "list"  -> c.idx
    [] Sources[k].kind = "range" -> c.curr - Sources[k].begin
KeptOf(items) == SelectSeq(items, Kept)

ItemsFrom[k \in 1..(N + 1)] ==
  IF k > N THEN <<>> ELSE KeptOf(AllItems(k)) \o ItemsFrom[k + 1]
AllDelivered == [i \in DOMAIN ItemsFrom[1] |-> Result(ItemsFrom[1][i])]
Passed(i, cs) ==
  IF i \notin 1..N THEN Len(AllDelivered)
  ELSE Len(AllDelivered) - Len(ItemsFrom[i])
       + Len(KeptOf(SubSeq(AllItems(i), 1, Consumed(i, cs[i]))))

(***************************************************************************)
(* A pipeline is one stream of items: whatever the cursors and the open    *)
(* files were when its state was saved, and whatever they are when it is   *)
(* loaded, no item is skipped or repeated, and each line carries the line  *)
(* number and the offset it has in its file.                               *)
(***************************************************************************)
TheStream == INSTANCE Stream
              WITH Items <- AllDelivered,
                   pos <- Passed(idx, src), saved <- Passed(saved.idx, saved.srcs)
IsAStream == TheStream!Spec
=============================================================================
