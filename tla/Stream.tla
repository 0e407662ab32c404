------------------------------- MODULE Stream -------------------------------
(***************************************************************************)
(* What a dataset promises (Dataset of cwm/data/dataset.py, a torch        *)
(* Stateful iterator): its items come one after the other, and a state     *)
(* saved between two items, loaded into the same or a new dataset, leads   *)
(* back to the item it was saved at.  DataPipeline implements it.          *)
(***************************************************************************)
EXTENDS Integers, Sequences

CONSTANTS Items, Nothing, Ended

VARIABLES
  pos,    \* how many items were consumed
  saved,  \* the position of the last state_dict()
  got     \* what the last call gave

svars == <<pos, saved, got>>

Init == pos = 0 /\ saved = 0 /\ got = Nothing

Deliver ==
  /\ pos < Len(Items)
  /\ pos' = pos + 1 /\ got' = Items[pos + 1]
  /\ UNCHANGED saved

End == pos = Len(Items) /\ got' = Ended /\ UNCHANGED <<pos, saved>>

Save == saved' = pos /\ UNCHANGED <<pos, got>>

Resume == pos' = saved /\ got' = Nothing /\ UNCHANGED saved
Rewind == pos' = 0 /\ got' = Nothing /\ UNCHANGED saved

Next == Deliver \/ End \/ Save \/ Resume \/ Rewind
Spec == Init /\ [][Next]_svars
=============================================================================
