---------------------------- MODULE MCConnection ----------------------------
(* Small instances of Connection for TLC.                                  *)
EXTENDS Connection, TLC

Symmetry == Permutations(Uids)

-----------------------------------------------------------------------------
(* Liveness is checked with three requests. To keep their behaviours few,  *)
(* the POSTs of one request only may reach the server, and only while the  *)
(* third request is unseen; all other POSTs are lost or refused.           *)
One == CHOOSE u \in Uids : TRUE
Third == CHOOSE u \in Uids : u # One
Posted == {r.uid : r \in net} \cup {u \in Uids : PostArrived(u)}
FewPosts ==
    \/ Posted = {}
    \/ fate[Third] = "unseen" /\ Posted \subseteq {One}

LiveSpec == Init /\ [][Next /\ FewPosts']_vars /\ Fairness
=============================================================================
