------------------------------- MODULE MCStore -------------------------------
(***************************************************************************)
(* Small workloads of Store, each with everything that may go wrong.       *)
(***************************************************************************)
EXTENDS Store, TLC

CONSTANTS t1, t2, t3, p1, p2, p3, k1, half, s1

Job(does, p, key) == [does |-> does, process |-> p, key |-> key]
Three(a, b, c) == t1 :> a @@ t2 :> b @@ t3 :> c

\* What an earlier run may have left: nothing, an entry in its time or past
\* it, one that is damaged, or the half of one.
Old(name, at, whole) == {Leftover([name |-> name, at |-> at, whole |-> whole])}
Leftovers ==
  {{}, Old(k1, 0, TRUE), Old(k1, 0 - Ttl, TRUE), Old(k1, 0, FALSE),
   Old(half, 0, FALSE)}

None == Job("nothing", p3, k1)

\* Two searches of one server, or of two.
Twins == Three(Job("search", p1, k1), Job("search", p1, k1), None)
Strangers == Three(Job("search", p1, k1), Job("image", p2, k1), None)
\* A server prunes as it starts, beside one that shows an image.
Pruning == Three(Job("prune", p1, k1), Job("image", p2, k1), None)
\* The cache is cleared from the command line under a server, and twice at once.
Clearing == Three(Job("clear", p1, k1), Job("image", p2, k1), None)
Rivals == Three(Job("clear", p1, k1), Job("clear", p2, k1), Job("search", p3, k1))
\* Three downloads under one name, of one server or two.
Saving == Three(Job("download", p1, s1), Job("download", p1, s1), Job("download", p2, s1))
Queue == Three(Job("download", p1, s1), Job("download", p1, s1), Job("download", p1, s1))

Workloads == {Twins, Strangers, Pruning, Clearing, Rivals, Saving, Queue}
Init ==
  \E jobs \in Workloads, left \in Leftovers :
    /\ StoreInit(jobs, left)
    /\ jobs \in {Saving, Queue} => left = {}
    /\ jobs = Rivals => left = Old(k1, 0, TRUE)

MCSpec == Init /\ [][Next]_vars /\ Fairness
=============================================================================
