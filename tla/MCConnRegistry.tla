--------------------------- MODULE MCConnRegistry ---------------------------
(* Three requests, two cash registers, two places to plug them in, and one *)
(* cable that is moved: two learns of one device and a request that finds  *)
(* it through the file while they run.  Workers are interchangeable, so    *)
(* their jobs are taken in one order only.                                 *)
EXTENDS ConnRegistry

CONSTANTS s1, s2, p1, p2

MCWorker == 1..3

JobRank(j) == CASE j = <<"use", s1>> -> 1 [] j = <<"learn", p1>> -> 2
                [] j = <<"learn", p2>> -> 3 [] j = <<"reset">> -> 4
                [] OTHER -> 5

MCInit ==
    /\ Init
    /\ \A w \in Worker : JobRank(job[w]) < 5
    /\ \A v, w \in Worker : v < w => JobRank(job[v]) <= JobRank(job[w])
    /\ file[s1] \in {Absent, p1} /\ file[s2] = Absent
    /\ plug[p1] \in {s1, s2} /\ plug[p2] \in {s1, Nobody}

MCSpec == MCInit /\ [][Next]_vars /\ \A w \in Worker : WF_vars(Step(w))
=============================================================================
