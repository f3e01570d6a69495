----------------------------- MODULE AuthorOnce -----------------------------
(***************************************************************************)
(* What author_lesson_pipeline promises about a job: a caller is only told *)
(* of a lesson that some call for the same job has saved, and the calls    *)
(* for an orderly job save one lesson between them.  No generation, no     *)
(* RPC, no progress row.  A call that fails, or is still at work, is one   *)
(* that has been given nothing.                                            *)
(***************************************************************************)
CONSTANTS Runs, JobOf, OrderlyJobs, Nobody

VARIABLES saved,  \* the calls that saved their bundle
          given   \* the call whose saved lesson each call returned

onceVars == <<saved, given>>

Init == /\ saved = {}
        /\ given = [r \in Runs |-> Nobody]

SavedFor(j) == {r \in saved : JobOf[r] = j}

Save(r) ==
  /\ r \notin saved
  /\ given[r] = Nobody
  /\ JobOf[r] \in OrderlyJobs => SavedFor(JobOf[r]) = {}
  /\ saved' = saved \cup {r}
  /\ UNCHANGED given

Give(r) ==
  /\ given[r] = Nobody
  /\ \E q \in SavedFor(JobOf[r]) :
       /\ r \in saved => q = r
       /\ given' = [given EXCEPT ![r] = q]
  /\ UNCHANGED saved

Next == \E r \in Runs : Save(r) \/ Give(r)

Spec == Init /\ [][Next]_onceVars
=============================================================================
