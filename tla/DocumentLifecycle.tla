-------------------------- MODULE DocumentLifecycle --------------------------
(***************************************************************************)
(* What the platform promises the users of a document (pollers, the status *)
(* stream, search): an abstract specification, without queue, workers or   *)
(* retries.  A document is uploaded once, is worked on, and settles as     *)
(* COMPLETED (from then on its chunks are searchable) or FAILED; it may be *)
(* deleted at any time, for good.                                          *)
(*                                                                         *)
(* Relapses = FALSE is the promise as documented: a terminal status never  *)
(* changes again.  Relapses = TRUE is what is left of it when messages may *)
(* be delivered more than once: a settled document can be worked on again  *)
(* and settle differently, but its chunks stay searchable meanwhile, and,  *)
(* unless it is lost by whoever answers for it, it settles again.          *)
(***************************************************************************)
CONSTANTS Docs, Relapses

VARIABLES
    state,       \* of each document
    searchable   \* documents whose chunks search can return

vars == <<state, searchable>>

Settled == {"completed", "failed"}
Open    == {"pending", "processing"}
States  == {"unborn", "deleted"} \cup Open \cup Settled

Init ==
    /\ state = [d \in Docs |-> "unborn"]
    /\ searchable = {}

Become(d, s) == state' = [state EXCEPT ![d] = s]

Upload(d) == state[d] = "unborn" /\ Become(d, "pending") /\ UNCHANGED searchable

Start(d) == state[d] = "pending" /\ Become(d, "processing") /\ UNCHANGED searchable

\* The status and the chunks appear together.
Finish(d) == Become(d, "completed") /\ searchable' = searchable \cup {d}

Complete(d) == state[d] = "processing" /\ Finish(d)

Fail(d) == state[d] \in Open /\ Become(d, "failed") /\ UNCHANGED searchable

Remove(d) ==
    /\ state[d] \in Open \cup Settled
    /\ Become(d, "deleted")
    /\ searchable' = searchable \ {d}

Relapse(d) ==
    /\ Relapses
    /\ state[d] \in Settled
    /\ \/ \E s \in {"processing", "failed"} : Become(d, s) /\ UNCHANGED searchable
       \/ Finish(d)

Progress(d) == Start(d) \/ Complete(d) \/ Fail(d)

Next == \E d \in Docs : Upload(d) \/ Progress(d) \/ Remove(d) \/ Relapse(d)

Spec == Init /\ [][Next]_vars

\* Ingestion goes on by itself.
FairSpec == Spec /\ \A d \in Docs : WF_vars(Progress(d))

=============================================================================
