----------------------------- MODULE LikeLedger -----------------------------
(***************************************************************************)
(* What the likes table promises to the callers of the API, whatever the   *)
(* cache, the single-flight locks and the validators do: a like or unlike  *)
(* request takes effect on its row at most once, in one atomic step between *)
(* its arrival and its answer, and the answer tells truthfully whether that *)
(* step changed the row (already_existed, was_liked).  A request that gives *)
(* up may or may not have taken effect.  LikeService is shown to implement  *)
(* this specification.                                                      *)
(***************************************************************************)
CONSTANTS Users, Items, Writers

VARIABLES
    rows,      \* the (user, item) pairs that are liked
    asked,     \* what each write request asks for
    phase,     \* how far each write request is
    changed    \* the requests whose step changed their row

ledgerVars == <<rows, asked, phase, changed>>

Writes == [op : {"like", "unlike"}, user : Users, item : Items]

Row(w) == <<asked[w].user, asked[w].item>>

Init ==
    /\ rows \in SUBSET (Users \X Items)
    /\ asked \in [Writers -> Writes]
    /\ phase = [w \in Writers |-> "waiting"]
    /\ changed = {}

Insert(w) ==
    /\ phase[w] = "waiting"
    /\ asked[w].op = "like"
    /\ rows' = rows \cup {Row(w)}
    /\ changed' = changed \cup {x \in {w} : Row(x) \notin rows}
    /\ phase' = [phase EXCEPT ![w] = "applied"]
    /\ UNCHANGED asked

Delete(w) ==
    /\ phase[w] = "waiting"
    /\ asked[w].op = "unlike"
    /\ rows' = rows \ {Row(w)}
    /\ changed' = changed \cup {x \in {w} : Row(x) \in rows}
    /\ phase' = [phase EXCEPT ![w] = "applied"]
    /\ UNCHANGED asked

Answer(w) ==
    /\ phase[w] = "applied"
    /\ phase' = [phase EXCEPT ![w] = "answered"]
    /\ UNCHANGED <<rows, asked, changed>>

GiveUp(w) ==
    /\ phase[w] \in {"waiting", "applied"}
    /\ phase' = [phase EXCEPT ![w] = "failed"]
    /\ UNCHANGED <<rows, asked, changed>>

Serve(w) == Insert(w) \/ Delete(w) \/ Answer(w) \/ GiveUp(w)

Next == \E w \in Writers : Serve(w)

Spec == Init /\ [][Next]_ledgerVars
=============================================================================
