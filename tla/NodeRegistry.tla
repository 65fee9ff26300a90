---------------------------- MODULE NodeRegistry ----------------------------
(***************************************************************************)
(* What the dashboard promises about the list of nodes, without handlers,  *)
(* requests or entries (docs/dashboard.md, "Node discovery and state"): a  *)
(* node is listed when a soundspy status of it is accepted, and from then  *)
(* on only a user who forgets it or a restart takes it off the list; a     *)
(* forgotten node is listed again by its next soundspy status.             *)
(*                                                                         *)
(* Touch is the exception the code cannot do without.  A worker, the       *)
(* message thread or a request, that took up a listed node may read or     *)
(* write its entry after a user has forgotten it, which lists it again.    *)
(* It stays among the forgotten, and a worker that begins after the forget *)
(* and before such a touch cannot do it.                                   *)
(***************************************************************************)
CONSTANTS Boards, Workers

VARIABLES known,      \* the list
          accepted,   \* boards whose soundspy status was accepted
          forgotten,  \* those a user forgot that sent none since
          held        \* boards a worker has in hand

vars == <<known, accepted, forgotten, held>>

Nothing == /\ known = {}
           /\ accepted = {}
           /\ forgotten = {}
           /\ held = [w \in Workers |-> {}]

Init == Nothing

Accept(w, b) == /\ known' = known \cup {b}
                /\ accepted' = accepted \cup {b}
                /\ forgotten' = forgotten \ {b}
                /\ held' = [held EXCEPT ![w] = {b}]

\* A worker takes up listed boards, or none, and is done with those it had.
TakeUp(w, S) == /\ S \subseteq known
                /\ held' = [held EXCEPT ![w] = S]
                /\ UNCHANGED <<known, accepted, forgotten>>

\* The last touch lets go.
Touch(w, b) == /\ b \in held[w]
               /\ known' = known \cup {b}
               /\ \E S \in {held[w], held[w] \ {b}} : held' = [held EXCEPT ![w] = S]
               /\ UNCHANGED <<accepted, forgotten>>

Forget(b) == /\ b \in known
             /\ known' = known \ {b}
             /\ forgotten' = forgotten \cup {b}
             /\ UNCHANGED <<accepted, held>>

Restart == Nothing'

Next == \/ \E w \in Workers, b \in Boards : Accept(w, b) \/ Touch(w, b)
        \/ \E w \in Workers, S \in SUBSET Boards : TakeUp(w, S)
        \/ \E b \in Boards : Forget(b)
        \/ Restart

Spec == Init /\ [][Next]_vars

=============================================================================
