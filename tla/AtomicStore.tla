---------------------------- MODULE AtomicStore ----------------------------
(***************************************************************************)
(* What the universe store promises: a writer replaces the contents of the *)
(* store in one step, and each reader takes the whole store in one step.   *)
(***************************************************************************)

CONSTANTS Cells,    \* where the store keeps its values
          Values,   \* what a cell holds
          Zero,     \* the value of a cell never written
          Readers   \* who reads the store

VARIABLES published,  \* the contents of the store
          result      \* what each reader took last

vars == <<published, result>>

Blank == [c \in Cells |-> Zero]

Init == /\ published = Blank
        /\ result = [r \in Readers |-> Blank]

Publish(store) == /\ published' = store
                  /\ UNCHANGED result

Take(r) == /\ result' = [result EXCEPT ![r] = published]
           /\ UNCHANGED published

Next == \/ \E store \in [Cells -> Values] : Publish(store)
        \/ \E r \in Readers : Take(r)

Spec == Init /\ [][Next]_vars
=============================================================================
