-------------------------------- MODULE Fifo --------------------------------
(***************************************************************************)
(* A bounded first-in first-out channel: what the queues of the repository *)
(* promise to the code that calls them.  A value is put at the end, and a  *)
(* get hands out the value that has been in the channel longest.  Which    *)
(* puts and gets are refused is left open (a refused call changes nothing).*)
(***************************************************************************)
EXTENDS Naturals, Sequences

CONSTANTS Capacity,  \* the most values the channel holds at a time
          Values,    \* what is sent through it
          NoValue    \* what the receiver holds before its first get

VARIABLES contents,  \* the values in the channel, oldest first
          received   \* the value the last get handed out

vars == <<contents, received>>

Init == /\ contents = <<>>
        /\ received = NoValue

Put(v) == /\ Len(contents) < Capacity
          /\ contents' = Append(contents, v)
          /\ UNCHANGED received

Get == /\ contents # <<>>
       /\ received' = Head(contents)
       /\ contents' = Tail(contents)

Next == \/ \E v \in Values : Put(v)
        \/ Get

Spec == Init /\ [][Next]_vars
=============================================================================
