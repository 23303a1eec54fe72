------------------------------ MODULE LoadedData ------------------------------
(***************************************************************************)
(* What loading promises to the views: data_ of all objects is emptied     *)
(* when a load begins, then grows by one chunk at a time in the order of   *)
(* the chunks of that load, and the load is over when every object it      *)
(* reads has all of them and the views were told of all there is.          *)
(***************************************************************************)
EXTENDS Naturals, Sequences

CONSTANTS
    NumObjects, \* how many database objects there are
    Chunks      \* how many chunks the table of each object has

VARIABLES
    loading,    \* a load is in progress
    requested,  \* it waits for what came before and has not begun
    loads,      \* loads begun
    wanted,     \* the objects that the last of them reads
    data,       \* data_ of each object
    announced   \* how much of it the views were told of

promiseVars == <<loading, requested, loads, wanted, data, announced>>

DBObjects == 1 .. NumObjects

Init ==
    /\ loading = FALSE /\ requested = FALSE
    /\ loads = 0 /\ wanted = {}
    /\ data = [o \in DBObjects |-> <<>>]
    /\ announced = [o \in DBObjects |-> 0]

Emptied ==
    /\ data' = [o \in DBObjects |-> <<>>]
    /\ announced' = [o \in DBObjects |-> 0]

Chunk(o, n) == [obj |-> o, load |-> loads, chunk |-> n]

\* No load is over before this.
AllThere ==
    /\ \A o \in wanted : Len(data[o]) = Chunks[o]
    /\ \A o \in DBObjects : announced[o] = Len(data[o])

Request ==
    /\ ~loading
    /\ loading' = TRUE /\ requested' = TRUE
    /\ Emptied
    /\ UNCHANGED <<loads, wanted>>

\* At once or after the wait; what to read is chosen here, and it may be nothing.
Begin ==
    /\ ~loading \/ requested
    /\ requested' = FALSE
    /\ loads' = loads + 1
    /\ wanted' \in SUBSET DBObjects
    /\ loading' = (wanted' # {})
    /\ Emptied

\* The views are told of all the object has now, or not yet; the load may be over with it.
AddChunk(o) ==
    /\ loading /\ ~requested
    /\ o \in wanted /\ Len(data[o]) < Chunks[o]
    /\ data' = [data EXCEPT ![o] = Append(@, Chunk(o, Len(@) + 1))]
    /\ \/ announced' = announced
       \/ announced' = [announced EXCEPT ![o] = Len(data'[o])]
    /\ UNCHANGED <<requested, loads, wanted>>
    /\ loading' = TRUE \/ (loading' = FALSE /\ AllThere')

End ==
    /\ loading /\ ~requested
    /\ AllThere
    /\ loading' = FALSE
    /\ UNCHANGED <<requested, loads, wanted, data, announced>>

Next == Request \/ Begin \/ (\E o \in DBObjects : AddChunk(o)) \/ End

Spec == Init /\ [][Next]_promiseVars
=============================================================================
