----------------------------- MODULE HandoffQueue -----------------------------
(***************************************************************************)
(* What a ring buffer promises its callers: a FIFO queue of bounded        *)
(* capacity whose operations take effect at one instant each.  A put gives *)
(* its value to the get that has waited longest, or appends it; a get      *)
(* takes the oldest value, or starts to wait.  A put returns once its      *)
(* value is among the first Capacity of the queue or has left it.          *)
(***************************************************************************)
EXTENDS Sequences, Naturals

CONSTANTS Putters, Getters, Values, Capacity,
          Nobody    \* neither a thread nor a value

Callers == Putters \cup Getters

VARIABLES
  items,    \* values not yet asked for, each with the put still in progress
  waiters,  \* threads whose get awaits a value, in the order they called
  state,    \* "idle", "putting", "waiting" or "got"
  result    \* the value a get in progress was given

qvars == <<items, waiters, state, result>>

Init ==
  /\ items = <<>>
  /\ waiters = <<>>
  /\ state = [t \in Callers |-> "idle"]
  /\ result = [t \in Callers |-> Nobody]

Put(t, v) ==
  /\ t \in Putters /\ state[t] = "idle"
  /\ \/ /\ waiters = <<>>
        /\ items' = Append(items, [val |-> v, by |-> t])
        /\ state' = [state EXCEPT ![t] = "putting"]
        /\ UNCHANGED <<waiters, result>>
     \/ /\ waiters # <<>>
        /\ waiters' = Tail(waiters)
        /\ state' = [state EXCEPT ![t] = "putting", ![Head(waiters)] = "got"]
        /\ result' = [result EXCEPT ![Head(waiters)] = v]
        /\ UNCHANGED items

PutReturn(t) ==
  /\ state[t] = "putting"
  /\ \A j \in DOMAIN items : items[j].by = t => j <= Capacity
  /\ items' = [j \in DOMAIN items |->
                 [items[j] EXCEPT !.by = IF @ = t THEN Nobody ELSE @]]
  /\ state' = [state EXCEPT ![t] = "idle"]
  /\ UNCHANGED <<waiters, result>>

Get(t) ==
  /\ t \in Getters /\ state[t] = "idle"
  /\ \/ /\ items # <<>>
        /\ result' = [result EXCEPT ![t] = Head(items).val]
        /\ items' = Tail(items)
        /\ state' = [state EXCEPT ![t] = "got"]
        /\ UNCHANGED waiters
     \/ /\ items = <<>>
        /\ waiters' = Append(waiters, t)
        /\ state' = [state EXCEPT ![t] = "waiting"]
        /\ UNCHANGED <<items, result>>

GetReturn(t) ==
  /\ state[t] = "got"
  /\ state' = [state EXCEPT ![t] = "idle"]
  /\ result' = [result EXCEPT ![t] = Nobody]
  /\ UNCHANGED <<items, waiters>>

\* Between uses the queue may be emptied; nobody is inside an operation then.
Reset ==
  /\ \A t \in Callers : state[t] = "idle"
  /\ items' = <<>>
  /\ UNCHANGED <<waiters, state, result>>

Next ==
  \/ \E t \in Callers : \/ \E v \in Values : Put(t, v)
                        \/ PutReturn(t) \/ Get(t) \/ GetReturn(t)
  \/ Reset

Spec ==
  /\ Init /\ [][Next]_qvars
  /\ \A t \in Callers : WF_qvars(PutReturn(t)) /\ WF_qvars(GetReturn(t))

=============================================================================
