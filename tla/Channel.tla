-------------------------------- MODULE Channel -------------------------------
(***************************************************************************)
(* What a token source is promised about the items it yields: they reach   *)
(* the marking once each and in order.  A coalescing source may have an    *)
(* undelivered item superseded by the next one of the same key; an item    *)
(* the net refuses is dropped; and once the Runtime is being stopped, what *)
(* is at either end of the channel may be abandoned.                       *)
(***************************************************************************)
EXTENDS Sequences, Naturals

CONSTANTS
  Source, Item,
  Coalescing   \* the sources with policy "coalesce"

VARIABLES
  open,     \* FALSE once stop() has been called
  pending,  \* source -> the items yielded and not yet delivered
  applied   \* source -> the items delivered to the marking

channel == <<open, pending, applied>>

Init ==
  /\ open = TRUE
  /\ pending = [s \in Source |-> <<>>]
  /\ applied = [s \in Source |-> <<>>]

Send(s, i) ==
  /\ pending' = [pending EXCEPT ![s] = Append(@, i)]
  /\ UNCHANGED <<open, applied>>

(* The newest item takes the place of the one before it.                   *)
Supersede(s) ==
  LET n == Len(pending[s]) IN
  /\ s \in Coalescing
  /\ n >= 2
  /\ pending[s][n].key = pending[s][n - 1].key
  /\ pending' = [pending EXCEPT
                   ![s] = Append(SubSeq(@, 1, n - 2), @[n])]
  /\ UNCHANGED <<open, applied>>

Deliver(s) ==
  /\ open
  /\ pending[s] # <<>>
  /\ Head(pending[s]).accepted
  /\ applied' = [applied EXCEPT ![s] = Append(@, Head(pending[s]))]
  /\ pending' = [pending EXCEPT ![s] = Tail(@)]
  /\ UNCHANGED open

Refuse(s) ==
  /\ pending[s] # <<>>
  /\ ~Head(pending[s]).accepted
  /\ pending' = [pending EXCEPT ![s] = Tail(@)]
  /\ UNCHANGED <<open, applied>>

Close ==
  /\ open
  /\ open' = FALSE
  /\ UNCHANGED <<pending, applied>>

Abandon(s) ==
  /\ ~open
  /\ pending[s] # <<>>
  /\ \/ pending' = [pending EXCEPT ![s] = Tail(@)]
     \/ pending' = [pending EXCEPT ![s] = SubSeq(@, 1, Len(@) - 1)]
  /\ UNCHANGED <<open, applied>>

Next ==
  \/ \E s \in Source :
       \/ \E i \in Item : Send(s, i)
       \/ Supersede(s) \/ Deliver(s) \/ Refuse(s) \/ Abandon(s)
  \/ Close

Spec == Init /\ [][Next]_channel
=============================================================================
