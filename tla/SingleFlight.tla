---------------------------- MODULE SingleFlight ----------------------------
(* What a registry of shared work promises its callers, whatever it is made *)
(* of: a caller that asks for a key is attached to the one flight of that   *)
(* key, flights end by themselves, and a caller gets the outcome of the     *)
(* flight it was attached to or leaves without one.  The store's            *)
(* migrateOnce and the cached installation tokens of the github package     *)
(* both claim to be this; they differ in which outcomes they keep.          *)
CONSTANTS
  Callers, Keys, Flights, Outcomes,
  Lasting,   \* the outcomes after which a key takes off no more
  Nothing    \* no key, no flight

VARIABLES
  flight,   \* of each flight: its key, Nothing before take-off, and its state
  caller    \* of each caller: what it asked for and the flight it is on

vars == <<flight, caller>>

Open == {"open"}
Out == [key |-> Nothing, on |-> Nothing]

Init ==
  /\ flight = [f \in Flights |-> [key |-> Nothing, state |-> "unused"]]
  /\ caller = [c \in Callers |-> Out]

\* The flights a caller for the key may be put on.
Shared(k) == {f \in Flights : flight[f].key = k /\ flight[f].state \in Open \cup Lasting}

Ask(c, k) ==
  /\ caller[c] = Out
  /\ caller' = [caller EXCEPT ![c] = [key |-> k, on |-> Nothing]]
  /\ UNCHANGED flight

Board(c, f) ==
  /\ caller[c].on = Nothing /\ f \in Shared(caller[c].key)
  /\ caller' = [caller EXCEPT ![c].on = f]
  /\ UNCHANGED flight

TakeOff(c, f) ==
  /\ caller[c].key # Nothing /\ caller[c].on = Nothing /\ flight[f].state = "unused"
  /\ Shared(caller[c].key) = {}
  /\ flight' = [flight EXCEPT ![f] = [key |-> caller[c].key, state |-> "open"]]
  /\ caller' = [caller EXCEPT ![c].on = f]

Land(f, outcome) ==
  /\ flight[f].state \in Open
  /\ flight' = [flight EXCEPT ![f].state = outcome]
  /\ UNCHANGED caller

\* With the outcome of its flight once it has landed, or without one.
Leave(c) ==
  /\ caller[c] # Out
  /\ caller' = [caller EXCEPT ![c] = Out]
  /\ UNCHANGED flight

Next ==
  \/ \E c \in Callers :
       Leave(c) \/ (\E k \in Keys : Ask(c, k)) \/ \E f \in Flights : Board(c, f) \/ TakeOff(c, f)
  \/ \E f \in Flights, outcome \in Outcomes : Land(f, outcome)

Spec == Init /\ [][Next]_vars
=============================================================================
