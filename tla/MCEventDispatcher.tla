-------------------------- MODULE MCEventDispatcher --------------------------
(* Small instances of EventDispatcher for TLC. *)
EXTENDS EventDispatcher, TLC

CONSTANTS p1, p2, w1, w2

TwoPublishers == {p1, p2}
OnePublisher  == {p1}
TwoWorkers    == {w1, w2}
OneWorker     == {w1}
ThreadSymmetry == Permutations(Publishers) \union Permutations(Pool)

event1 == [kind |-> "event", event |-> "CONNECTED", key |-> "a"]
route1 == [kind |-> "route", event |-> "CONNECTED", key |-> "a"]
data1  == [kind |-> "data", event |-> "CONNECTED", key |-> "a"]

EventAndRoute == {event1, route1}
EventAndData  == {event1, data1}

(* Two subscriber objects with the same id: the second replaces the first. *)
SameId == {[id |-> "a", object |-> 1], [id |-> "a", object |-> 2]}

OnConnected == {[kind |-> "event", event |-> "CONNECTED"]}
None        == {}

DropConnected == {{event1}}
UnboundedOrOne == {0, 1}

=============================================================================
