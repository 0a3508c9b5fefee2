----------------------------- MODULE DataRouter -----------------------------
(***************************************************************************)
(* data_router.cpp and message_handler.cpp: the lists of handlers and      *)
(* connections of one connection's router.                                 *)
(*                                                                         *)
(* A handler may remove itself or another while it is called.  The loop    *)
(* that calls it goes on with the iterators it has: to the end the vector  *)
(* had, over elements that have moved up and, behind the new end, over     *)
(* those that were left there.  `cells` holds them all.  Handlers are      *)
(* added while no routing runs, as everywhere in the repository, and a     *)
(* routing does not start another.                                         *)
(***************************************************************************)
EXTENDS Integers, Sequences

CONSTANTS
    Handlers,      \* the message_handlers
    Connections,   \* the connections
    MaxHandlers,   \* bound: length of the list
    None           \* no routing

VARIABLES
    cells,      \* the memory of inbound_handlers_
    count,      \* inbound_handlers_.size()
    outbound,   \* outbound_handlers, each with whether it still exists
    routing,    \* None, or the loop that runs
    removed,    \* handlers removed and not added again
    received    \* connections that the last route_outbound reached

routerVars == <<cells, count, outbound, routing, removed, received>>

RouterInit ==
    /\ cells = <<>> /\ count = 0
    /\ outbound = [c \in Connections |-> "unknown"]
    /\ routing = None
    /\ removed = {}
    /\ received = {}

-----------------------------------------------------------------------------
InboundHandlers == SubSeq(cells, 1, count)

ConfigureInbound(h) ==
    /\ routing = None /\ count < MaxHandlers
    /\ cells' = Append(InboundHandlers, h)
    /\ count' = count + 1
    /\ removed' = removed \ {h}
    /\ UNCHANGED <<outbound, routing, received>>

(* operator==: each handler, copied ones too, draws a uuid of its own.  (An *)
(* assignment would copy it; nothing assigns to a handler.)                *)
SameHandler(h, other) == h = other

(* remove_handler, between routings or from within a handler.  remove_if   *)
(* moves the others up in their order; what erase leaves behind the new    *)
(* end is what the vector had there.                                       *)
Kept(h) == {i \in 1..count : ~SameHandler(h, cells[i])}
RemoveFirst(h) ==    \* mutant: std::find in place of std::remove_if
    /\ routing # None => routing.calling
    /\ \E i \in 1..count :
        /\ SameHandler(cells[i], h) /\ \A j \in 1..(i - 1) : ~SameHandler(cells[j], h)
        /\ cells' = SubSeq(cells, 1, i - 1) \o SubSeq(cells, i + 1, Len(cells)) \o <<h>>
        /\ count' = count - 1
    /\ removed' = removed \cup {h}
    /\ routing' = IF routing = None THEN None ELSE [routing EXCEPT !.disturbed = TRUE]
    /\ UNCHANGED <<outbound, received>>
RemoveHandler(h) ==
    /\ routing # None => routing.calling
    /\ \E n \in 0..count : \E from \in [1..n -> Kept(h)] :
        /\ \A i, j \in 1..n : i < j => from[i] < from[j]
        /\ Kept(h) = {from[i] : i \in 1..n}
        /\ count' = n
        /\ cells' = [i \in 1..Len(cells) |-> IF i <= n THEN cells[from[i]] ELSE cells[i]]
    /\ removed' = removed \cup {h}
    /\ routing' = IF routing = None THEN None ELSE [routing EXCEPT !.disturbed = TRUE]
    /\ UNCHANGED <<outbound, received>>

(* for (auto handler : inbound_handlers_), of data or of a link status.    *)
Route(kind) ==
    /\ routing = None
    /\ routing' = [kind |-> kind, next |-> 1, end |-> count, succeeded |-> TRUE,
                   heard |-> <<>>, failed |-> {}, calling |-> FALSE, disturbed |-> FALSE,
                   quiet |-> removed]
    /\ UNCHANGED <<cells, count, outbound, removed, received>>

(* The next handler is called, unless data has met one that failed.        *)
CallHandler ==
    /\ routing # None /\ routing.next <= routing.end /\ ~routing.calling
    /\ routing' = IF routing.kind = "link" \/ routing.succeeded
                    THEN [routing EXCEPT !.calling = TRUE, !.heard = Append(@, cells[routing.next])]
                    ELSE [routing EXCEPT !.next = @ + 1]
    /\ UNCHANGED <<cells, count, outbound, removed, received>>

(* Its result counts for data only.                                        *)
HandlerReturns(result) ==
    /\ routing # None /\ routing.calling
    /\ routing' = [routing EXCEPT !.calling = FALSE, !.next = @ + 1,
                                  !.succeeded = @ /\ (result \/ routing.kind = "link"),
                                  !.failed = IF result THEN @ ELSE @ \cup {Len(routing.heard)}]
    /\ UNCHANGED <<cells, count, outbound, removed, received>>

(* An exception of a handler ends the loop with it.                        *)
HandlerThrows ==
    /\ routing # None /\ routing.calling
    /\ routing' = None
    /\ UNCHANGED <<cells, count, outbound, removed, received>>

RouteReturns ==
    /\ routing # None /\ routing.next > routing.end
    /\ routing' = None
    /\ UNCHANGED <<cells, count, outbound, removed, received>>

-----------------------------------------------------------------------------
ConfigureOutbound(c) ==
    /\ outbound[c] = "unknown"
    /\ outbound' = [outbound EXCEPT ![c] = "alive"]
    /\ UNCHANGED <<cells, count, routing, removed, received>>

(* The weak_ptr stays in the list and locks to nothing.                    *)
ConnectionEnds(c) ==
    /\ outbound[c] = "alive"
    /\ outbound' = [outbound EXCEPT ![c] = "expired"]
    /\ UNCHANGED <<cells, count, routing, removed, received>>

RouteOutbound ==
    /\ received' = {c \in Connections : outbound[c] = "alive"}
    /\ UNCHANGED <<cells, count, outbound, routing, removed>>

RouterNext ==
    \/ \E h \in Handlers : ConfigureInbound(h) \/ RemoveHandler(h)
    \/ \E kind \in {"data", "link"} : Route(kind)
    \/ CallHandler
    \/ \E result \in BOOLEAN : HandlerReturns(result)
    \/ HandlerThrows \/ RouteReturns
    \/ \E c \in Connections : ConfigureOutbound(c) \/ ConnectionEnds(c)
    \/ RouteOutbound

RouterSpec == RouterInit /\ [][RouterNext]_routerVars

-----------------------------------------------------------------------------
(* A routing that ends, and in which no handler was removed.               *)
Ended == routing # None /\ routing.next > routing.end /\ ~routing.disturbed

(* A link status has reached every registered handler, once for each time  *)
(* it was registered and in that order, whatever the handlers answered;    *)
(* and route_inbound returns true just when the data has, and none failed. *)
(* Who was removed before a routing began is not called in it, however     *)
(* often it had been registered, and whoever is removed meanwhile.         *)
RoutingAsPromised ==
    /\ Ended =>
          /\ routing.kind = "link" => routing.heard = InboundHandlers
          /\ routing.kind = "data" =>
                (routing.succeeded <=> routing.heard = InboundHandlers /\ routing.failed = {})
    /\ routing # None =>
          \A i \in 1..Len(routing.heard) : routing.heard[i] \notin routing.quiet

(* What data_router.hpp says of route_inbound: it calls every registered   *)
(* message_handler, even if one of them fails.  It does not hold: after    *)
(* one has failed && calls no other.                                       *)
EveryHandlerHears == Ended => routing.heard = InboundHandlers
=============================================================================
