---------------------------- MODULE DomainEvents ----------------------------
(***************************************************************************)
(* The in-process registry of src/lib/domain/events/domain-events.ts and   *)
(* the AggregateRoot that feeds it, for the instances of ONE aggregate id. *)
(*                                                                         *)
(* Every findById builds a new object, so two requests on one event hold   *)
(* two instances with the same id.  The registry compares ids: while one   *)
(* instance is marked a second one is not added, and a dispatch for the id *)
(* dispatches whichever instance is marked.                                *)
(*                                                                         *)
(* Handlers are called synchronously and start asynchronous work they do   *)
(* not wait for; that work is a member of "deliveries" until it runs.  Two *)
(* pending runs for the same event are one member: the handlers modelled   *)
(* are idempotent.                                                         *)
(***************************************************************************)
CONSTANTS
  Slots,     \* one place for each request in flight, and its instance
  Leaked,    \* the instance of a failed request that stays in the registry
  NoInstance \* the registry is empty

Instances == Slots \cup {Leaked}

ASSUME InstanceNames == Leaked \notin Slots /\ NoInstance \notin Instances

VARIABLES
  marked,       \* markedAggregates: the instance waiting for a dispatch
  domainEvents, \* instance -> the events added to it and not yet dispatched
  deliveries    \* handler work started and not yet run

registryVars == <<marked, domainEvents, deliveries>>

RegistryInit ==
  /\ marked = NoInstance
  /\ domainEvents = [i \in Instances |-> {}]
  /\ deliveries = {}

\* AggregateRoot.addDomainEvent and markAggregateForDispatch: the instance is
\* marked only if no instance with the same id is.
AddDomainEvent(i, e) ==
  /\ domainEvents' = [domainEvents EXCEPT ![i] = @ \cup {e}]
  /\ marked' = IF marked = NoInstance THEN i ELSE marked
  /\ UNCHANGED deliveries

(***************************************************************************)
(* save(): once the transaction is committed, an instance that has events  *)
(* asks for a dispatch BY ID.  The request then ends and its instance is   *)
(* garbage, with whatever events it still holds.  "handled" is the set of  *)
(* events that have a handler.                                             *)
(*                                                                         *)
(* The two definitions before DispatchEventsForAggregate are its mutants.  *)
(***************************************************************************)
NeverDispatch(i, handled) ==
  /\ domainEvents' = [domainEvents EXCEPT ![i] = {}]
  /\ marked' = IF marked = i THEN NoInstance ELSE marked
  /\ UNCHANGED deliveries
DispatchWithoutUnmark(i, handled) ==
  /\ deliveries' = deliveries \cup (domainEvents[i] \cap handled)
  /\ domainEvents' = [domainEvents EXCEPT ![i] = {}]
  /\ UNCHANGED marked
DispatchEventsForAggregate(i, handled) ==
  IF domainEvents[i] = {} \/ marked = NoInstance
  THEN /\ domainEvents' = [domainEvents EXCEPT ![i] = {}]
       /\ UNCHANGED <<marked, deliveries>>
  ELSE /\ deliveries' = deliveries \cup (domainEvents[marked] \cap handled)
       /\ domainEvents' = [domainEvents EXCEPT ![marked] = {}, ![i] = {}]
       /\ marked' = NoInstance

\* A request throws: nothing unmarks its instance.
Forget(i) ==
  IF marked = i
  THEN /\ marked' = Leaked
       /\ domainEvents' = [domainEvents EXCEPT ![Leaked] = domainEvents[i], ![i] = {}]
       /\ UNCHANGED deliveries
  ELSE /\ domainEvents' = [domainEvents EXCEPT ![i] = {}]
       /\ UNCHANGED <<marked, deliveries>>
=============================================================================
