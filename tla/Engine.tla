------------------------------- MODULE Engine -------------------------------
(***************************************************************************)
(* The start of the engine: KVStoreFactory::create builds the backend from *)
(* the configuration, and the store with its flusher (module Flusher) is   *)
(* constructed on the backend.  An engine whose backend cannot be built    *)
(* does not come up.                                                       *)
(*                                                                         *)
(* create is the code of kvstore.cc (module KVStoreFactory).  That the     *)
(* engine calls it before it constructs the store, and gives up without a  *)
(* backend, follows the constructor of the store, which takes the backend  *)
(* as a parameter; the engine's own code is not among the sources.         *)
(***************************************************************************)
EXTENDS Flusher

CONSTANTS BackendNames, StrategyNames, DbNames

VARIABLE
    boot       \* the start of the engine: the configuration, the local
               \* variable type of create, and the backend it returns

KV == INSTANCE KVStoreFactory

evars == <<vars, boot>>

(* The store is constructed; create and its locals are history. *)
Started == [pc |-> "started"]

EngineInit ==
    /\ Init
    /\ boot \in [pc : {"create"}, c : KV!Configurations,
                 type : KV!Uninitialized]

(* KVStoreFactory::create(theEngine), with what type holds when it returns. *)
create ==
    /\ boot.pc = "create"
    /\ boot' = [pc |-> "created", c |-> boot.c,
                type |-> IF boot.c.backend = "sqlite"
                         THEN KV!stringToType(boot.c.dbstrategy,
                                              boot.type).typeOut
                         ELSE boot.type,
                kvstore |-> KV!create(boot.c, boot.type)]
    /\ UNCHANGED vars

(* The store is constructed on the backend. *)
initialize ==
    /\ boot.pc = "created"
    /\ boot.kvstore # KV!NULL
    /\ boot' = Started
    /\ UNCHANGED vars

(* Without a backend the engine stays down. *)
down ==
    /\ boot.pc = "created"
    /\ boot.kvstore = KV!NULL
    /\ UNCHANGED evars

(* A step of the store, of its callers or of its flusher. *)
StoreStep(A) == boot = Started /\ A /\ UNCHANGED boot

EngineNext ==
    \/ create \/ initialize \/ down
    \/ StoreStep(Next)

EngineSpec == EngineInit /\ [][EngineNext]_evars

(* The engine goes through its start without waiting; the store is as fair
   as in module Flusher. *)
EngineFairSpec ==
    /\ EngineSpec
    /\ WF_evars(create \/ initialize)
    /\ WF_evars(StoreStep(FlusherStep))
    /\ \A c \in Clients : WF_evars(StoreStep(queueDirty(c)))

----------------------------------------------------------------------------
(* Properties *)

(* typeToString and stringToType are each other's inverse: a store built
   for sqlite has the strategy whose name the configuration gives, and a
   configuration that gives the name of a strategy gets its store. *)
NamesRoundTrip ==
    boot.pc = "created" /\ boot.c.backend = "sqlite" =>
       /\ boot.kvstore # KV!NULL =>
             KV!typeToString(boot.type) = boot.c.dbstrategy
       /\ \A t \in KV!db_type :
             KV!typeToString(t) = boot.c.dbstrategy =>
                boot.kvstore # KV!NULL /\ boot.type = t

(* create never uses the type that stringToType did not assign: the backend
   it returns is the same whatever the uninitialized variable held, a store
   for sqlite has a strategy, and the engine is without a backend exactly
   when the configuration names a backend or a strategy that is not
   known. *)
CreateIgnoresUninitialized ==
    boot.pc = "created" =>
       /\ \A was \in KV!Uninitialized : KV!create(boot.c, was) = boot.kvstore
       /\ boot.kvstore.class = "StrategicSqlite3" =>
             boot.kvstore.strategy # KV!NULL
       /\ boot.kvstore = KV!NULL <=>
             \/ boot.c.backend \notin {"sqlite", "couchdb"}
             \/ /\ boot.c.backend = "sqlite"
                /\ boot.c.dbstrategy \notin
                      {KV!typeToString(t) : t \in KV!db_type}

=============================================================================
