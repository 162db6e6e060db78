--------------------------- MODULE KVStoreFactory ---------------------------
(***************************************************************************)
(* The factory of the storage backend the flusher writes to (kvstore.cc):  *)
(* KVStoreFactory::create reads the backend and the database strategy of   *)
(* the configuration and builds the store, or returns NULL;  typeToString  *)
(* and stringToType convert between the strategies and their names.        *)
(*                                                                         *)
(* A name is a string, a strategy a member of db_type, a store a record of *)
(* its class and of what it was built from.  The arguments of the strategy *)
(* classes are reduced to the database name.                               *)
(***************************************************************************)
EXTENDS Sequences, SequencesExt

CONSTANTS
    BackendNames,      \* what the configuration may say of the backend
    StrategyNames,     \* ... and of the database strategy
    DbNames            \* ... and of the database file

db_type == {"multi_db", "single_db", "single_mt_db", "multi_mt_db",
            "multi_mt_vb_db"}

(* A variable of type db_type that was never assigned holds any of them, or
   a number that is none. *)
Uninitialized == db_type \cup {"junk"}

Configurations ==
    [backend : BackendNames, dbstrategy : StrategyNames, dbname : DbNames]

NULL == [class |-> "NULL"]

MULTI_DB_NAME       == "multiDB"
SINGLE_DB_NAME      == "singleDB"
SINGLE_MT_DB_NAME   == "singleMTDB"
MULTI_MT_DB_NAME    == "multiMTDB"
MULTI_MT_VB_DB_NAME == "multiMTVBDB"

stringToCharPtr(str) == IF str # "" THEN [chars |-> str] ELSE NULL

(* typeToString: the switch; a value that is no case leaves rv NULL, and the
   assert fails. *)
typeToString(type) ==
    CASE type = "multi_db"       -> MULTI_DB_NAME
      [] type = "single_db"      -> SINGLE_DB_NAME
      [] type = "single_mt_db"   -> SINGLE_MT_DB_NAME
      [] type = "multi_mt_db"    -> MULTI_MT_DB_NAME
      [] type = "multi_mt_vb_db" -> MULTI_MT_VB_DB_NAME

(* Faulty variant: two names of the chain given to the wrong strategies. *)
ComparisonsSwapped ==
    << <<MULTI_DB_NAME, "multi_db">>, <<SINGLE_DB_NAME, "single_db">>,
       <<SINGLE_MT_DB_NAME, "multi_mt_db">>,
       <<MULTI_MT_DB_NAME, "single_mt_db">>,
       <<MULTI_MT_VB_DB_NAME, "multi_mt_vb_db">> >>

(* The comparisons of stringToType, in the order they are made. *)
Comparisons ==
    << <<MULTI_DB_NAME, "multi_db">>, <<SINGLE_DB_NAME, "single_db">>,
       <<SINGLE_MT_DB_NAME, "single_mt_db">>,
       <<MULTI_MT_DB_NAME, "multi_mt_db">>,
       <<MULTI_MT_VB_DB_NAME, "multi_mt_vb_db">> >>

(* stringToType(name, typeOut): what it returns and what typeOut holds
   afterwards; a name that is none leaves typeOut as it was. *)
stringToType(name, typeOut) ==
    LET i == SelectInSeq(Comparisons, LAMBDA c : c[1] = name) IN
    [rv |-> i # 0, typeOut |-> IF i = 0 THEN typeOut ELSE Comparisons[i][2]]

(* The strategy class create builds for a type; none of the cases for a
   value that is no strategy. *)
SqliteStrategy(type, c) ==
    LET instance(class) ==
            [class |-> class, dbname |-> stringToCharPtr(c.dbname)] IN
    CASE type = "multi_db"       -> instance("MultiDBSingleTable")
      [] type = "single_db"      -> instance("SingleTable")
      [] type = "single_mt_db"   -> instance("MultiTable")
      [] type = "multi_mt_db"    -> instance("ShardedMultiTable")
      [] type = "multi_mt_vb_db" -> instance("ShardedByVBucket")
      [] OTHER                   -> NULL

(* Faulty variant: the strategy is built whatever stringToType returns. *)
createUnchecked(c, type) ==
    CASE c.backend = "sqlite" ->
            [class |-> "StrategicSqlite3",
             strategy |-> SqliteStrategy(
                 stringToType(c.dbstrategy, type).typeOut, c)]
      [] c.backend = "couchdb" -> [class |-> "MCKVStore"]
      [] OTHER -> NULL

(* create(theEngine): c is the configuration of the engine, type what the
   local variable of that name holds before stringToType is called. *)
create(c, type) ==
    CASE c.backend = "sqlite" ->
            LET known == stringToType(c.dbstrategy, type) IN
            IF ~known.rv THEN NULL
            ELSE [class |-> "StrategicSqlite3",
                  strategy |-> SqliteStrategy(known.typeOut, c)]
      [] c.backend = "couchdb" -> [class |-> "MCKVStore"]
      [] OTHER -> NULL

=============================================================================
