------------------------------ MODULE MCStartUp ------------------------------
(***************************************************************************)
(* Small instances of StartUp: crypto/md5 and x/crypto/md4 have sinks, and *)
(* the application is hasher, which uses md5, db, which uses the tracer    *)
(* too, and main.                                                          *)
(***************************************************************************)
EXTENDS StartUp

CONSTANTS instrumentedSource, instrumentedPropagation, instrumentedSink,
          executedTainted, executedSink, executedPropagation

MCInstrumentedOrder == <<instrumentedSource, instrumentedPropagation, instrumentedSink>>
MCExecutedOrder == <<executedTainted, executedSink>>
MCInitFunctions == {"md5", "md4"}
MCRegisters ==
  [f \in InitFunctions |-> [metric |-> instrumentedSink, count |-> IF f = "md5" THEN 2 ELSE 1]]

MCApplicationImports ==
  [p \in {"hasher", "db", "main"} |->
     CASE p = "hasher" -> {"md5"}
       [] p = "db"     -> {"md5", "tracer"}
       [] p = "main"   -> Packages \ {"main"}]

(* db is github.com/redis/db, or ...                                       *)
MCPathOrder ==
  <<"md5", "hasher", "config", "instrumentation", "heartbeat", "spans", "tracer",
    "xsync", "db", "md4", "main">>
(* ... example.com/db.                                                     *)
MCEarlyPathOrder ==
  <<"md5", "db", "hasher", "config", "instrumentation", "heartbeat", "spans", "tracer",
    "xsync", "md4", "main">>
MCBackground == {"db", "main"}
=============================================================================
