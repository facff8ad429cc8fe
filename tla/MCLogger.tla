------------------------------ MODULE MCLogger ------------------------------
(***************************************************************************)
(* Instances of Logger for TLC.  Each run picks what its threads may call. *)
(***************************************************************************)
EXTENDS Logger, TLC

CONSTANTS w1, w2, adm, adm2, main, h1, h2

\* Two writers share the file of a handler that may throw, while a third
\* thread replaces or removes the handler.
WriteCalls ==
  w1 :> {"PutText", "PutEndOfLine"} @@
  w2 :> {"PutText", "PutEndOfLine", "PutLiteral"} @@
  adm :> {"HandlerInstall"} @@ main :> {}
WriteBounds == w1 :> 1 @@ w2 :> 3 @@ adm :> 1 @@ main :> 0

\* A writer on two streams, a thread that changes levels and handlers, and
\* one that calls a handler past the manager and changes its file.
AdminCalls ==
  w1 :> {"PutText", "Flush", "LogToLevel"} @@
  adm :> {"SetLogLevel", "HandlerInstall"} @@
  adm2 :> {"ManagerEmit", "EmitLineSpecific", "OpenFile"} @@ main :> {}
AdminBounds == w1 :> 2 @@ adm :> 2 @@ adm2 :> 1 @@ main :> 0

\* Everything that takes a lock or leaves an unfinished line, to its end.
LiveCalls ==
  w1 :> {"PutText", "Flush", "PutLiteral", "EmitLineSpecific", "ReuseThreadId"} @@
  adm :> {"PutEndOfLine", "HandlerInstall", "EmitLineSpecific"} @@ main :> {"PutText"}
LiveBounds == w1 :> 2 @@ adm :> 2 @@ main :> 1
=============================================================================
