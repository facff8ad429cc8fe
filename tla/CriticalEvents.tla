---------------------------- MODULE CriticalEvents ----------------------------
(***************************************************************************)
(* CriticalEventHandler of src/Utility: objects that install a handler for *)
(* SIGINT and SIGTERM when they are built and put the previous handlers    *)
(* back when they are destroyed, and the flag that the handler sets.  A    *)
(* signal may arrive between any two calls of signal(), and threads may    *)
(* build and destroy objects at the same time.                             *)
(***************************************************************************)
EXTENDS Integers, Sequences, SequencesExt

CONSTANTS
  EventHandlers,     \* the objects of the class
  ProgramHandlers    \* dispositions that a signal may have before the first object

VARIABLES
  disposition,       \* the disposition of every signal
  handlers,          \* the phase of every object, its handlers_list_ and signal_set
  event_flag,        \* event_flag_, of the class
  process,           \* "running", or "ended" by a signal's default action
  eventHistory       \* for the properties: first dispositions, order of the objects, leaks

eventVars == <<disposition, handlers, event_flag, process, eventHistory>>

\* The set is ordered: SIGINT is 2 and SIGTERM is 15.
signal_set == <<"SIGINT", "SIGTERM">>
Signals    == ToSet(signal_set)

NoObject == [phase |-> "none", list |-> <<>>, left |-> <<>>]

\* Objects are nested when each is built and destroyed while no other is, and
\* the last one built is the first one destroyed; the order of the objects is
\* only kept for as long as they are.
Alone(object) ==
  \A other \in EventHandlers \ {object} : handlers[other].phase \in {"none", "live"}

-----------------------------------------------------------------------------
(* The constructor.                                                        *)

CriticalEventHandler(object) ==
  /\ handlers[object].phase = "none"
  /\ handlers' = [handlers EXCEPT ![object] =
                    [phase |-> "installing", list |-> <<>>, left |-> signal_set]]
  /\ eventHistory' = [eventHistory EXCEPT
                        !.order  = Append(@, object),
                        !.nested = @ /\ Alone(object)]
  /\ UNCHANGED <<disposition, event_flag, process>>

\* One turn of the loop of InstallHandlers: signal() returns the previous handler.
InstallHandler(object) ==
  LET signal == Head(handlers[object].left)
  IN /\ handlers[object].phase = "installing"
     /\ disposition' = [disposition EXCEPT ![signal] = "SignalHandler"]
     /\ handlers' = [handlers EXCEPT ![object] =
          [phase |-> IF Len(@.left) = 1 THEN "live" ELSE "installing",
           list  |-> Append(@.list, <<signal, disposition[signal]>>),
           left  |-> Tail(@.left)]]
     /\ UNCHANGED <<event_flag, process, eventHistory>>

Listed(object, signal) ==
  \E i \in DOMAIN handlers[object].list : handlers[object].list[i][1] = signal

\* signal() returns SIG_ERR and the constructor throws: no destructor runs, and
\* the handlers that were installed before stay, until an object around this
\* one, if there is any, puts its own previous handlers back.
InstallHandlerFails(object) ==
  /\ handlers[object].phase = "installing"
  /\ handlers' = [handlers EXCEPT ![object] = NoObject]
  /\ eventHistory' = [eventHistory EXCEPT
       !.order  = Front(@),
       !.leaked = @ \cup {signal \in Signals :
                            {other \in EventHandlers : Listed(other, signal)} = {object}}]
  /\ UNCHANGED <<disposition, event_flag, process>>

-----------------------------------------------------------------------------
(* The destructor.                                                         *)

DestroyEventHandler(object) ==
  /\ handlers[object].phase = "live"
  /\ handlers' = [handlers EXCEPT ![object].phase = "restoring"]
  /\ eventHistory' = [eventHistory EXCEPT
       !.order  = Front(@),
       !.nested = @ /\ Alone(object) /\ Last(eventHistory.order) = object]
  /\ UNCHANGED <<disposition, event_flag, process>>

RestoreHandler_Bug(object) ==
  LET saved == Last(handlers[object].list)
  IN /\ handlers[object].phase = "restoring"
     /\ disposition' = [disposition EXCEPT ![saved[1]] = "SIG_DFL"]
     /\ handlers' = [handlers EXCEPT ![object] =
          IF Len(@.list) = 1 THEN NoObject
          ELSE [phase |-> "restoring", list |-> Front(@.list), left |-> <<>>]]
     /\ UNCHANGED <<event_flag, process, eventHistory>>

\* One turn of its loop, from the end of handlers_list_.
RestoreHandler(object) ==
  LET saved == Last(handlers[object].list)
  IN /\ handlers[object].phase = "restoring"
     /\ disposition' = [disposition EXCEPT ![saved[1]] = saved[2]]
     /\ handlers' = [handlers EXCEPT ![object] =
          IF Len(@.list) = 1 THEN NoObject
          ELSE [phase |-> "restoring", list |-> Front(@.list), left |-> <<>>]]
     /\ UNCHANGED <<event_flag, process, eventHistory>>

-----------------------------------------------------------------------------
(* Signals and the flag, which nothing ever clears.                        *)

SetFlag == event_flag' = TRUE /\ UNCHANGED <<disposition, handlers, process, eventHistory>>

\* The call itself, or SIGINT or SIGTERM while SignalHandler is installed.
SignalHandler == (\E signal \in Signals : disposition[signal] = "SignalHandler") /\ SetFlag

\* The default action of both signals.
DefaultAction ==
  /\ \E signal \in Signals : disposition[signal] = "SIG_DFL"
  /\ process' = "ended"
  /\ UNCHANGED <<disposition, handlers, event_flag, eventHistory>>

EventInit ==
  /\ disposition \in [Signals -> ProgramHandlers]
  /\ handlers = [object \in EventHandlers |-> NoObject]
  /\ event_flag = FALSE
  /\ process = "running"
  /\ eventHistory = [original |-> disposition, order |-> <<>>, nested |-> TRUE, leaked |-> {}]

EventNext ==
  /\ process = "running"
  /\ \/ \E object \in EventHandlers :
          \/ CriticalEventHandler(object)
          \/ InstallHandler(object)
          \/ InstallHandlerFails(object)
          \/ DestroyEventHandler(object)
          \/ RestoreHandler(object)
     \/ SetFlag
     \/ SignalHandler
     \/ DefaultAction

EventSpec == EventInit /\ [][EventNext]_eventVars

-----------------------------------------------------------------------------
(* Properties.                                                             *)

\* While objects are built and destroyed in the nesting of their scopes, a
\* signal is handled from the step that put it on the first object's list to
\* the step that takes it off the last one's, and outside of these it has the
\* disposition that the program gave it; only a signal that the outermost
\* object had installed when its constructor threw stays handled for good
\* (CriticalEventHandler.cpp:89).
\* Objects that are not nested break this (CriticalEventHandler.cpp:61).
HandlersInPlace ==
  eventHistory.nested =>
    \A signal \in Signals :
      disposition[signal] =
        IF signal \in eventHistory.leaked \/ \E object \in EventHandlers : Listed(object, signal)
        THEN "SignalHandler" ELSE eventHistory.original[signal]
=============================================================================
