----------------------------- MODULE NatsObjects -----------------------------
(***************************************************************************)
(* The NATS wrapper: C++ handles that share the objects of the NATS C      *)
(* library, messages that the library hands over to a caller or, on a      *)
(* thread of its own, to a callback, and calls whose status becomes an     *)
(* exception, a value, or nothing.                                         *)
(*                                                                         *)
(* Abstractions.                                                           *)
(*  - The library is not in the repository: what its functions do is taken *)
(*    from the way the wrapper uses them (external).                       *)
(*  - std::shared_ptr: reset() with a raw pointer makes a control block,   *)
(*    a copy shares it, and the last handle of a block runs the destroyer. *)
(*  - Names, payloads and URLs are no data, only what the checks on them   *)
(*    tell apart.  natsOptions and natsInbox are alike here ("plain").     *)
(*  - A virtual call through a pointer to nothing ends the model (fault).  *)
(***************************************************************************)
EXTENDS Integers, FiniteSets

CONSTANTS
  Plain, Connections, Subscriptions, Messages,      \* objects of the library
  PlainHandles, ConnectionHandles, SubscriptionHandles, MessageHandles,
  NoObject,
  LibraryStatuses,   \* what the functions of the library return
  IntMod, SizeMod,   \* 2^32 and 2^64: the values of an int and of a size_t
  Callbacks          \* what the application subscribes with: its "own" function, or
                     \* the static NatsMsgHandler, with an object of a class that
                     \* overrides the virtual one as closure ("override"), of one
                     \* that does not ("default"), or with no closure ("null")

Objects == Plain \union Connections \union Subscriptions \union Messages
Handles == PlainHandles \union ConnectionHandles \union SubscriptionHandles \union MessageHandles

NatsStatusSet ==
  {"OK", "ERR", "PROTOCOL_ERROR", "IO_ERROR", "LINE_TOO_LONG", "CONNECTION_CLOSED",
   "NO_SERVER", "STALE_CONNECTION", "SECURE_CONNECTION_WANTED",
   "SECURE_CONNECTION_REQUIRED", "CONNECTION_DISCONNECTED", "CONNECTION_AUTH_FAILED",
   "NOT_PERMITTED", "NOT_FOUND", "ADDRESS_MISSING", "INVALID_SUBJECT", "INVALID_ARG",
   "INVALID_SUBSCRIPTION", "INVALID_TIMEOUT", "ILLEGAL_STATE", "SLOW_CONSUMER",
   "MAX_PAYLOAD", "MAX_DELIVERED_MSGS", "INSUFFICIENT_BUFFER", "NO_MEMORY", "SYS_ERROR",
   "TIMEOUT", "FAILED_TO_INITIALIZE", "NOT_INITIALIZED", "SSL_ERROR",
   "NO_SERVER_SUPPORT", "NOT_YET_CONNECTED", "DRAINING", "INVALID_QUEUE_NAME",
   "NO_RESPONDERS", "MISMATCH", "MISSED_HEARTBEAT"}

ASSUME NatsAssumption ==
  /\ Connections \cap (Plain \union Subscriptions \union Messages) = {}
  /\ Subscriptions \cap (Plain \union Messages) = {} /\ Messages \cap Plain = {}
  /\ NoObject \notin Objects \union Handles
  /\ ConnectionHandles \cap (PlainHandles \union SubscriptionHandles \union MessageHandles) = {}
  /\ SubscriptionHandles \cap (PlainHandles \union MessageHandles) = {}
  /\ MessageHandles \cap PlainHandles = {}
  /\ "OK" \in LibraryStatuses
  /\ IntMod \in Nat \ {0} /\ SizeMod \in Nat \ {0}
  /\ Callbacks \subseteq {"own", "override", "default", "null"}

VARIABLES
  life,      \* life[o]: "none", "live", "gone", or "twice": destroyed again
  blocks,    \* blocks[o]: control blocks made for o
  handle,    \* handle[h]: whether it is built, its pointer, and its control block
  queued,    \* queued[m]: the subscription in which the library keeps m, or NoObject
  running,   \* running[s]: the message that a callback of s has in hand, or NoObject
  subscribed,\* subscribed[s]: s was not unsubscribed
  open,      \* open[c]: c was not closed
  connection,\* connection[s]: the connection of s
  callback,  \* callback[s]: "sync", or one of Callbacks
  closure,   \* closure[s]: the handle object that a member callback is called on
  result,    \* whether the last call returned or threw, what it threw, and, for
             \* SetServers, the count it was asked to set and the one it set
  building,  \* building[s]: the handle whose constructor has subscribed s, or NoObject
  fault      \* a virtual call was made through NULL or a destroyed object

library == <<queued, running, subscribed, open, connection, callback, closure, building>>
vars == <<life, blocks, handle, library, result, fault>>

Unbuilt == [built |-> FALSE, obj |-> NoObject, block |-> 0]
Hollow  == [built |-> TRUE,  obj |-> NoObject, block |-> 0]
Pointer(o, b) == [built |-> TRUE, obj |-> o, block |-> b]

\* The objects that a handle is declared to hold.
Holds(h) == IF h \in PlainHandles THEN Plain
            ELSE IF h \in ConnectionHandles THEN Connections
            ELSE IF h \in SubscriptionHandles THEN Subscriptions ELSE Messages

SameType(g, h) ==
  \A type \in {PlainHandles, ConnectionHandles, SubscriptionHandles, MessageHandles} :
    g \in type <=> h \in type

Outcome(how, what) == [how |-> how, what |-> what, asked |-> 0, given |-> 0]

Init ==
  /\ life = [o \in Objects |-> "none"]
  /\ blocks = [o \in Objects |-> 0]
  /\ handle = [h \in Handles |-> Unbuilt]
  /\ queued = [m \in Messages |-> NoObject]
  /\ running = [s \in Subscriptions |-> NoObject]
  /\ subscribed = [s \in Subscriptions |-> FALSE]
  /\ open = [c \in Connections |-> FALSE]
  /\ connection = [s \in Subscriptions |-> NoObject]
  /\ callback = [s \in Subscriptions |-> "sync"]
  /\ closure = [s \in Subscriptions |-> NoObject]
  /\ building = [s \in Subscriptions |-> NoObject]
  /\ result = Outcome("returns", "OK")
  /\ fault = FALSE

-----------------------------------------------------------------------------
(* Statuses.                                                               *)

IsValidNatsStatus(code) == code \in NatsStatusSet

\* The text in an exception; one that the library does not know has a stand-in.
GetNatsStatusText(code) == IF IsValidNatsStatus(code) THEN code ELSE "*UNKNOWN-NATS-TEXT*"

\* A status that the caller does not accept is thrown, with its code.
Throw_If_Not(accepted, status) ==
  /\ status \notin accepted
  /\ result' = Outcome("throws", GetNatsStatusText(status))

\* No exception; what the Try functions give back is a value to their caller.
Returns == result' = Outcome("returns", "OK")

\* An argument that is NULL, empty or too large; a hollow message.
ThrowIfNullOrEmpty(arg) == arg \in {"null", "empty"} /\ result' = Outcome("throws", "argument")
ThrowIfNull(arg)        == arg = "null" /\ result' = Outcome("throws", "argument")
ThrowIfHollow(h)        == handle[h].obj = NoObject /\ result' = Outcome("throws", "argument")

NoEffect == UNCHANGED <<life, blocks, handle, library, fault>>

-----------------------------------------------------------------------------
(* Handles.                                                                *)

\* shared_ptr::reset(raw, destroyer) in the handle h that is being built.
Reset(h, o) ==
  /\ blocks' = [blocks EXCEPT ![o] = @ + 1]
  /\ handle' = [handle EXCEPT ![h] = Pointer(o, blocks'[o])]

\* No object is built in h, nor being built.
Free(h) == ~handle[h].built /\ \A s \in Subscriptions : building[s] # h

Abandoned_Each(new) == {o \in Objects : \E h \in Handles : handle[h].obj = o /\ new[h].obj # o}

\* The objects of the blocks that have no handle left when handles become new.
Abandoned(new) ==
  {o \in Objects : \E h \in Handles :
     /\ handle[h].obj = o
     /\ \A g \in Handles : new[g].obj = o => new[g].block # handle[h].block}

Freed_NoDestroyer(dead) == dead \ Subscriptions

\* Destroying a subscription frees what it has queued (external).
Freed(dead) == dead \union {m \in Messages : queued[m] \in dead}

\* Handles become new, and the destroyers of what is abandoned run.
LetGo(new) ==
  LET dead == Abandoned(new) IN
  /\ handle' = new
  /\ life' = [o \in Objects |-> IF o \in Freed(dead)
                                THEN IF life[o] = "live" THEN "gone" ELSE "twice"
                                ELSE life[o]]
  /\ queued' = [m \in Messages |-> IF m \in Freed(dead) THEN NoObject ELSE queued[m]]
  /\ subscribed' = [s \in Subscriptions |-> subscribed[s] /\ s \notin dead]
  /\ open' = [c \in Connections |-> open[c] /\ c \notin dead]
  /\ Returns
  /\ UNCHANGED <<blocks, running, connection, callback, closure, building, fault>>

\* The copy constructor, that of a derived class included; also what moves do.
CopyHandle(h, g) ==
  /\ handle[h].built /\ Free(g) /\ SameType(g, h)
  /\ handle' = [handle EXCEPT ![g] = handle[h]]
  /\ Returns
  /\ UNCHANGED <<life, blocks, library, fault>>

AssignHandle(h, g) ==
  /\ handle[h].built /\ handle[g].built /\ SameType(g, h) /\ g # h
  /\ LetGo([handle EXCEPT ![g] = handle[h]])

DestroyHandle(h) ==
  /\ handle[h].built
  /\ LetGo([handle EXCEPT ![h] = Unbuilt])

-----------------------------------------------------------------------------
(* Making objects.                                                         *)

\* The library makes o, and the wrapper's handle h takes it.
Take(h, o) ==
  /\ life' = [life EXCEPT ![o] = "live"]
  /\ Reset(h, o)

New(h, o) == o \in Holds(h) /\ Free(h) /\ life[o] = "none"

Construct_Leak(h, o) ==
  /\ h \in PlainHandles \union MessageHandles /\ New(h, o)
  /\ Take(h, o)
  /\ \E status \in LibraryStatuses : (status = "OK" /\ Returns) \/ Throw_If_Not({"OK"}, status)
  /\ UNCHANGED <<library, fault>>

\* NatsOptions(), NatsInbox(), NatsMsg::Create.
Construct(h, o) ==
  /\ h \in PlainHandles \union MessageHandles /\ New(h, o)
  /\ \E status \in LibraryStatuses :
       \/ /\ status = "OK" /\ Returns /\ Take(h, o)
          /\ UNCHANGED <<library, fault>>
       \/ Throw_If_Not({"OK"}, status) /\ NoEffect

\* A connection that is not established yet is an object all the same
\* (external); accepted says whether the caller takes it.
ConnectWith(h, c, accepted) ==
  \E status \in accepted :
    /\ Returns /\ Take(h, c)
    /\ open' = [open EXCEPT ![c] = TRUE]
    /\ UNCHANGED <<queued, running, subscribed, connection, callback, closure, building, fault>>

\* The constructors, with options or with URLs, and ConnectTo.
Connect(h, c) ==
  /\ h \in ConnectionHandles /\ New(h, c)
  /\ \/ ConnectWith(h, c, {"OK"})
     \/ \E url \in {"null", "empty"} : ThrowIfNullOrEmpty(url) /\ NoEffect
     \/ \E status \in LibraryStatuses :
          /\ Throw_If_Not({"OK"}, status)
          /\ life' = IF status = "NOT_YET_CONNECTED" THEN [life EXCEPT ![c] = "live"] ELSE life
          /\ UNCHANGED <<blocks, handle, library, fault>>

TryConnect_Hollow(h, c) ==
  LET accepted == {"OK", "NOT_YET_CONNECTED"} IN
  /\ h \in ConnectionHandles /\ New(h, c)
  /\ \/ ConnectWith(h, c, LibraryStatuses \cap accepted)
     \/ \E status \in LibraryStatuses \ accepted :
          /\ Returns
          /\ handle' = [handle EXCEPT ![h] = Hollow]
          /\ UNCHANGED <<life, blocks, library, fault>>

TryConnect(h, c) ==
  LET accepted == {"OK", "NOT_YET_CONNECTED"} IN
  /\ h \in ConnectionHandles /\ New(h, c)
  /\ \/ ConnectWith(h, c, LibraryStatuses \cap accepted)
     \/ \E status \in LibraryStatuses \ accepted : Returns /\ NoEffect

\* Subscribe, SubscribeTimeout and SubscribeSync, and the constructors they use.
Subscribe(hc, h, s) ==
  /\ hc \in ConnectionHandles /\ handle[hc].built
  /\ h \in SubscriptionHandles /\ New(h, s)
  /\ \/ \E subject \in {"null", "some"} : ThrowIfNull(subject) /\ NoEffect
     \/ \E status \in LibraryStatuses : Throw_If_Not({"OK"}, status) /\ NoEffect
     \/ \E kind \in {"sync"} \union Callbacks :
          /\ open[handle[hc].obj]
          /\ Returns
          /\ life' = [life EXCEPT ![s] = "live"]
          /\ building' = [building EXCEPT ![s] = h]
          /\ subscribed' = [subscribed EXCEPT ![s] = TRUE]
          /\ connection' = [connection EXCEPT ![s] = handle[hc].obj]
          /\ callback' = [callback EXCEPT ![s] = kind]
          /\ closure' = [closure EXCEPT ![s] = IF kind \in {"override", "default"}
                                               THEN h ELSE NoObject]
          /\ UNCHANGED <<blocks, handle, queued, running, open, fault>>

\* The end of the constructor: the subscription delivers already.
Subscribed(s) ==
  /\ building[s] # NoObject
  /\ Reset(building[s], s)
  /\ building' = [building EXCEPT ![s] = NoObject]
  /\ Returns
  /\ UNCHANGED <<life, queued, running, subscribed, open, connection, callback, closure, fault>>

-----------------------------------------------------------------------------
(* Messages that arrive.                                                   *)

Active(s) == subscribed[s] /\ open[connection[s]]

\* The library makes a message and keeps it for a subscription (external).
Arrive(s, m) ==
  /\ Active(s) /\ life[m] = "none"
  /\ life' = [life EXCEPT ![m] = "live"]
  /\ queued' = [queued EXCEPT ![m] = s]
  /\ Returns
  /\ UNCHANGED <<blocks, handle, running, subscribed, open, connection, callback, closure, building, fault>>

\* The library's thread calls the callback, which then owns m (external).
Dispatch(s, m) ==
  /\ Active(s) /\ callback[s] # "sync"
  /\ queued[m] = s /\ running[s] = NoObject
  /\ queued' = [queued EXCEPT ![m] = NoObject]
  /\ running' = [running EXCEPT ![s] = m]
  /\ Returns
  /\ UNCHANGED <<life, blocks, handle, subscribed, open, connection, callback, closure, building, fault>>

\* A callback of the application wraps its message.
FromRaw(s, h) ==
  /\ running[s] # NoObject
  /\ h \in MessageHandles /\ ~handle[h].built
  /\ Reset(h, running[s])
  /\ running' = [running EXCEPT ![s] = NoObject]
  /\ Returns
  /\ UNCHANGED <<life, queued, subscribed, open, connection, callback, closure, building, fault>>

\* The static NatsMsgHandler calls the virtual one of the closure, which wraps
\* the message; where it is not overridden, or the constructor of the closure
\* still runs, it does nothing.  A closure of NULL is given to ThrowIfNull as
\* the name of a pointer that is not NULL.
NatsMsgHandler(s) ==
  LET built == closure[s] # NoObject /\ handle[closure[s]].built IN
  /\ running[s] # NoObject /\ callback[s] # "own"
  /\ \/ callback[s] = "override" /\ built /\ \E h \in MessageHandles : FromRaw(s, h)
     \/ /\ building[s] # NoObject \/ (callback[s] = "default" /\ built)
        /\ closure[s] # NoObject
        /\ running' = [running EXCEPT ![s] = NoObject]
        /\ Returns
        /\ UNCHANGED <<life, blocks, handle, queued, subscribed, open, connection,
                       callback, closure, building, fault>>
     \/ /\ ~built /\ (building[s] = NoObject \/ closure[s] = NoObject)
        /\ fault' = TRUE
        /\ Returns
        /\ UNCHANGED <<life, blocks, handle, library>>

\* A message of the queue, if there is one, goes to the handle g.
Receive(h, g) ==
  \E m \in Messages :
    /\ queued[m] = handle[h].obj /\ Active(handle[h].obj) /\ callback[handle[h].obj] = "sync"
    /\ queued' = [queued EXCEPT ![m] = NoObject]
    /\ Reset(g, m)
    /\ Returns
    /\ UNCHANGED <<life, running, subscribed, open, connection, callback, closure, building, fault>>

CanReceive(h, g) ==
  /\ h \in SubscriptionHandles /\ handle[h].built
  /\ g \in MessageHandles /\ ~handle[g].built

\* A timeout gives a hollow message.
NextMsg(h, g) ==
  /\ CanReceive(h, g)
  /\ \/ Receive(h, g)
     \/ /\ "TIMEOUT" \in LibraryStatuses /\ Active(handle[h].obj)
        /\ handle' = [handle EXCEPT ![g] = Hollow]
        /\ Returns
        /\ UNCHANGED <<life, blocks, library, fault>>
     \/ \E status \in LibraryStatuses : Throw_If_Not({"OK", "TIMEOUT"}, status) /\ NoEffect

\* The constructor that receives throws on a timeout.
NatsMsg(h, g) ==
  /\ CanReceive(h, g)
  /\ \/ Receive(h, g)
     \/ \E status \in LibraryStatuses : Throw_If_Not({"OK"}, status) /\ NoEffect

-----------------------------------------------------------------------------
(* Calls on an object.                                                     *)

Unsubscribe(h) ==
  /\ h \in SubscriptionHandles /\ handle[h].built
  /\ subscribed' = IF handle[h].obj = NoObject THEN subscribed
                   ELSE [subscribed EXCEPT ![handle[h].obj] = FALSE]
  /\ Returns
  /\ UNCHANGED <<life, blocks, handle, queued, running, open, connection, callback, closure, building, fault>>

Close(h) ==
  /\ h \in ConnectionHandles /\ handle[h].built
  /\ open' = IF handle[h].obj = NoObject THEN open
             ELSE [open EXCEPT ![handle[h].obj] = FALSE]
  /\ Returns
  /\ UNCHANGED <<life, blocks, handle, queued, running, subscribed, connection, callback, closure, building, fault>>

\* A call of the library that changes none of the objects modelled here, and one
\* of a Try function, which gives every status back.
CallLibrary(accepted) ==
  \E status \in LibraryStatuses :
    \/ status \in accepted /\ Returns
    \/ Throw_If_Not(accepted, status)

TryLibrary == Returns

IntMax == (IntMod \div 2) - 1

\* Data that is NULL, and a length that does not fit the int of the library.
BadData ==
  \/ \E data \in {"null", "some"} : ThrowIfNull(data)
  \/ \E length \in {IntMax, IntMax + 1} :
       length > IntMax /\ result' = Outcome("throws", "argument")

\* Publish and PublishString.
Publish(h) ==
  /\ h \in ConnectionHandles /\ handle[h].built
  /\ \/ \E subject \in {"null", "empty", "some"} : ThrowIfNullOrEmpty(subject)
     \/ BadData
     \/ CallLibrary({"OK"})
  /\ NoEffect

\* A status is a value here, but an argument is still refused with an exception.
TryPublish(h) ==
  /\ h \in ConnectionHandles /\ handle[h].built
  /\ \/ \E subject \in {"null", "empty", "some"} : ThrowIfNullOrEmpty(subject)
     \/ BadData
     \/ TryLibrary
  /\ NoEffect

\* PublishRequest and PublishRequestString: two names.
PublishRequest(h) ==
  /\ h \in ConnectionHandles /\ handle[h].built
  /\ \/ \E send, reply \in {"null", "empty", "some"} :
          ThrowIfNullOrEmpty(send) \/ ThrowIfNullOrEmpty(reply)
     \/ BadData
     \/ CallLibrary({"OK"})
  /\ NoEffect

\* PublishMsg and TryPublishMsg; the message stays with its handle.
PublishMsg(h, g) ==
  /\ h \in ConnectionHandles /\ handle[h].built
  /\ g \in MessageHandles /\ handle[g].built
  /\ \/ ThrowIfHollow(g)
     \/ handle[g].obj # NoObject /\ (CallLibrary({"OK"}) \/ TryLibrary)
  /\ NoEffect

\* The getters of a message (no status); SetHeader, AddHeader, DeleteHeader;
\* GetHeader and HasHeader, for which a missing key is no error.
UseMsg(g) ==
  /\ g \in MessageHandles /\ handle[g].built
  /\ \/ ThrowIfHollow(g)
     \/ /\ handle[g].obj # NoObject
        /\ Returns \/ CallLibrary({"OK"}) \/ CallLibrary({"OK", "NOT_FOUND"})
  /\ NoEffect

\* SetURL.
SetURL(h) ==
  /\ h \in PlainHandles /\ handle[h].built
  /\ \/ \E url \in {"null", "empty", "some"} : ThrowIfNullOrEmpty(url)
     \/ CallLibrary({"OK"})
  /\ NoEffect

\* The setters of NatsOptions without checks; FlushTimeout of a connection.
Configure(h) ==
  /\ h \in PlainHandles \union ConnectionHandles /\ handle[h].built
  /\ CallLibrary({"OK"})
  /\ NoEffect

-----------------------------------------------------------------------------
(* NatsOptions::SetServers.                                                *)

ToInt(n) == LET low == n % IntMod IN IF low > IntMax THEN low - IntMod ELSE low

CheckCongruenceCountAndList_NoSign(count, list) ==
  (count # 0 /\ list = "null") \/ (count = 0 /\ list # "null")

\* A negative count, and a list that is there or not against the count.
CheckCongruenceCountAndList(count, list) ==
  count < 0 \/ (count # 0 /\ list = "null") \/ (count = 0 /\ list # "null")

\* The size_t is compared with the least int, converted to size_t.
RefusedServers(asked, list) ==
  \/ asked > SizeMod - (IntMod \div 2)
  \/ CheckCongruenceCountAndList(ToInt(asked), list)

SetServers(h) ==
  /\ h \in PlainHandles /\ handle[h].built
  /\ \E asked \in 0 .. SizeMod - 1, list \in {"null", "some"} :
       \/ RefusedServers(asked, list) /\ result' = Outcome("throws", "argument")
       \/ /\ ~RefusedServers(asked, list)
          /\ \/ result' = [how |-> "returns", what |-> "OK", asked |-> asked, given |-> ToInt(asked)]
             \/ \E status \in LibraryStatuses : Throw_If_Not({"OK"}, status)
  /\ NoEffect

-----------------------------------------------------------------------------
Step ==
  \/ \E h \in Handles : DestroyHandle(h) \/ UseMsg(h) \/ Configure(h) \/ SetServers(h)
                      \/ Unsubscribe(h) \/ Close(h) \/ Publish(h)
                      \/ TryPublish(h) \/ PublishRequest(h) \/ SetURL(h)
  \/ \E h, g \in Handles : CopyHandle(h, g) \/ AssignHandle(h, g) \/ NextMsg(h, g)
                         \/ NatsMsg(h, g) \/ PublishMsg(h, g)
  \/ \E h \in Handles, o \in Objects : Construct(h, o) \/ Connect(h, o) \/ TryConnect(h, o)
  \/ \E hc, h \in Handles, s \in Subscriptions : Subscribe(hc, h, s)
  \/ \E s \in Subscriptions, m \in Messages : Arrive(s, m) \/ Dispatch(s, m)
  \/ \E s \in Subscriptions : Subscribed(s) \/ NatsMsgHandler(s)
  \/ \E s \in Subscriptions, h \in Handles : callback[s] = "own" /\ FromRaw(s, h)

Next == ~fault /\ Step

Spec == Init /\ [][Next]_vars

-----------------------------------------------------------------------------
(* Correctness.                                                            *)

Pointers == [built : BOOLEAN, obj : Objects \union {NoObject}, block : Nat]

TypeOK ==
  /\ life \in [Objects -> {"none", "live", "gone", "twice"}]
  /\ blocks \in [Objects -> Nat]
  /\ handle \in [Handles -> Pointers]
  /\ queued \in [Messages -> Subscriptions \union {NoObject}]
  /\ running \in [Subscriptions -> Messages \union {NoObject}]
  /\ subscribed \in [Subscriptions -> BOOLEAN]
  /\ open \in [Connections -> BOOLEAN]
  /\ connection \in [Subscriptions -> Connections \union {NoObject}]
  /\ callback \in [Subscriptions -> {"sync"} \union Callbacks]
  /\ closure \in [Subscriptions -> SubscriptionHandles \union {NoObject}]
  /\ building \in [Subscriptions -> SubscriptionHandles \union {NoObject}]
  /\ fault \in BOOLEAN

\* No dangling pointer and no second destruction: what a handle points to, what
\* is queued for a live subscription and what a callback has in hand are live.
NoDangling ==
  /\ \A o \in Objects : life[o] # "twice"
  /\ \A h \in Handles : handle[h].obj # NoObject => life[handle[h].obj] = "live"
  /\ \A m \in Messages : queued[m] # NoObject => life[m] = "live" /\ life[queued[m]] = "live"
  /\ \A s \in Subscriptions : running[s] # NoObject => life[running[s]] = "live"

\* Only a message handle is ever hollow: the calls on connections, subscriptions
\* and options, which do not check their pointer, never pass NULL on.
OnlyMessagesHollow ==
  \A h \in Handles \ MessageHandles : handle[h].built => handle[h].obj \in Holds(h)

\* A call that throws changes nothing, and when the library is the cause the
\* exception does not say OK.  The one exception is a connection that
\* is not established yet: the constructors throw and leave it alive.
ThrowChangesNothing ==
  [][result'.how = "throws" =>
       /\ result'.what # "OK"
       /\ UNCHANGED <<blocks, handle, library>>
       /\ \A o \in Objects :
            life'[o] # life[o] => o \in Connections /\ result'.what = "NOT_YET_CONNECTED"]_vars

\* Whatever a count below 2^32 is, SetServers gives the library that count or
\* throws, although it compares it with a wrong bound.
ServersCountKept == result.asked < IntMod => result.given = result.asked

\* What the static NatsMsgHandler throws about, "called with a NULL closure
\* pointer", does not come to a virtual call.
NullClosureRefused == ~(fault /\ \E s \in Subscriptions : running[s] # NoObject /\ callback[s] = "null")

HoldersOf(o) ==
  {h \in Handles : handle[h].obj = o}
  \union {h \in Handles : o \in Subscriptions /\ building[o] = h}
  \union {s \in Subscriptions : running[s] = o \/ (o \in Messages /\ queued[o] = s)}

MayBeLost ==
  (IF "NOT_YET_CONNECTED" \in LibraryStatuses THEN Connections ELSE {})
  \union (IF Callbacks \cap {"override", "default"} # {} THEN Messages ELSE {})

Seen(o) ==
  LET holders == HoldersOf(o) IN
  [phase |-> IF life[o] # "live" THEN life[o] ELSE IF holders = {} THEN "lost" ELSE "held",
   holders |-> holders]

Shared == INSTANCE SharedObjects WITH
  Holders <- Handles \union Subscriptions,
  shared <- [o \in Objects |-> Seen(o)]

\* The wrapper implements the specification of objects that are shared.
ImplementsShared == Shared!Spec
=============================================================================
