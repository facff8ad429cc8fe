-------------------------- MODULE NatsObjectsProofs --------------------------
(***************************************************************************)
(* Proofs about NatsObjects, for any number of objects and handles and any *)
(* statuses.                                                               *)
(*                                                                         *)
(* NoDangling is not inductive: that the destroyer of a block runs only    *)
(* when nobody points to its object needs that an object has one block.    *)
(* It has, because a message is wrapped only when it leaves the library,   *)
(* which has it in one place, the queue or a callback, and never again.    *)
(***************************************************************************)
EXTENDS NatsObjects, TLAPS

\* A handle that points to an object holds the one block of it.
BlockInv ==
  \A h \in Handles : handle[h].obj # NoObject =>
    /\ handle[h].built
    /\ handle[h].obj \in Holds(h)
    /\ handle[h].block = 1
    /\ blocks[handle[h].obj] = 1

\* What the library has in hand has not been wrapped.
UnwrappedInv ==
  /\ \A o \in Objects : life[o] = "none" => blocks[o] = 0
  /\ \A m \in Messages : queued[m] # NoObject => blocks[m] = 0
  /\ \A s \in Subscriptions :
       /\ running[s] # NoObject => blocks[running[s]] = 0
       /\ building[s] # NoObject => blocks[s] = 0

\* It has it in one place.
OnePlaceInv ==
  \A s \in Subscriptions : running[s] # NoObject =>
    /\ queued[running[s]] = NoObject
    /\ \A t \in Subscriptions : running[t] = running[s] => t = s

\* A handle that is being built is not in use, and has one constructor.
BuildingInv ==
  \A s \in Subscriptions : building[s] # NoObject =>
    /\ ~handle[building[s]].built
    /\ life[s] = "live"
    /\ \A t \in Subscriptions : building[t] = building[s] => t = s

\* A subscription that delivers is alive and has a connection.
SubscribedInv ==
  \A s \in Subscriptions : subscribed[s] => life[s] = "live" /\ connection[s] \in Connections

\* Only a callback that is a member has a closure.
ClosureInv ==
  \A s \in Subscriptions : closure[s] # NoObject => callback[s] \in {"override", "default"}

IInv == /\ TypeOK /\ BlockInv /\ UnwrappedInv /\ OnePlaceInv /\ BuildingInv
        /\ SubscribedInv /\ ClosureInv /\ NoDangling /\ OnlyMessagesHollow

-----------------------------------------------------------------------------
(* One lemma for each kind of effect that an action has.                   *)

\* A call that ends without an effect.
LEMMA NothingChanges ==
  ASSUME IInv, NoEffect \/ UNCHANGED <<life, blocks, handle, library>>, fault' \in BOOLEAN
  PROVE  IInv'
  <1> USE NatsAssumption DEF IInv, NoEffect, library
  <1>1. TypeOK'
    BY DEF TypeOK, Pointers
  <1>2. BlockInv'
    BY DEF TypeOK, Pointers, BlockInv, UnwrappedInv
  <1>3. UnwrappedInv'
    BY DEF TypeOK, Pointers, UnwrappedInv, BlockInv, NoDangling, OnePlaceInv, BuildingInv
  <1>4. OnePlaceInv'
    BY DEF TypeOK, OnePlaceInv, NoDangling
  <1>5. BuildingInv'
    BY DEF TypeOK, Pointers, BuildingInv, BlockInv
  <1>6. SubscribedInv'
    BY DEF TypeOK, Pointers, SubscribedInv, OnlyMessagesHollow
  <1>7. NoDangling'
    BY DEF TypeOK, Pointers, NoDangling, BlockInv, UnwrappedInv
  <1>8. OnlyMessagesHollow'
    BY DEF TypeOK, Pointers, OnlyMessagesHollow
  <1>9. ClosureInv'
    BY DEF TypeOK, ClosureInv
  <1> QED
    BY <1>1, <1>2, <1>3, <1>4, <1>5, <1>6, <1>7, <1>8, <1>9

\* A handle is copied into a free one.
LEMMA Copied ==
  ASSUME IInv, NEW h \in Handles, NEW g \in Handles, CopyHandle(h, g)
  PROVE  IInv'
  <1> USE NatsAssumption DEF IInv, CopyHandle, SameType, Free, Holds, Handles, library
  <1>1. TypeOK'
    BY DEF TypeOK, Pointers
  <1>2. BlockInv'
    BY DEF TypeOK, Pointers, BlockInv, UnwrappedInv
  <1>3. UnwrappedInv'
    BY DEF TypeOK, Pointers, UnwrappedInv, BlockInv, NoDangling, OnePlaceInv, BuildingInv
  <1>4. OnePlaceInv'
    BY DEF TypeOK, OnePlaceInv, NoDangling
  <1>5. BuildingInv'
    BY DEF TypeOK, Pointers, BuildingInv, BlockInv
  <1>6. SubscribedInv'
    BY DEF TypeOK, Pointers, SubscribedInv, OnlyMessagesHollow
  <1>7. NoDangling'
    BY DEF TypeOK, Pointers, NoDangling, BlockInv, UnwrappedInv
  <1>8. OnlyMessagesHollow'
    BY DEF TypeOK, Pointers, OnlyMessagesHollow
  <1>9. ClosureInv'
    BY DEF TypeOK, ClosureInv
  <1> QED
    BY <1>1, <1>2, <1>3, <1>4, <1>5, <1>6, <1>7, <1>8, <1>9

\* A new object in a free handle.
LEMMA Taken ==
  ASSUME IInv, NEW h \in Handles, NEW o \in Objects, New(h, o), Take(h, o),
         UNCHANGED <<queued, running, subscribed, connection, callback, closure, building, fault>>,
         open' \in [Connections -> BOOLEAN]
  PROVE  IInv'
  <1> USE NatsAssumption DEF IInv, New, Take, Reset, Pointer, Free, Holds, Objects, Handles
  <1>1. TypeOK'
    BY DEF TypeOK, Pointers
  <1>2. BlockInv'
    BY DEF TypeOK, Pointers, BlockInv, UnwrappedInv
  <1>3. UnwrappedInv'
    BY DEF TypeOK, Pointers, UnwrappedInv, BlockInv, NoDangling, OnePlaceInv, BuildingInv
  <1>4. OnePlaceInv'
    BY DEF TypeOK, OnePlaceInv, NoDangling
  <1>5. BuildingInv'
    BY DEF TypeOK, Pointers, BuildingInv, BlockInv
  <1>6. SubscribedInv'
    BY DEF TypeOK, Pointers, SubscribedInv, OnlyMessagesHollow
  <1>7. NoDangling'
    BY DEF TypeOK, Pointers, NoDangling, BlockInv, UnwrappedInv
  <1>8. OnlyMessagesHollow'
    BY DEF TypeOK, Pointers, OnlyMessagesHollow
  <1>9. ClosureInv'
    BY DEF TypeOK, ClosureInv
  <1> QED
    BY <1>1, <1>2, <1>3, <1>4, <1>5, <1>6, <1>7, <1>8, <1>9

\* A connection that nobody takes.
LEMMA LeftAlone ==
  ASSUME IInv, NEW c \in Connections, life[c] = "none", life' = [life EXCEPT ![c] = "live"],
         UNCHANGED <<blocks, handle, library, fault>>
  PROVE  IInv'
  <1> USE NatsAssumption DEF IInv, library, Objects
  <1>1. TypeOK'
    BY DEF TypeOK, Pointers
  <1>2. BlockInv'
    BY DEF TypeOK, Pointers, BlockInv, UnwrappedInv
  <1>3. UnwrappedInv'
    BY DEF TypeOK, Pointers, UnwrappedInv, BlockInv, NoDangling, OnePlaceInv, BuildingInv
  <1>4. OnePlaceInv'
    BY DEF TypeOK, OnePlaceInv, NoDangling
  <1>5. BuildingInv'
    BY DEF TypeOK, Pointers, BuildingInv, BlockInv
  <1>6. SubscribedInv'
    BY DEF TypeOK, Pointers, SubscribedInv, OnlyMessagesHollow
  <1>7. NoDangling'
    BY DEF TypeOK, Pointers, NoDangling, BlockInv, UnwrappedInv
  <1>8. OnlyMessagesHollow'
    BY DEF TypeOK, Pointers, OnlyMessagesHollow
  <1>9. ClosureInv'
    BY DEF TypeOK, ClosureInv
  <1> QED
    BY <1>1, <1>2, <1>3, <1>4, <1>5, <1>6, <1>7, <1>8, <1>9

\* A subscription whose constructor has not ended.
LEMMA SubscriptionMade ==
  ASSUME IInv, NEW hc \in Handles, NEW h \in Handles, NEW s \in Subscriptions, NEW kind \in {"sync"} \union Callbacks,
         hc \in ConnectionHandles, handle[hc].built, h \in SubscriptionHandles, New(h, s),
         life' = [life EXCEPT ![s] = "live"],
         building' = [building EXCEPT ![s] = h],
         subscribed' = [subscribed EXCEPT ![s] = TRUE],
         connection' = [connection EXCEPT ![s] = handle[hc].obj],
         callback' = [callback EXCEPT ![s] = kind],
         closure' = [closure EXCEPT ![s] = IF kind \in {"override", "default"}
                                           THEN h ELSE NoObject],
         UNCHANGED <<blocks, handle, queued, running, open, fault>>
  PROVE  IInv'
  <1> USE NatsAssumption DEF IInv, New, Objects, Handles, Holds, Free, library
  <1>0. handle[hc].obj \in Connections
    BY DEF OnlyMessagesHollow
  <1>1. TypeOK'
    BY <1>0 DEF TypeOK, Pointers
  <1>2. BlockInv'
    BY DEF TypeOK, Pointers, BlockInv, UnwrappedInv
  <1>3. UnwrappedInv'
    BY DEF TypeOK, Pointers, UnwrappedInv, BlockInv, NoDangling, OnePlaceInv, BuildingInv
  <1>4. OnePlaceInv'
    BY DEF TypeOK, OnePlaceInv, NoDangling
  <1>5. BuildingInv'
    BY DEF TypeOK, Pointers, BuildingInv, BlockInv
  <1>6. SubscribedInv'
    BY DEF TypeOK, Pointers, SubscribedInv, OnlyMessagesHollow
  <1>7. NoDangling'
    BY DEF TypeOK, Pointers, NoDangling, BlockInv, UnwrappedInv, BuildingInv
  <1>8. OnlyMessagesHollow'
    BY DEF TypeOK, Pointers, OnlyMessagesHollow
  <1>9. ClosureInv'
    BY DEF TypeOK, ClosureInv
  <1> QED
    BY <1>1, <1>2, <1>3, <1>4, <1>5, <1>6, <1>7, <1>8, <1>9

\* Its constructor ends.
LEMMA ConstructorEnds ==
  ASSUME IInv, NEW s \in Subscriptions, Subscribed(s)
  PROVE  IInv'
  <1> USE NatsAssumption DEF IInv, Subscribed, Reset, Pointer, Objects, Handles, Holds, Free, library
  <1>1. TypeOK'
    BY DEF TypeOK, Pointers
  <1>2. BlockInv'
    BY DEF TypeOK, Pointers, BlockInv, UnwrappedInv
  <1>3. UnwrappedInv'
    BY DEF TypeOK, Pointers, UnwrappedInv, BlockInv, NoDangling, OnePlaceInv, BuildingInv
  <1>4. OnePlaceInv'
    BY DEF TypeOK, OnePlaceInv, NoDangling
  <1>5. BuildingInv'
    BY DEF TypeOK, Pointers, BuildingInv, BlockInv
  <1>6. SubscribedInv'
    BY DEF TypeOK, Pointers, SubscribedInv, OnlyMessagesHollow
  <1>7. NoDangling'
    BY DEF TypeOK, Pointers, NoDangling, BlockInv, UnwrappedInv, BuildingInv
  <1>8. OnlyMessagesHollow'
    BY DEF TypeOK, Pointers, OnlyMessagesHollow
  <1>9. ClosureInv'
    BY DEF TypeOK, ClosureInv
  <1> QED
    BY <1>1, <1>2, <1>3, <1>4, <1>5, <1>6, <1>7, <1>8, <1>9

\* A message arrives.
LEMMA Arrived ==
  ASSUME IInv, NEW s \in Subscriptions, NEW m \in Messages, Arrive(s, m)
  PROVE  IInv'
  <1> USE NatsAssumption DEF IInv, Arrive, Active, Objects, Handles, Holds, Free, library
  <1>1. TypeOK'
    BY DEF TypeOK, Pointers
  <1>2. BlockInv'
    BY DEF TypeOK, Pointers, BlockInv, UnwrappedInv
  <1>3. UnwrappedInv'
    BY DEF TypeOK, Pointers, UnwrappedInv, BlockInv, NoDangling, OnePlaceInv, BuildingInv
  <1>4. OnePlaceInv'
    BY DEF TypeOK, OnePlaceInv, NoDangling
  <1>5. BuildingInv'
    BY DEF TypeOK, Pointers, BuildingInv, BlockInv
  <1>6. SubscribedInv'
    BY DEF TypeOK, Pointers, SubscribedInv, OnlyMessagesHollow
  <1>7. NoDangling'
    BY DEF TypeOK, Pointers, NoDangling, BlockInv, UnwrappedInv, SubscribedInv
  <1>8. OnlyMessagesHollow'
    BY DEF TypeOK, Pointers, OnlyMessagesHollow
  <1>9. ClosureInv'
    BY DEF TypeOK, ClosureInv
  <1> QED
    BY <1>1, <1>2, <1>3, <1>4, <1>5, <1>6, <1>7, <1>8, <1>9

\* A message is given to a callback.
LEMMA Dispatched ==
  ASSUME IInv, NEW s \in Subscriptions, NEW m \in Messages, Dispatch(s, m)
  PROVE  IInv'
  <1> USE NatsAssumption DEF IInv, Dispatch, Active, Objects, Handles, Holds, Free, library
  <1>1. TypeOK'
    BY DEF TypeOK, Pointers
  <1>2. BlockInv'
    BY DEF TypeOK, Pointers, BlockInv, UnwrappedInv
  <1>3. UnwrappedInv'
    BY DEF TypeOK, Pointers, UnwrappedInv, BlockInv, NoDangling, OnePlaceInv, BuildingInv
  <1>4. OnePlaceInv'
    BY DEF TypeOK, OnePlaceInv, NoDangling
  <1>5. BuildingInv'
    BY DEF TypeOK, Pointers, BuildingInv, BlockInv
  <1>6. SubscribedInv'
    BY DEF TypeOK, Pointers, SubscribedInv, OnlyMessagesHollow
  <1>7. NoDangling'
    BY DEF TypeOK, Pointers, NoDangling, BlockInv, UnwrappedInv, BuildingInv
  <1>8. OnlyMessagesHollow'
    BY DEF TypeOK, Pointers, OnlyMessagesHollow
  <1>9. ClosureInv'
    BY DEF TypeOK, ClosureInv
  <1> QED
    BY <1>1, <1>2, <1>3, <1>4, <1>5, <1>6, <1>7, <1>8, <1>9

\* A callback wraps its message.
LEMMA Wrapped ==
  ASSUME IInv, NEW s \in Subscriptions, NEW h \in Handles, FromRaw(s, h)
  PROVE  IInv'
  <1> USE NatsAssumption DEF IInv, FromRaw, Reset, Pointer, Objects, Handles, Holds, Free, library
  <1>1. TypeOK'
    BY DEF TypeOK, Pointers
  <1>2. BlockInv'
    BY DEF TypeOK, Pointers, BlockInv, UnwrappedInv
  <1>3. UnwrappedInv'
    BY DEF TypeOK, Pointers, UnwrappedInv, BlockInv, NoDangling, OnePlaceInv, BuildingInv
  <1>4. OnePlaceInv'
    BY DEF TypeOK, OnePlaceInv, NoDangling
  <1>5. BuildingInv'
    BY DEF TypeOK, Pointers, BuildingInv, BlockInv
  <1>6. SubscribedInv'
    BY DEF TypeOK, Pointers, SubscribedInv, OnlyMessagesHollow
  <1>7. NoDangling'
    BY DEF TypeOK, Pointers, NoDangling, BlockInv, UnwrappedInv, BuildingInv
  <1>8. OnlyMessagesHollow'
    BY DEF TypeOK, Pointers, OnlyMessagesHollow
  <1>9. ClosureInv'
    BY DEF TypeOK, ClosureInv
  <1> QED
    BY <1>1, <1>2, <1>3, <1>4, <1>5, <1>6, <1>7, <1>8, <1>9

\* A handler does nothing with its message.
LEMMA Dropped ==
  ASSUME IInv, NEW s \in Subscriptions, running' = [running EXCEPT ![s] = NoObject],
         UNCHANGED <<life, blocks, handle, queued, subscribed, open, connection,
                     callback, closure, building, fault>>
  PROVE  IInv'
  <1> USE NatsAssumption DEF IInv, Objects, Handles, Holds, Free, library
  <1>1. TypeOK'
    BY DEF TypeOK, Pointers
  <1>2. BlockInv'
    BY DEF TypeOK, Pointers, BlockInv, UnwrappedInv
  <1>3. UnwrappedInv'
    BY DEF TypeOK, Pointers, UnwrappedInv, BlockInv, NoDangling, OnePlaceInv, BuildingInv
  <1>4. OnePlaceInv'
    BY DEF TypeOK, OnePlaceInv, NoDangling
  <1>5. BuildingInv'
    BY DEF TypeOK, Pointers, BuildingInv, BlockInv
  <1>6. SubscribedInv'
    BY DEF TypeOK, Pointers, SubscribedInv, OnlyMessagesHollow
  <1>7. NoDangling'
    BY DEF TypeOK, Pointers, NoDangling, BlockInv, UnwrappedInv, BuildingInv
  <1>8. OnlyMessagesHollow'
    BY DEF TypeOK, Pointers, OnlyMessagesHollow
  <1>9. ClosureInv'
    BY DEF TypeOK, ClosureInv
  <1> QED
    BY <1>1, <1>2, <1>3, <1>4, <1>5, <1>6, <1>7, <1>8, <1>9

\* A message is received.
LEMMA Received ==
  ASSUME IInv, NEW h \in Handles, NEW g \in Handles, CanReceive(h, g), Receive(h, g)
  PROVE  IInv'
  <1> USE NatsAssumption DEF IInv, CanReceive, Active, Reset, Pointer,
                             Objects, Handles, Holds, Free, library
  <1>a. PICK m \in Messages :
          /\ queued[m] = handle[h].obj
          /\ queued' = [queued EXCEPT ![m] = NoObject]
          /\ Reset(g, m)
          /\ UNCHANGED <<life, running, subscribed, open, connection, callback, closure,
                         building, fault>>
    BY DEF Receive
  <1>b. queued[m] \in Subscriptions
    BY <1>a DEF OnlyMessagesHollow
  <1>c. life[m] = "live" /\ blocks[m] = 0
    BY <1>b DEF UnwrappedInv, NoDangling
  <1>1. TypeOK'
    BY <1>a, <1>b, <1>c DEF TypeOK, Pointers
  <1>2. BlockInv'
    BY <1>a, <1>b, <1>c DEF TypeOK, Pointers, BlockInv, UnwrappedInv
  <1>3. UnwrappedInv'
    BY <1>a, <1>b, <1>c DEF TypeOK, Pointers, UnwrappedInv, BlockInv, NoDangling, OnePlaceInv, BuildingInv
  <1>4. OnePlaceInv'
    BY <1>a, <1>b, <1>c DEF TypeOK, OnePlaceInv, NoDangling
  <1>5. BuildingInv'
    BY <1>a, <1>b, <1>c DEF TypeOK, Pointers, BuildingInv, BlockInv
  <1>6. SubscribedInv'
    BY <1>a, <1>b, <1>c DEF TypeOK, Pointers, SubscribedInv, OnlyMessagesHollow
  <1>7. NoDangling'
    BY <1>a, <1>b, <1>c DEF TypeOK, Pointers, NoDangling, BlockInv, UnwrappedInv, BuildingInv
  <1>8. OnlyMessagesHollow'
    BY <1>a, <1>b, <1>c DEF TypeOK, Pointers, OnlyMessagesHollow
  <1>9. ClosureInv'
    BY <1>a DEF TypeOK, ClosureInv
  <1> QED
    BY <1>1, <1>2, <1>3, <1>4, <1>5, <1>6, <1>7, <1>8, <1>9

\* A timeout gives a hollow message.
LEMMA Hollowed ==
  ASSUME IInv, NEW g \in Handles, g \in MessageHandles, ~handle[g].built,
         handle' = [handle EXCEPT ![g] = Hollow],
         UNCHANGED <<life, blocks, library, fault>>
  PROVE  IInv'
  <1> USE NatsAssumption DEF IInv, Hollow, Objects, Handles, Holds, Free, library
  <1>1. TypeOK'
    BY DEF TypeOK, Pointers
  <1>2. BlockInv'
    BY DEF TypeOK, Pointers, BlockInv, UnwrappedInv
  <1>3. UnwrappedInv'
    BY DEF TypeOK, Pointers, UnwrappedInv, BlockInv, NoDangling, OnePlaceInv, BuildingInv
  <1>4. OnePlaceInv'
    BY DEF TypeOK, OnePlaceInv, NoDangling
  <1>5. BuildingInv'
    BY DEF TypeOK, Pointers, BuildingInv, BlockInv
  <1>6. SubscribedInv'
    BY DEF TypeOK, Pointers, SubscribedInv, OnlyMessagesHollow
  <1>7. NoDangling'
    BY DEF TypeOK, Pointers, NoDangling, BlockInv, UnwrappedInv, BuildingInv
  <1>8. OnlyMessagesHollow'
    BY DEF TypeOK, Pointers, OnlyMessagesHollow
  <1>9. ClosureInv'
    BY DEF TypeOK, ClosureInv
  <1> QED
    BY <1>1, <1>2, <1>3, <1>4, <1>5, <1>6, <1>7, <1>8, <1>9

\* A subscription ends.
LEMMA Unsubscribed ==
  ASSUME IInv, NEW h \in Handles, Unsubscribe(h)
  PROVE  IInv'
  <1> USE NatsAssumption DEF IInv, Unsubscribe, Objects, Handles, Holds, Free, library
  <1>1. TypeOK'
    BY DEF TypeOK, Pointers
  <1>2. BlockInv'
    BY DEF TypeOK, Pointers, BlockInv, UnwrappedInv
  <1>3. UnwrappedInv'
    BY DEF TypeOK, Pointers, UnwrappedInv, BlockInv, NoDangling, OnePlaceInv, BuildingInv
  <1>4. OnePlaceInv'
    BY DEF TypeOK, OnePlaceInv, NoDangling
  <1>5. BuildingInv'
    BY DEF TypeOK, Pointers, BuildingInv, BlockInv
  <1>6. SubscribedInv'
    BY DEF TypeOK, Pointers, SubscribedInv, OnlyMessagesHollow
  <1>7. NoDangling'
    BY DEF TypeOK, Pointers, NoDangling, BlockInv, UnwrappedInv, BuildingInv
  <1>8. OnlyMessagesHollow'
    BY DEF TypeOK, Pointers, OnlyMessagesHollow
  <1>9. ClosureInv'
    BY DEF TypeOK, ClosureInv
  <1> QED
    BY <1>1, <1>2, <1>3, <1>4, <1>5, <1>6, <1>7, <1>8, <1>9

\* A connection is closed.
LEMMA Closed ==
  ASSUME IInv, NEW h \in Handles, Close(h)
  PROVE  IInv'
  <1> USE NatsAssumption DEF IInv, Close, Objects, Handles, Holds, Free, library
  <1>1. TypeOK'
    BY DEF TypeOK, Pointers
  <1>2. BlockInv'
    BY DEF TypeOK, Pointers, BlockInv, UnwrappedInv
  <1>3. UnwrappedInv'
    BY DEF TypeOK, Pointers, UnwrappedInv, BlockInv, NoDangling, OnePlaceInv, BuildingInv
  <1>4. OnePlaceInv'
    BY DEF TypeOK, OnePlaceInv, NoDangling
  <1>5. BuildingInv'
    BY DEF TypeOK, Pointers, BuildingInv, BlockInv
  <1>6. SubscribedInv'
    BY DEF TypeOK, Pointers, SubscribedInv, OnlyMessagesHollow
  <1>7. NoDangling'
    BY DEF TypeOK, Pointers, NoDangling, BlockInv, UnwrappedInv, BuildingInv
  <1>8. OnlyMessagesHollow'
    BY DEF TypeOK, Pointers, OnlyMessagesHollow
  <1>9. ClosureInv'
    BY DEF TypeOK, ClosureInv
  <1> QED
    BY <1>1, <1>2, <1>3, <1>4, <1>5, <1>6, <1>7, <1>8, <1>9

-----------------------------------------------------------------------------
(* Handles that are destroyed, and handles that are assigned.              *)

\* Handles become new by losing what they point to, or by sharing another's.
Shares(new) ==
  /\ new \in [Handles -> Pointers]
  /\ \A g \in Handles :
       \/ new[g] = Unbuilt \/ new[g] = handle[g]
       \/ handle[g].built /\ \E h \in Handles : SameType(g, h) /\ new[g] = handle[h]

\* What is abandoned is alive, and nothing points to it any more.
LEMMA AbandonedObjects ==
  ASSUME IInv, NEW new, Shares(new)
  PROVE  /\ \A o \in Abandoned(new) : /\ o \in Objects /\ life[o] = "live" /\ blocks[o] = 1
                                      /\ \A g \in Handles : new[g].obj # o
         /\ \A g \in Handles : new[g].obj # NoObject =>
              /\ life[new[g].obj] = "live" /\ blocks[new[g].obj] = 1
              /\ new[g].block = 1 /\ new[g].built /\ new[g].obj \in Holds(g)
  <1> USE NatsAssumption DEF IInv
  <1>1. \A g \in Handles : new[g].obj # NoObject =>
          /\ life[new[g].obj] = "live" /\ blocks[new[g].obj] = 1
          /\ new[g].block = 1 /\ new[g].built /\ new[g].obj \in Holds(g)
    BY DEF Shares, BlockInv, NoDangling, SameType, Holds, Unbuilt
  <1>2. ASSUME NEW o \in Abandoned(new)
        PROVE  /\ o \in Objects /\ life[o] = "live" /\ blocks[o] = 1
               /\ \A g \in Handles : new[g].obj # o
    <2>1. PICK h \in Handles : /\ handle[h].obj = o
                               /\ \A g \in Handles : new[g].obj = o => new[g].block # handle[h].block
      BY DEF Abandoned
    <2>2. o \in Objects /\ life[o] = "live" /\ handle[h].block = 1 /\ blocks[o] = 1
      BY <2>1 DEF Abandoned, BlockInv, NoDangling
    <2> QED
      BY <1>1, <2>1, <2>2
  <1> QED
    BY <1>1, <1>2

LEMMA LetGoStep ==
  ASSUME IInv, NEW new, Shares(new), LetGo(new)
  PROVE  IInv'
  <1> DEFINE dead == Abandoned(new)
  <1> USE NatsAssumption DEF IInv
  <1>1. /\ handle' = new
        /\ life' = [o \in Objects |-> IF o \in Freed(dead)
                                      THEN IF life[o] = "live" THEN "gone" ELSE "twice"
                                      ELSE life[o]]
        /\ queued' = [m \in Messages |-> IF m \in Freed(dead) THEN NoObject ELSE queued[m]]
        /\ subscribed' = [s \in Subscriptions |-> subscribed[s] /\ s \notin dead]
        /\ open' = [c \in Connections |-> open[c] /\ c \notin dead]
        /\ UNCHANGED <<blocks, running, connection, callback, closure, building, fault>>
    BY DEF LetGo
  <1>2. \A o \in dead : /\ o \in Objects /\ life[o] = "live" /\ blocks[o] = 1
                        /\ \A g \in Handles : new[g].obj # o
    BY AbandonedObjects
  <1>3. \A g \in Handles : new[g].obj # NoObject =>
          /\ life[new[g].obj] = "live" /\ blocks[new[g].obj] = 1
          /\ new[g].block = 1 /\ new[g].built /\ new[g].obj \in Holds(g)
    BY AbandonedObjects
  <1>4. \A o \in Freed(dead) : life[o] = "live" /\ \A g \in Handles : new[g].obj # o
    <2> SUFFICES ASSUME NEW m \in Messages, queued[m] \in dead
                 PROVE  life[m] = "live" /\ \A g \in Handles : new[g].obj # m
      BY <1>2 DEF Freed
    <2>1. queued[m] # NoObject
      BY <1>2
    <2>2. m # NoObject /\ life[m] = "live" /\ blocks[m] = 0
      BY <2>1 DEF NoDangling, UnwrappedInv, Objects
    <2> QED
      BY <1>3, <2>2
  <1>5. \A m \in Messages : m \in Freed(dead) /\ blocks[m] = 0 => queued[m] \in dead
    BY <1>2 DEF Freed
  <1> HIDE DEF dead
  <1>6. TypeOK'
    BY <1>1 DEF TypeOK, Shares
  <1>7. BlockInv'
    BY <1>1, <1>3 DEF BlockInv
  <1>8. UnwrappedInv'
    BY <1>1, <1>4 DEF TypeOK, UnwrappedInv
  <1>9. OnePlaceInv'
    BY <1>1 DEF TypeOK, OnePlaceInv
  <1>10. BuildingInv'
    <2>1. \A s \in Subscriptions : building[s] # NoObject => s \notin Freed(dead)
      BY <1>2 DEF BuildingInv, UnwrappedInv, Freed
    <2>2. \A s \in Subscriptions : building[s] # NoObject => ~new[building[s]].built
      BY DEF BuildingInv, Shares, Unbuilt, TypeOK, Handles
    <2> QED
      BY <1>1, <2>1, <2>2 DEF BuildingInv, Objects
  <1>11. SubscribedInv'
    BY <1>1 DEF TypeOK, SubscribedInv, Freed, Objects
  <1>12. NoDangling'
    <2>1. \A o \in Objects : life'[o] # "twice"
      BY <1>1, <1>4 DEF NoDangling
    <2>2. \A h \in Handles : handle'[h].obj # NoObject => life'[handle'[h].obj] = "live"
      BY <1>1, <1>3, <1>4 DEF Shares, Pointers
    <2>3. ASSUME NEW m \in Messages, queued'[m] # NoObject
          PROVE  life'[m] = "live" /\ life'[queued'[m]] = "live"
      <3>1. m \notin Freed(dead) /\ queued'[m] = queued[m] /\ queued[m] \in Subscriptions
        BY <1>1, <2>3 DEF TypeOK
      <3>2. queued[m] \notin Freed(dead)
        BY <3>1 DEF Freed
      <3> QED
        BY <1>1, <3>1, <3>2, <2>3 DEF NoDangling, Objects
    <2>4. ASSUME NEW s \in Subscriptions, running'[s] # NoObject
          PROVE  life'[running'[s]] = "live"
      <3>1. /\ running'[s] = running[s] /\ running[s] \in Messages
            /\ blocks[running[s]] = 0 /\ queued[running[s]] = NoObject
        BY <1>1, <2>4 DEF TypeOK, UnwrappedInv, OnePlaceInv
      <3>2. running[s] \notin Freed(dead)
        BY <1>2, <1>5, <3>1
      <3> QED
        BY <1>1, <3>1, <3>2, <2>4 DEF NoDangling, Objects
    <2> QED
      BY <2>1, <2>2, <2>3, <2>4 DEF NoDangling
  <1>13. OnlyMessagesHollow'
    BY <1>1 DEF OnlyMessagesHollow, Shares, SameType, Unbuilt, Holds, Handles
  <1>14. ClosureInv'
    BY <1>1 DEF ClosureInv
  <1> QED
    BY <1>6, <1>7, <1>8, <1>9, <1>10, <1>11, <1>12, <1>13, <1>14

-----------------------------------------------------------------------------
LEMMA InitStep == Init => IInv
  <1> SUFFICES ASSUME Init
               PROVE  IInv
    OBVIOUS
  <1> USE NatsAssumption DEF Init, Unbuilt
  <1>1. TypeOK /\ NoDangling
    BY DEF TypeOK, Pointers, NoDangling
  <1>2. BlockInv /\ UnwrappedInv /\ OnePlaceInv
    BY DEF BlockInv, UnwrappedInv, OnePlaceInv
  <1>3. BuildingInv /\ SubscribedInv /\ ClosureInv /\ OnlyMessagesHollow
    BY DEF BuildingInv, SubscribedInv, ClosureInv, OnlyMessagesHollow
  <1> QED
    BY <1>1, <1>2, <1>3 DEF IInv

\* Destroying and assigning are the two ways to let go.
LEMMA Sharing ==
  ASSUME IInv, NEW h \in Handles
  PROVE  /\ Shares([handle EXCEPT ![h] = Unbuilt])
         /\ \A g \in Handles : handle[g].built /\ SameType(g, h) =>
              Shares([handle EXCEPT ![g] = handle[h]])
  <1> USE NatsAssumption DEF IInv
  <1>1. handle \in [Handles -> Pointers] /\ Unbuilt \in Pointers
    BY DEF TypeOK, Unbuilt, Pointers
  <1> QED
    BY <1>1 DEF Shares, SameType

LEMMA NextStep == IInv /\ [Next]_vars => IInv'
  <1> SUFFICES ASSUME IInv, [Next]_vars
               PROVE  IInv'
    OBVIOUS
  <1> USE NatsAssumption
  <1>f. fault \in BOOLEAN
    BY DEF IInv, TypeOK
  <1>0. CASE UNCHANGED vars
    BY <1>0, <1>f, NothingChanges DEF vars
  <1>1. ASSUME NEW h \in Handles,
               UseMsg(h) \/ Configure(h) \/ SetServers(h) \/ Publish(h)
                 \/ TryPublish(h) \/ PublishRequest(h) \/ SetURL(h)
        PROVE  IInv'
    BY <1>1, <1>f, NothingChanges 
       DEF UseMsg, Configure, SetServers, Publish, TryPublish, PublishRequest, SetURL, NoEffect
  <1>2. ASSUME NEW h \in Handles, NEW g \in Handles, PublishMsg(h, g)
        PROVE  IInv'
    BY <1>2, <1>f, NothingChanges DEF PublishMsg, NoEffect
  <1>3. ASSUME NEW h \in Handles, DestroyHandle(h)
        PROVE  IInv'
    BY <1>3, Sharing, LetGoStep DEF DestroyHandle
  <1>4. ASSUME NEW h \in Handles, NEW g \in Handles, AssignHandle(h, g)
        PROVE  IInv'
    BY <1>4, Sharing, LetGoStep DEF AssignHandle
  <1>5. ASSUME NEW h \in Handles, Unsubscribe(h) \/ Close(h)
        PROVE  IInv'
    BY <1>5, Unsubscribed, Closed
  <1>6. ASSUME NEW h \in Handles, NEW g \in Handles, CopyHandle(h, g)
        PROVE  IInv'
    BY <1>6, Copied
  <1>7. ASSUME NEW h \in Handles, NEW g \in Handles, NextMsg(h, g) \/ NatsMsg(h, g)
        PROVE  IInv'
    BY <1>7, <1>f, Received, Hollowed, NothingChanges DEF NextMsg, NatsMsg, CanReceive, NoEffect
  <1>8. ASSUME NEW h \in Handles, NEW o \in Objects, Construct(h, o)
        PROVE  IInv'
    <2>1. open \in [Connections -> BOOLEAN]
      BY DEF IInv, TypeOK
    <2> QED
      BY <1>8, <1>f, <2>1, Taken, NothingChanges DEF Construct, NoEffect, library
  <1>9. ASSUME NEW h \in Handles, NEW o \in Objects, Connect(h, o) \/ TryConnect(h, o)
        PROVE  IInv'
    <2>1. h \in ConnectionHandles /\ New(h, o) /\ o \in Connections
      BY <1>9 DEF Connect, TryConnect, New, Holds
    <2>2. ASSUME NEW accepted, ConnectWith(h, o, accepted)
          PROVE  IInv'
      <3>1. open' \in [Connections -> BOOLEAN]
        BY <2>2 DEF ConnectWith, IInv, TypeOK
      <3> QED
        BY <2>1, <2>2, <3>1, Taken DEF ConnectWith
    <2>3. ASSUME NoEffect
          PROVE  IInv'
      BY <2>3, <1>f, NothingChanges DEF NoEffect
    <2>4. ASSUME UNCHANGED <<blocks, handle, library, fault>>,
                 life' = life \/ life' = [life EXCEPT ![o] = "live"]
          PROVE  IInv'
      BY <2>1, <2>3, <2>4, LeftAlone DEF New, NoEffect
    <2>5. CASE Connect(h, o)
      BY <2>5, <2>2, <2>3, <2>4 DEF Connect
    <2>6. CASE TryConnect(h, o)
      BY <2>6, <2>2, <2>3 DEF TryConnect
    <2> QED
      BY <1>9, <2>5, <2>6
  <1>10. ASSUME NEW hc \in Handles, NEW h \in Handles, NEW s \in Subscriptions, Subscribe(hc, h, s)
         PROVE  IInv'
    BY <1>10, <1>f, SubscriptionMade, NothingChanges DEF Subscribe, NoEffect
  <1>11. ASSUME NEW s \in Subscriptions, NEW m \in Messages, Arrive(s, m) \/ Dispatch(s, m)
         PROVE  IInv'
    BY <1>11, Arrived, Dispatched
  <1>12. ASSUME NEW s \in Subscriptions, Subscribed(s)
         PROVE  IInv'
    BY <1>12, ConstructorEnds
  <1>13. ASSUME NEW s \in Subscriptions, NatsMsgHandler(s)
         PROVE  IInv'
    <2>1. ASSUME NEW h \in MessageHandles, FromRaw(s, h)
          PROVE  IInv'
      BY <2>1, Wrapped DEF Handles
    <2>2. ASSUME running' = [running EXCEPT ![s] = NoObject], closure[s] # NoObject,
                 UNCHANGED <<life, blocks, handle, queued, subscribed, open, connection,
                             callback, closure, building, fault>>
          PROVE  IInv'
      BY <2>2, Dropped
    <2>3. ASSUME fault' = TRUE, UNCHANGED <<life, blocks, handle, library>>
          PROVE  IInv'
      BY <2>3, NothingChanges
    <2> QED
      BY <1>13, <2>1, <2>2, <2>3 DEF NatsMsgHandler
  <1>14. ASSUME NEW s \in Subscriptions, NEW h \in Handles, FromRaw(s, h)
         PROVE  IInv'
    BY <1>14, Wrapped
  <1> QED
    BY <1>0, <1>1, <1>2, <1>3, <1>4, <1>5, <1>6, <1>7, <1>8, <1>9, <1>10, <1>11, <1>12,
       <1>13, <1>14 DEF Next, Step

-----------------------------------------------------------------------------
\* The invariant, and with it the three properties that are parts of it.
THEOREM Invariance == Spec => []IInv
  BY InitStep, NextStep, PTL DEF Spec

\* Every variable has its type.
THEOREM TypeCorrect == Spec => []TypeOK
  <1>1. IInv => TypeOK
    BY DEF IInv
  <1> QED
    BY <1>1, Invariance, PTL

\* No handle, queue or callback has an object that is destroyed, and none is
\* destroyed twice, whatever is copied, assigned and destroyed in which order.
THEOREM NothingDangles == Spec => []NoDangling
  <1>1. IInv => NoDangling
    BY DEF IInv
  <1> QED
    BY <1>1, Invariance, PTL

\* The library never gets NULL for a connection, a subscription or options.
THEOREM NoHollowHandles == Spec => []OnlyMessagesHollow
  <1>1. IInv => OnlyMessagesHollow
    BY DEF IInv
  <1> QED
    BY <1>1, Invariance, PTL

-----------------------------------------------------------------------------
(* Calls that throw.                                                       *)

ThrowsCleanly ==
  result'.how = "throws" =>
    /\ result'.what # "OK"
    /\ UNCHANGED <<blocks, handle, library>>
    /\ \A o \in Objects :
         life'[o] # life[o] => o \in Connections /\ result'.what = "NOT_YET_CONNECTED"

LEMMA Thrown ==
  ASSUME NEW accepted, NEW status, "OK" \in accepted, Throw_If_Not(accepted, status)
  PROVE  /\ result'.what # "OK"
         /\ status = "NOT_YET_CONNECTED" => result'.what = "NOT_YET_CONNECTED"
  BY DEF Throw_If_Not, Outcome, GetNatsStatusText, IsValidNatsStatus, NatsStatusSet

LEMMA ReturnedCleanly == Returns => ThrowsCleanly
  BY DEF Returns, Outcome, ThrowsCleanly

LEMMA ThrownCleanly ==
  ASSUME NoEffect, result'.what # "OK"
  PROVE  ThrowsCleanly
  BY DEF NoEffect, ThrowsCleanly

LEMMA RefusedCleanly ==
  ASSUME NoEffect, NEW arg, ThrowIfNullOrEmpty(arg) \/ ThrowIfNull(arg) \/ ThrowIfHollow(arg)
  PROVE  ThrowsCleanly
  BY ThrownCleanly DEF ThrowIfNullOrEmpty, ThrowIfNull, ThrowIfHollow, Outcome

LEMMA CalledCleanly ==
  ASSUME NoEffect, NEW accepted, "OK" \in accepted, CallLibrary(accepted)
  PROVE  ThrowsCleanly
  BY ThrownCleanly, ReturnedCleanly, Thrown DEF CallLibrary

LEMMA NextThrowsCleanly == Next => ThrowsCleanly
  <1> SUFFICES ASSUME Next
               PROVE  ThrowsCleanly
    OBVIOUS
  <1> USE ReturnedCleanly, ThrownCleanly, Thrown, RefusedCleanly, CalledCleanly
  <1>1. ASSUME NEW h \in Handles, UseMsg(h)
        PROVE  ThrowsCleanly
    BY <1>1 DEF UseMsg
  <1>2. ASSUME NEW h \in Handles, Configure(h) \/ SetURL(h)
        PROVE  ThrowsCleanly
    BY <1>2 DEF Configure, SetURL
  <1>3. ASSUME NEW h \in Handles, SetServers(h)
        PROVE  ThrowsCleanly
    <2>1. \/ \E asked \in 0 .. SizeMod - 1 :
               result' = [how |-> "returns", what |-> "OK", asked |-> asked, given |-> ToInt(asked)]
          \/ NoEffect /\ result'.what # "OK"
      BY <1>3 DEF SetServers, Outcome
    <2> QED
      BY <2>1 DEF ThrowsCleanly
  <1>4. ASSUME NEW h \in Handles, Publish(h) \/ TryPublish(h) \/ PublishRequest(h)
        PROVE  ThrowsCleanly
    BY <1>4 DEF Publish, TryPublish, PublishRequest, BadData, TryLibrary, Outcome
  <1>5. ASSUME NEW h \in Handles, NEW g \in Handles, PublishMsg(h, g)
        PROVE  ThrowsCleanly
    BY <1>5 DEF PublishMsg, TryLibrary
  <1>6. ASSUME NEW h \in Handles, DestroyHandle(h) \/ Unsubscribe(h) \/ Close(h)
        PROVE  ThrowsCleanly
    BY <1>6 DEF DestroyHandle, LetGo, Unsubscribe, Close
  <1>7. ASSUME NEW h \in Handles, NEW g \in Handles, CopyHandle(h, g) \/ AssignHandle(h, g)
        PROVE  ThrowsCleanly
    BY <1>7 DEF CopyHandle, AssignHandle, LetGo
  <1>8. ASSUME NEW h \in Handles, NEW g \in Handles, NextMsg(h, g) \/ NatsMsg(h, g)
        PROVE  ThrowsCleanly
    BY <1>8 DEF NextMsg, NatsMsg, Receive
  <1>9. ASSUME NEW h \in Handles, NEW o \in Objects, Construct(h, o)
        PROVE  ThrowsCleanly
    BY <1>9 DEF Construct
  <1>10. ASSUME NEW h \in Handles, NEW c \in Objects, Connect(h, c)
         PROVE  ThrowsCleanly
    <2>1. c \in Connections
      BY <1>10, NatsAssumption DEF Connect, New, Holds
    <2>2. CASE ConnectWith(h, c, {"OK"})
      BY <2>2 DEF ConnectWith
    <2>3. CASE \E url \in {"null", "empty"} : ThrowIfNullOrEmpty(url) /\ NoEffect
      BY <2>3
    <2>4. ASSUME NEW status \in LibraryStatuses,
                 Throw_If_Not({"OK"}, status),
                 life' = IF status = "NOT_YET_CONNECTED" THEN [life EXCEPT ![c] = "live"] ELSE life,
                 UNCHANGED <<blocks, handle, library, fault>>
          PROVE  ThrowsCleanly
      <3>1. \A o \in Objects : life'[o] # life[o] => o = c /\ status = "NOT_YET_CONNECTED"
        BY <2>4
      <3> QED
        BY <2>1, <2>4, <3>1 DEF ThrowsCleanly
    <2> QED
      BY <1>10, <2>2, <2>3, <2>4 DEF Connect
  <1>11. ASSUME NEW h \in Handles, NEW c \in Objects, TryConnect(h, c)
         PROVE  ThrowsCleanly
    BY <1>11 DEF TryConnect, ConnectWith
  <1>12. ASSUME NEW hc \in Handles, NEW h \in Handles, NEW s \in Subscriptions, Subscribe(hc, h, s)
         PROVE  ThrowsCleanly
    BY <1>12 DEF Subscribe
  <1>13. ASSUME NEW s \in Subscriptions, NEW m \in Messages, Arrive(s, m) \/ Dispatch(s, m)
         PROVE  ThrowsCleanly
    BY <1>13 DEF Arrive, Dispatch
  <1>14. ASSUME NEW s \in Subscriptions, NEW h, FromRaw(s, h)
         PROVE  ThrowsCleanly
    BY <1>14 DEF FromRaw
  <1>15. ASSUME NEW s \in Subscriptions, Subscribed(s) \/ NatsMsgHandler(s)
         PROVE  ThrowsCleanly
    BY <1>14, <1>15 DEF Subscribed, NatsMsgHandler
  <1> QED
    BY <1>1, <1>2, <1>3, <1>4, <1>5, <1>6, <1>7, <1>8, <1>9, <1>10, <1>11, <1>12, <1>13,
       <1>14, <1>15 DEF Next, Step

\* A call that throws has changed nothing, but for the connection that is not
\* established yet.
THEOREM ThrowsChangeNothing == Spec => ThrowChangesNothing
  <1>1. Next => ThrowsCleanly
    BY NextThrowsCleanly
  <1>2. [Next]_vars => [ThrowsCleanly]_vars
    BY <1>1
  <1> QED
    BY <1>2, PTL DEF Spec, ThrowChangesNothing, ThrowsCleanly

-----------------------------------------------------------------------------
(* Sharing.                                                                *)

\* Somebody holds o.
IsHeld(o) ==
  \/ \E h \in Handles : handle[h].obj = o
  \/ o \in Subscriptions /\ building[o] # NoObject
  \/ \E s \in Subscriptions : running[s] = o
  \/ o \in Messages /\ queued[o] # NoObject

\* What a step does to an object: it is made, or destroyed when it was held, or
\* neither; nobody takes up what was lost; and only some objects can be lost.
StepFacts(o) ==
  /\ \/ life'[o] = life[o]
     \/ life[o] = "none" /\ life'[o] = "live"
     \/ life[o] = "live" /\ life'[o] = "gone" /\ IsHeld(o)
  /\ life[o] = "live" /\ ~IsHeld(o) => ~IsHeld(o)'
  /\ life'[o] = "live" /\ ~IsHeld(o)' /\ (life[o] = "none" \/ IsHeld(o)) => o \in MayBeLost

LEMMA HeldHolders ==
  ASSUME IInv, NEW o \in Objects
  PROVE  /\ IsHeld(o) <=> HoldersOf(o) # {}
         /\ HoldersOf(o) \subseteq Handles \union Subscriptions
         /\ IsHeld(o) => life[o] = "live"
  <1>1. o \in Subscriptions => (building[o] # NoObject <=> \E h \in Handles : building[o] = h)
    BY NatsAssumption DEF IInv, TypeOK, Handles
  <1>2. o \in Messages => (queued[o] # NoObject <=> \E s \in Subscriptions : queued[o] = s)
    BY NatsAssumption DEF IInv, TypeOK, Objects
  <1>3. IsHeld(o) <=> HoldersOf(o) # {}
    BY <1>1, <1>2 DEF IsHeld, HoldersOf
  <1>4. IsHeld(o) => life[o] = "live"
    BY NatsAssumption DEF IInv, IsHeld, NoDangling, BuildingInv, Objects
  <1>5. HoldersOf(o) \subseteq Handles \union Subscriptions
    BY DEF HoldersOf
  <1> QED
    BY <1>3, <1>4, <1>5

LEMMA HeldHoldersNext ==
  ASSUME IInv', NEW o \in Objects
  PROVE  /\ IsHeld(o)' <=> HoldersOf(o)' # {}
         /\ HoldersOf(o)' \subseteq Handles \union Subscriptions
         /\ IsHeld(o)' => life'[o] = "live"
  <1>1. o \in Subscriptions => (building'[o] # NoObject <=> \E h \in Handles : building'[o] = h)
    BY NatsAssumption DEF IInv, TypeOK, Handles
  <1>2. o \in Messages => (queued'[o] # NoObject <=> \E s \in Subscriptions : queued'[o] = s)
    BY NatsAssumption DEF IInv, TypeOK, Objects
  <1>3. IsHeld(o)' <=> HoldersOf(o)' # {}
    BY <1>1, <1>2 DEF IsHeld, HoldersOf
  <1>4. IsHeld(o)' => life'[o] = "live"
    BY NatsAssumption DEF IInv, IsHeld, NoDangling, BuildingInv, Objects
  <1>5. HoldersOf(o)' \subseteq Handles \union Subscriptions
    BY DEF HoldersOf
  <1> QED
    BY <1>3, <1>4, <1>5

LEMMA FactsUnchanged ==
  ASSUME UNCHANGED <<life, handle, library>>, NEW o \in Objects
  PROVE  StepFacts(o)
  BY DEF StepFacts, IsHeld, library

LEMMA FactsLetGo ==
  ASSUME IInv, NEW new, Shares(new), LetGo(new), NEW o \in Objects
  PROVE  StepFacts(o)
  <1> DEFINE dead == Abandoned(new)
  <1> USE NatsAssumption
  <1>1. /\ handle' = new
        /\ life' = [x \in Objects |-> IF x \in Freed(dead)
                                      THEN IF life[x] = "live" THEN "gone" ELSE "twice"
                                      ELSE life[x]]
        /\ queued' = [m \in Messages |-> IF m \in Freed(dead) THEN NoObject ELSE queued[m]]
        /\ UNCHANGED <<running, building>>
    BY DEF LetGo
  <1>2. o \in dead => IsHeld(o) /\ life[o] = "live"
    BY AbandonedObjects DEF Abandoned, IsHeld
  <1>3. o \in Freed(dead) => IsHeld(o) /\ life[o] = "live"
    <2>1. \A m \in Messages : queued[m] \in dead => queued[m] # NoObject
      BY DEF Abandoned
    <2> QED
      BY <1>2, <2>1 DEF Freed, IsHeld, IInv, NoDangling
  <1>4. (\E g \in Handles : new[g].obj = o) => \E h \in Handles : handle[h].obj = o
    BY DEF Shares, Unbuilt, Objects
  <1>5. o \notin dead /\ (\E h \in Handles : handle[h].obj = o) => \E g \in Handles : new[g].obj = o
    BY DEF Abandoned
  <1> HIDE DEF dead
  <1>6. life'[o] = life[o] \/ (life[o] = "live" /\ life'[o] = "gone" /\ IsHeld(o))
    BY <1>1, <1>3
  <1>7. ~IsHeld(o) => ~IsHeld(o)'
    BY <1>1, <1>4 DEF IsHeld
  <1>8. life'[o] = "live" /\ IsHeld(o) => IsHeld(o)'
    <2>1. life'[o] = "live" => o \notin Freed(dead) /\ o \notin dead
      BY <1>1, <1>3 DEF Freed
    <2> QED
      BY <1>1, <1>5, <2>1 DEF IsHeld
  <1> QED
    BY <1>6, <1>7, <1>8 DEF StepFacts, IInv, TypeOK

LEMMA FactsTake ==
  ASSUME IInv, NEW h \in Handles, NEW x \in Objects, New(h, x), Take(h, x),
         UNCHANGED <<queued, running, building>>, NEW o \in Objects
  PROVE  StepFacts(o)
  <1> USE NatsAssumption DEF IInv, New, Take, Reset, Pointer, Free
  <1>1. life' = [life EXCEPT ![x] = "live"] /\ handle'[h].obj = x
        /\ \A g \in Handles : g # h => handle'[g] = handle[g]
    BY DEF TypeOK
  <1>2. handle[h].obj = NoObject
    BY DEF BlockInv
  <1>3. IsHeld(o)' <=> IsHeld(o) \/ o = x
    BY <1>1, <1>2 DEF IsHeld, Objects
  <1> QED
    BY <1>1, <1>3 DEF StepFacts, TypeOK

LEMMA NextFacts ==
  ASSUME IInv, [Next]_vars, NEW o \in Objects
  PROVE  StepFacts(o)
  <1> USE NatsAssumption
  <1>0. CASE UNCHANGED vars
    BY <1>0, FactsUnchanged DEF vars
  <1>1. ASSUME NEW h \in Handles,
               UseMsg(h) \/ Configure(h) \/ SetServers(h) \/ Publish(h)
                 \/ TryPublish(h) \/ PublishRequest(h) \/ SetURL(h)
        PROVE  StepFacts(o)
    BY <1>1, FactsUnchanged 
       DEF UseMsg, Configure, SetServers, Publish, TryPublish, PublishRequest, SetURL, NoEffect
  <1>2. ASSUME NEW h \in Handles, NEW g \in Handles, PublishMsg(h, g)
        PROVE  StepFacts(o)
    BY <1>2, FactsUnchanged DEF PublishMsg, NoEffect
  <1>3. ASSUME NEW h \in Handles, DestroyHandle(h)
        PROVE  StepFacts(o)
    BY <1>3, Sharing, FactsLetGo DEF DestroyHandle
  <1>4. ASSUME NEW h \in Handles, NEW g \in Handles, AssignHandle(h, g)
        PROVE  StepFacts(o)
    BY <1>4, Sharing, FactsLetGo DEF AssignHandle
  <1>5. ASSUME NEW h \in Handles, Unsubscribe(h) \/ Close(h)
        PROVE  StepFacts(o)
    BY <1>5 DEF Unsubscribe, Close, StepFacts, IsHeld
  <1>6. ASSUME NEW h \in Handles, NEW g \in Handles, CopyHandle(h, g)
        PROVE  StepFacts(o)
    <2>1. /\ handle'[g] = handle[h] /\ \A k \in Handles : k # g => handle'[k] = handle[k]
          /\ UNCHANGED <<life, queued, running, building>> /\ handle[g].obj # o
      BY <1>6 DEF CopyHandle, library, IInv, TypeOK, BlockInv, Free, Objects
    <2> QED
      BY <2>1 DEF StepFacts, IsHeld
  <1>7. ASSUME NEW h \in Handles, NEW g \in Handles, NextMsg(h, g) \/ NatsMsg(h, g)
        PROVE  StepFacts(o)
    <2> USE DEF IInv, CanReceive
    <2>0. handle[g].obj = NoObject
      BY <1>7 DEF NextMsg, NatsMsg, BlockInv
    <2>1. ASSUME NEW m \in Messages,
                 queued[m] = handle[h].obj, queued' = [queued EXCEPT ![m] = NoObject],
                 Reset(g, m), UNCHANGED <<life, running, building>>
          PROVE  StepFacts(o)
      <3>1. queued[m] # NoObject
        BY <1>7, <2>1 DEF NextMsg, NatsMsg, OnlyMessagesHollow, Holds, Objects
      <3>2. handle'[g].obj = m /\ \A k \in Handles : k # g => handle'[k] = handle[k]
        BY <2>1 DEF Reset, Pointer, TypeOK
      <3>3. IsHeld(o)' <=> IsHeld(o)
        BY <2>0, <2>1, <3>1, <3>2 DEF IsHeld, TypeOK, Objects
      <3> QED
        BY <2>1, <3>3 DEF StepFacts
    <2>2. ASSUME handle' = [handle EXCEPT ![g] = Hollow], UNCHANGED <<life, library>>
          PROVE  StepFacts(o)
      <3>1. handle'[g].obj = NoObject /\ \A k \in Handles : k # g => handle'[k] = handle[k]
        BY <2>2 DEF Hollow, TypeOK
      <3> QED
        BY <2>0, <2>2, <3>1 DEF StepFacts, IsHeld, library, Objects
    <2>3. CASE NoEffect
      BY <2>3, FactsUnchanged DEF NoEffect
    <2> QED
      BY <1>7, <2>1, <2>2, <2>3 DEF NextMsg, NatsMsg, Receive
  <1>8. ASSUME NEW h \in Handles, NEW x \in Objects, Construct(h, x)
        PROVE  StepFacts(o)
    BY <1>8, FactsTake, FactsUnchanged DEF Construct, NoEffect, library
  <1>9. ASSUME NEW h \in Handles, NEW c \in Objects, Connect(h, c) \/ TryConnect(h, c)
        PROVE  StepFacts(o)
    <2>1. New(h, c) /\ c \in Connections /\ life[c] = "none"
      BY <1>9 DEF Connect, TryConnect, New, Holds
    <2>2. ASSUME NEW accepted, ConnectWith(h, c, accepted)
          PROVE  StepFacts(o)
      BY <2>1, <2>2, FactsTake DEF ConnectWith
    <2>3. CASE NoEffect
      BY <2>3, FactsUnchanged DEF NoEffect
    <2>4. ASSUME NEW status \in LibraryStatuses, UNCHANGED <<blocks, handle, library, fault>>,
                 life' = IF status = "NOT_YET_CONNECTED" THEN [life EXCEPT ![c] = "live"] ELSE life
          PROVE  StepFacts(o)
      <3>1. CASE status = "NOT_YET_CONNECTED"
        <4>1. Connections \subseteq MayBeLost
          BY <3>1 DEF MayBeLost
        <4>2. IsHeld(o)' <=> IsHeld(o)
          BY <2>4 DEF IsHeld, library
        <4>3. IsHeld(o) => life[o] = "live"
          BY HeldHolders
        <4> QED
          BY <2>1, <2>4, <3>1, <4>1, <4>2, <4>3 DEF StepFacts, IInv, TypeOK
      <3> QED
        BY <2>4, <3>1, FactsUnchanged
    <2>5. CASE Connect(h, c)
      BY <2>5, <2>2, <2>3, <2>4 DEF Connect
    <2>6. CASE TryConnect(h, c)
      BY <2>6, <2>2, <2>3 DEF TryConnect
    <2> QED
      BY <1>9, <2>5, <2>6
  <1>10. ASSUME NEW hc \in Handles, NEW h \in Handles, NEW s \in Subscriptions, Subscribe(hc, h, s)
         PROVE  StepFacts(o)
    <2>1. CASE NoEffect
      BY <2>1, FactsUnchanged DEF NoEffect
    <2>2. ASSUME life' = [life EXCEPT ![s] = "live"], building' = [building EXCEPT ![s] = h],
                 UNCHANGED <<handle, queued, running>>
          PROVE  StepFacts(o)
      <3>1. life[s] = "none" /\ h # NoObject
        BY <1>10 DEF Subscribe, New
      <3>2. IsHeld(o)' <=> IsHeld(o) \/ o = s
        BY <2>2, <3>1 DEF IsHeld, IInv, TypeOK
      <3> QED
        BY <2>2, <3>1, <3>2 DEF StepFacts, IInv, TypeOK
    <2> QED
      BY <1>10, <2>1, <2>2 DEF Subscribe
  <1>11. ASSUME NEW s \in Subscriptions, NEW m \in Messages, Arrive(s, m)
         PROVE  StepFacts(o)
    <2>1. IsHeld(o)' <=> IsHeld(o) \/ o = m
      BY <1>11 DEF Arrive, IsHeld, IInv, TypeOK, Objects
    <2> QED
      BY <1>11, <2>1 DEF Arrive, StepFacts, IInv, TypeOK
  <1>12. ASSUME NEW s \in Subscriptions, NEW m \in Messages, Dispatch(s, m)
         PROVE  StepFacts(o)
    <2>1. IsHeld(o)' <=> IsHeld(o)
      BY <1>12 DEF Dispatch, IsHeld, IInv, TypeOK, Objects
    <2> QED
      BY <1>12, <2>1 DEF Dispatch, StepFacts
  <1>13. ASSUME NEW s \in Subscriptions, Subscribed(s)
         PROVE  StepFacts(o)
    <2>1. building[s] \in Handles /\ handle[building[s]].obj = NoObject
      BY <1>13 DEF Subscribed, IInv, TypeOK, Handles, BuildingInv, BlockInv
    <2>2. /\ handle'[building[s]].obj = s
          /\ \A k \in Handles : k # building[s] => handle'[k] = handle[k]
      BY <1>13, <2>1 DEF Subscribed, Reset, Pointer, IInv, TypeOK
    <2>3. IsHeld(o)' <=> IsHeld(o)
      BY <1>13, <2>1, <2>2 DEF Subscribed, IsHeld, IInv, TypeOK, Objects
    <2> QED
      BY <1>13, <2>3 DEF Subscribed, StepFacts
  <1>14. ASSUME NEW s \in Subscriptions, NEW h \in Handles, FromRaw(s, h)
         PROVE  StepFacts(o)
    <2>1. handle[h].obj = NoObject
      BY <1>14 DEF FromRaw, IInv, BlockInv
    <2>2. /\ handle'[h].obj = running[s]
          /\ \A k \in Handles : k # h => handle'[k] = handle[k]
      BY <1>14 DEF FromRaw, Reset, Pointer, IInv, TypeOK
    <2>3. IsHeld(o)' <=> IsHeld(o)
      BY <1>14, <2>1, <2>2 DEF FromRaw, IsHeld, IInv, TypeOK, Objects
    <2> QED
      BY <1>14, <2>3 DEF FromRaw, StepFacts
  <1>15. ASSUME NEW s \in Subscriptions, NatsMsgHandler(s)
         PROVE  StepFacts(o)
    <2>1. ASSUME NEW h \in MessageHandles, FromRaw(s, h)
          PROVE  StepFacts(o)
      BY <1>14, <2>1 DEF Handles
    <2>2. ASSUME running' = [running EXCEPT ![s] = NoObject], closure[s] # NoObject,
                 UNCHANGED <<life, blocks, handle, queued, subscribed, open, connection,
                             callback, closure, building, fault>>
          PROVE  StepFacts(o)
      <3>1. Messages \subseteq MayBeLost
        BY <2>2 DEF MayBeLost, IInv, ClosureInv, TypeOK
      <3>2. ~IsHeld(o) => ~IsHeld(o)'
        BY <2>2 DEF IsHeld, IInv, TypeOK, Objects
      <3>3. IsHeld(o) /\ ~IsHeld(o)' => o \in Messages
        BY <2>2 DEF IsHeld, IInv, TypeOK, Objects
      <3>4. IsHeld(o) => life[o] = "live"
        BY HeldHolders
      <3> QED
        BY <2>2, <3>1, <3>2, <3>3, <3>4 DEF StepFacts
    <2>3. ASSUME UNCHANGED <<life, blocks, handle, library>>
          PROVE  StepFacts(o)
      BY <2>3, FactsUnchanged
    <2> QED
      BY <1>15, <2>1, <2>2, <2>3 DEF NatsMsgHandler
  <1> QED
    BY <1>0, <1>1, <1>2, <1>3, <1>4, <1>5, <1>6, <1>7, <1>8, <1>9, <1>10, <1>11, <1>12,
       <1>13, <1>14, <1>15 DEF Next, Step

LEMMA SharedInit == Init => Shared!Init
  <1> SUFFICES ASSUME Init
               PROVE  Shared!Init
    OBVIOUS
  <1>1. \A o \in Objects : life[o] = "none" /\ HoldersOf(o) = {}
    BY NatsAssumption DEF Init, HoldersOf, Unbuilt, Objects
  <1>2. \A o \in Objects : Seen(o) = [phase |-> "none", holders |-> {}]
    BY <1>1 DEF Seen
  <1> QED
    BY <1>2 DEF Shared!Init, Shared!Object

LEMMA SharedStep ==
  ASSUME IInv, IInv', [Next]_vars, NEW o \in Objects
  PROVE  \/ Seen(o)' = Seen(o)
         \/ /\ \/ Shared!Made(Seen(o), Seen(o)') \/ Shared!Passed(Seen(o), Seen(o)')
               \/ Shared!Destroyed(Seen(o), Seen(o)')
               \/ (o \in MayBeLost /\ Shared!Lost(Seen(o), Seen(o)'))
            /\ Seen(o)'.holders \subseteq Handles \union Subscriptions
            /\ Seen(o)'.phase = "held" <=> Seen(o)'.holders # {}
  <1> DEFINE H == HoldersOf(o)
             HN == HoldersOf(o)'
  <1>1. StepFacts(o)
    BY NextFacts
  <1>2. /\ IsHeld(o) <=> H # {}
        /\ IsHeld(o) => life[o] = "live"
    BY HeldHolders
  <1>3. /\ IsHeld(o)' <=> HN # {}
        /\ HN \subseteq Handles \union Subscriptions
        /\ IsHeld(o)' => life'[o] = "live"
    BY HeldHoldersNext
  <1>4. life[o] \in {"none", "live", "gone", "twice"} /\ life'[o] \in {"none", "live", "gone", "twice"}
        /\ life[o] # "twice" /\ life'[o] # "twice"
    BY DEF IInv, TypeOK, NoDangling
  <1>5. Seen(o) = [phase |-> IF life[o] # "live" THEN life[o] ELSE IF H = {} THEN "lost" ELSE "held",
                   holders |-> H]
    BY DEF Seen
  <1>6. Seen(o)' = [phase |-> IF life'[o] # "live" THEN life'[o] ELSE IF HN = {} THEN "lost" ELSE "held",
                    holders |-> HN]
    BY DEF Seen
  <1> HIDE DEF H, HN
  <1> QED
    BY <1>1, <1>2, <1>3, <1>4, <1>5, <1>6
       DEF StepFacts, Shared!Made, Shared!Passed, Shared!Destroyed, Shared!Lost

\* Every object is destroyed when its last holder lets go of it, and only then.
THEOREM Implements == Spec => ImplementsShared
  <1>1. IInv /\ IInv' /\ [Next]_vars => [Shared!Next]_([o \in Objects |-> Seen(o)])
    BY SharedStep DEF Shared!Next
  <1> QED
    BY <1>1, SharedInit, Invariance, PTL DEF Spec, ImplementsShared, Shared!Spec

-----------------------------------------------------------------------------
(* The count of servers.                                                   *)

LEMMA SmallRemainder ==
  ASSUME NEW n \in Nat, NEW m \in Nat \ {0}, n < m
  PROVE  n % m = n
  OBVIOUS

LEMMA ServersPassedOn ==
  ASSUME NEW asked \in Nat, NEW list, ~RefusedServers(asked, list), asked < IntMod
  PROVE  ToInt(asked) = asked
  <1>1. asked % IntMod = asked
    BY SmallRemainder, NatsAssumption
  <1>2. ~(ToInt(asked) < 0)
    BY DEF RefusedServers, CheckCongruenceCountAndList
  <1> QED
    BY <1>1, <1>2, NatsAssumption DEF ToInt

\* No other call counts servers.
NoCount == result'.asked = 0 /\ result'.given = 0

\* Whatever a count below 2^32 is, SetServers gives it to the library or throws.
THEOREM ServersCount == Spec => []ServersCountKept
  <1>1. Init => ServersCountKept
    BY DEF Init, Outcome, ServersCountKept
  <1>2. ServersCountKept /\ [Next]_vars => ServersCountKept'
    <2> SUFFICES ASSUME ServersCountKept, [Next]_vars
                 PROVE  ServersCountKept'
      OBVIOUS
    <2> USE DEF Returns, Throw_If_Not, ThrowIfNull, ThrowIfNullOrEmpty, ThrowIfHollow, Outcome
    <2>1. CASE UNCHANGED vars
      BY <2>1 DEF vars, ServersCountKept
    <2>2. ASSUME NEW h \in Handles, SetServers(h)
          PROVE  NoCount \/ ServersCountKept'
      <3>1. ASSUME NEW asked \in 0 .. SizeMod - 1, NEW list \in {"null", "some"},
                   ~RefusedServers(asked, list),
                   result' = [how |-> "returns", what |-> "OK", asked |-> asked, given |-> ToInt(asked)]
            PROVE  ServersCountKept'
        BY <3>1, ServersPassedOn DEF ServersCountKept
      <3> QED
        BY <2>2, <3>1 DEF SetServers, NoCount
    <2>3. ASSUME NEW h \in Handles,
                 \/ DestroyHandle(h) \/ UseMsg(h) \/ Configure(h) \/ Unsubscribe(h) \/ Close(h)
                 \/ Publish(h) \/ TryPublish(h) \/ PublishRequest(h) \/ SetURL(h)
          PROVE  NoCount
      BY <2>3 DEF NoCount, DestroyHandle, LetGo, UseMsg, Configure, Unsubscribe, Close, Publish,
                  TryPublish, PublishRequest, SetURL, BadData, CallLibrary, TryLibrary
    <2>4. ASSUME NEW h \in Handles, NEW g \in Handles,
                 \/ CopyHandle(h, g) \/ AssignHandle(h, g) \/ NextMsg(h, g) \/ NatsMsg(h, g)
                 \/ PublishMsg(h, g)
          PROVE  NoCount
      BY <2>4 DEF NoCount, CopyHandle, AssignHandle, LetGo, NextMsg, NatsMsg, Receive, PublishMsg,
                  CallLibrary, TryLibrary
    <2>5. ASSUME NEW h \in Handles, NEW o \in Objects,
                 Construct(h, o) \/ Connect(h, o) \/ TryConnect(h, o)
          PROVE  NoCount
      BY <2>5 DEF NoCount, Construct, Connect, TryConnect, ConnectWith
    <2>6. ASSUME NEW hc \in Handles, NEW h \in Handles, NEW s \in Subscriptions, Subscribe(hc, h, s)
          PROVE  NoCount
      BY <2>6 DEF NoCount, Subscribe
    <2>7. ASSUME NEW s \in Subscriptions, NEW m \in Messages, Arrive(s, m) \/ Dispatch(s, m)
          PROVE  NoCount
      BY <2>7 DEF NoCount, Arrive, Dispatch
    <2>8. ASSUME NEW s \in Subscriptions, NEW h, FromRaw(s, h)
          PROVE  NoCount
      BY <2>8 DEF NoCount, FromRaw
    <2>9. ASSUME NEW s \in Subscriptions, Subscribed(s) \/ NatsMsgHandler(s)
          PROVE  NoCount
      BY <2>8, <2>9 DEF NoCount, Subscribed, NatsMsgHandler
    <2>10. NoCount => ServersCountKept'
      BY DEF NoCount, ServersCountKept
    <2> QED
      BY <2>1, <2>2, <2>3, <2>4, <2>5, <2>6, <2>7, <2>8, <2>9, <2>10 DEF Next, Step
  <1> QED
    BY <1>1, <1>2, PTL DEF Spec
=============================================================================
