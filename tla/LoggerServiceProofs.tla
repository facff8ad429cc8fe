------------------------- MODULE LoggerServiceProofs -------------------------
(***************************************************************************)
(* Proofs about what Logger does for the application: that it implements   *)
(* LogService, and that a file has the text of a thread in its order.      *)
(***************************************************************************)
EXTENDS LoggerProofs, FiniteSetTheorems, NumberProofs

-----------------------------------------------------------------------------
(* The finished lines of a sink.                                           *)

\* The positions of finished lines, and the number that one has among them.
EndsOf(s) == {i \in 1 .. Len(s) : s[i].part # "leader"}
Rank(S, i) == Cardinality({j \in S : j <= i})
With(S, i) == S \union {i}

LEMMA FinishedMeans ==
  ASSUME NEW s
  PROVE  Finished(s) = [n \in 1 .. Cardinality(EndsOf(s)) |-> LineOf(s[Nth(EndsOf(s), n)])]
  BY DEF Finished, EndsOf

LEMMA NthSame ==
  ASSUME NEW S, NEW T, NEW n, {i \in S : Rank(S, i) = n} = {i \in T : Rank(T, i) = n}
  PROVE  Nth(S, n) = Nth(T, n)
  <1>1. \A i : (i \in S /\ Rank(S, i) = n) <=> (i \in T /\ Rank(T, i) = n)
    OBVIOUS
  <1>2. QED
    BY <1>1 DEF Nth, Rank

\* A number behind all of a set comes last in it, and moves no other.
LEMMA NthAdded ==
  ASSUME NEW m \in Nat, NEW S \in SUBSET (1 .. m)
  PROVE  /\ Cardinality(S) \in Nat
         /\ Cardinality(With(S, m + 1)) = Cardinality(S) + 1
         /\ \A n \in 1 .. Cardinality(S) : Nth(With(S, m + 1), n) = Nth(S, n)
         /\ Nth(With(S, m + 1), Cardinality(S) + 1) = m + 1
  <1> DEFINE T == With(S, m + 1)
  <1>0. T = S \union {m + 1}
    BY DEF With
  <1> HIDE DEF T
  <1>1. IsFiniteSet(S) /\ Cardinality(S) \in Nat
    <2>1. IsFiniteSet(1 .. m)
      BY FS_Interval
    <2>2. QED
      BY <2>1, FS_Subset, FS_CardinalityType
  <1>2. m + 1 \notin S
    OBVIOUS
  <1>3. Cardinality(T) = Cardinality(S) + 1
    BY <1>0, <1>1, <1>2, FS_AddElement
  <1>4. ASSUME NEW i \in S PROVE Rank(T, i) = Rank(S, i) /\ Rank(S, i) <= Cardinality(S)
    <2>1. {j \in T : j <= i} = {j \in S : j <= i}
      BY <1>0
    <2>2. {j \in S : j <= i} \in SUBSET S
      OBVIOUS
    <2>3. Rank(S, i) <= Cardinality(S)
      BY <1>1, <2>2, FS_Subset DEF Rank
    <2>4. QED
      BY <2>1, <2>3 DEF Rank
  <1>5. Rank(T, m + 1) = Cardinality(S) + 1
    <2>1. \A j \in T : j <= m + 1
      BY <1>0
    <2>a. {j \in T : j <= m + 1} = T
      BY <2>1, Zenon
    <2>2. QED
      BY <1>3, <2>a DEF Rank
  <1>6. ASSUME NEW n \in 1 .. Cardinality(S) PROVE Nth(T, n) = Nth(S, n)
    <2>a. Rank(T, m + 1) # n
      BY <1>1, <1>5
    <2>b. \A i \in S : Rank(T, i) = Rank(S, i)
      BY <1>4
    <2>1. {i \in S : Rank(S, i) = n} = {i \in T : Rank(T, i) = n}
      BY <1>0, <2>a, <2>b, Zenon
    <2>2. QED
      BY <2>1, NthSame
  <1>7. Nth(T, Cardinality(S) + 1) = m + 1
    <2>1. \A i \in S : Rank(T, i) # Cardinality(S) + 1
      <3>1. \A i \in S : Rank(S, i) \in Nat
        <4> SUFFICES ASSUME NEW i \in S PROVE Rank(S, i) \in Nat
          OBVIOUS
        <4>1. {j \in S : j <= i} \in SUBSET S
          OBVIOUS
        <4>2. QED
          BY <1>1, <4>1, FS_Subset, FS_CardinalityType DEF Rank
      <3>2. ASSUME NEW i \in S, Rank(T, i) = Cardinality(S) + 1 PROVE FALSE
        <4>1. Rank(S, i) = Cardinality(S) + 1 /\ Rank(S, i) <= Cardinality(S)
          BY <1>4, <3>2
        <4>2. QED
          BY <1>1, <4>1
      <3>3. QED
        BY <3>2
    <2>2. \A i \in T : Rank(T, i) = Cardinality(S) + 1 <=> i = m + 1
      BY <1>0, <1>5, <2>1
    <2>3. m + 1 \in T
      BY <1>0
    <2>4. QED
      BY <2>2, <2>3 DEF Nth, Rank
  <1>8. QED
    BY <1>1, <1>3, <1>6, <1>7 DEF T

\* A set of m numbers has an n-th for every n from 1 to m.
LEMMA NthExists ==
  ASSUME NEW m \in Nat, NEW S \in SUBSET (1 .. m), NEW n \in 1 .. Cardinality(S)
  PROVE  Nth(S, n) \in S
  <1> DEFINE P == {k \in Nat : \A T \in SUBSET (1 .. k) :
                                 \A i \in 1 .. Cardinality(T) : Nth(T, i) \in T}
  <1>1. 0 \in P
    <2> SUFFICES ASSUME NEW T \in SUBSET (1 .. 0) PROVE 1 .. Cardinality(T) = {}
      OBVIOUS
    <2>1. T = {}
      OBVIOUS
    <2>2. QED
      BY <2>1, FS_EmptySet
  <1>2. ASSUME NEW k \in P \cap Nat PROVE k + 1 \in P
    <2> SUFFICES ASSUME NEW T \in SUBSET (1 .. k + 1), NEW i \in 1 .. Cardinality(T)
                 PROVE  Nth(T, i) \in T
      OBVIOUS
    <2>1. CASE k + 1 \notin T
      <3>1. T \in SUBSET (1 .. k)
        BY <2>1
      <3>2. QED
        BY <3>1
    <2>2. CASE k + 1 \in T
      <3> DEFINE R == T \ {k + 1}
      <3>1. R \in SUBSET (1 .. k) /\ T = With(R, k + 1)
        BY <2>2 DEF With
      <3>2. \A j \in 1 .. Cardinality(R) : Nth(R, j) \in R
        BY <3>1
      <3> HIDE DEF R
      <3>3. /\ Cardinality(R) \in Nat
            /\ Cardinality(T) = Cardinality(R) + 1
            /\ \A j \in 1 .. Cardinality(R) : Nth(T, j) = Nth(R, j)
            /\ Nth(T, Cardinality(R) + 1) = k + 1
        BY <3>1, NthAdded
      <3>4. QED
        <4>1. k + 1 \in T /\ R \subseteq T
          BY <2>2 DEF R
        <4> DEFINE c == Cardinality(R)
        <4>2. i \in 1 .. c \/ i = c + 1
          BY <3>3
        <4>3. CASE i \in 1 .. c
          BY <4>1, <4>3, <3>2, <3>3
        <4>4. CASE i = c + 1
          BY <4>1, <4>4, <3>3
        <4>5. QED
          BY <4>2, <4>3, <4>4
    <2>3. QED
      BY <2>1, <2>2
  <1> HIDE DEF P
  <1>3. m \in P
    BY <1>1, <1>2, NumberInduction
  <1>4. QED
    BY <1>3 DEF P

\* What Append and dropping the last element do to a sequence given as a function.
LEMMA AppendFunction ==
  ASSUME NEW k \in Nat, NEW f, f = [n \in 1 .. k |-> f[n]], NEW x
  PROVE  /\ Append(f, x) = [n \in 1 .. k + 1 |-> IF n = k + 1 THEN x ELSE f[n]]
         /\ AllButLast(Append(f, x)) = f
  <1> DEFINE V == {f[n] : n \in 1 .. k} \union {x}
  <1>1. f \in [1 .. k -> V] /\ x \in V
    OBVIOUS
  <1> HIDE DEF V
  <1>2. f \in Seq(V) /\ Len(f) = k
    BY <1>1
  <1>3. /\ Append(f, x) \in Seq(V) /\ Len(Append(f, x)) = k + 1
        /\ \A n \in 1 .. k + 1 : Append(f, x)[n] = IF n = k + 1 THEN x ELSE f[n]
    BY <1>1, <1>2, AppendProperties
  <1>4. Append(f, x) = [n \in 1 .. k + 1 |-> IF n = k + 1 THEN x ELSE f[n]]
    BY <1>3
  <1>5. AllButLast(Append(f, x)) = f
    BY <1>2, <1>3 DEF AllButLast
  <1>6. QED
    BY <1>4, <1>5

\* A leader adds no line, any other piece adds its own.
LEMMA FinishedAppend ==
  ASSUME NEW s \in Seq(Pieces), NEW p \in Pieces
  PROVE  Finished(Append(s, p)) =
           IF p.part = "leader" THEN Finished(s) ELSE Append(Finished(s), LineOf(p))
  <1> DEFINE q == Append(s, p)
             m == Len(s)
             E == EndsOf(s)
             k == Cardinality(E)
  <1>1. /\ m \in Nat /\ Len(q) = m + 1 /\ q[m + 1] = p
        /\ \A i \in 1 .. m : q[i] = s[i]
    OBVIOUS
  <1>2. E \in SUBSET (1 .. m)
    BY DEF EndsOf
  <1>3. EndsOf(q) = IF p.part = "leader" THEN E ELSE With(E, m + 1)
    <2>1. EndsOf(q) = {i \in 1 .. m + 1 : q[i].part # "leader"}
      BY <1>1 DEF EndsOf
    <2>2. 1 .. m + 1 = (1 .. m) \union {m + 1}
      BY <1>1
    <2>3. \A i \in 1 .. m : q[i].part # "leader" <=> i \in E
      BY <1>1 DEF EndsOf
    <2>4. q[m + 1].part = p.part
      BY <1>1
    <2> HIDE DEF q, m, E
    <2>5. QED
      BY <1>1, <1>2, <2>1, <2>2, <2>3, <2>4 DEF With
  <1>4. \A n \in 1 .. k : Nth(E, n) \in E
    BY <1>1, <1>2, NthExists
  <1>5. Finished(s) = [n \in 1 .. k |-> LineOf(s[Nth(E, n)])]
    BY FinishedMeans
  <1>6. Finished(q) = [n \in 1 .. Cardinality(EndsOf(q)) |-> LineOf(q[Nth(EndsOf(q), n)])]
    BY FinishedMeans
  <1> HIDE DEF q, m, E
  <1>7. \A n \in 1 .. k : q[Nth(E, n)] = s[Nth(E, n)]
    BY <1>1, <1>2, <1>4
  <1>8. CASE p.part = "leader"
    <2>1. EndsOf(q) = E
      BY <1>3, <1>8
    <2>2. Finished(q) = [n \in 1 .. k |-> LineOf(q[Nth(E, n)])]
      BY <1>6, <2>1
    <2>3. Finished(q) = Finished(s)
      BY <1>5, <1>7, <2>2
    <2>4. QED
      BY <1>8, <2>3 DEF q
  <1>9. CASE p.part # "leader"
    <2>1. EndsOf(q) = With(E, m + 1)
      BY <1>3, <1>9
    <2>2. /\ k \in Nat /\ Cardinality(EndsOf(q)) = k + 1
          /\ \A n \in 1 .. k : Nth(EndsOf(q), n) = Nth(E, n)
          /\ Nth(EndsOf(q), k + 1) = m + 1
      BY <1>1, <1>2, <2>1, NthAdded
    <2>3. \A n \in 1 .. k : Finished(q)[n] = LineOf(s[Nth(E, n)])
      BY <1>6, <1>7, <2>2
    <2>4. Finished(q)[k + 1] = LineOf(p)
      BY <1>1, <1>6, <2>2
    <2>5. DOMAIN Finished(q) = 1 .. k + 1 /\ Finished(q) = [n \in 1 .. k + 1 |-> Finished(q)[n]]
      BY <1>6, <2>2
    <2> DEFINE f == Finished(s)
    <2>6. f = [n \in 1 .. k |-> LineOf(s[Nth(E, n)])]
      BY <1>5
    <2>7. Append(f, LineOf(p)) = [n \in 1 .. k + 1 |-> IF n = k + 1 THEN LineOf(p) ELSE f[n]]
      <3> HIDE DEF k
      <3>1. f = [n \in 1 .. k |-> f[n]]
        BY <2>6
      <3> DEFINE l == LineOf(p)
      <3> HIDE DEF f, l
      <3>2. Append(f, l) = [n \in 1 .. k + 1 |-> IF n = k + 1 THEN l ELSE f[n]]
        BY <2>2, <3>1, AppendFunction
      <3>3. QED
        BY <3>2 DEF l
    <2> HIDE DEF f, k
    <2>8. Finished(q) = Append(f, LineOf(p))
      <3> DEFINE g == Finished(q)
      <3>1. g = [n \in 1 .. k + 1 |-> g[n]]
        BY <2>5
      <3>2. \A n \in 1 .. k : g[n] = f[n]
        BY <2>3, <2>6
      <3>3. g[k + 1] = LineOf(p)
        BY <2>4
      <3> HIDE DEF g
      <3>4. \A n \in 1 .. k + 1 : g[n] = IF n = k + 1 THEN LineOf(p) ELSE f[n]
        BY <2>2, <3>2, <3>3
      <3>5. QED
        BY <2>7, <3>1, <3>4 DEF g
    <2>9. QED
      BY <1>9, <2>8 DEF q, f
  <1>10. QED
    BY <1>8, <1>9

-----------------------------------------------------------------------------
(* What an emission that a call still owes has to do with the buffers.     *)

Texts == (1 .. MaxLives) \X UNION {1 .. MaxCalls[t] : t \in Threads}

UpTo(text, n) == \A k \in 1 .. Len(text) : text[k][2] <= n

\* The i-th emission that t owes.  One that comes from a buffer sends what the
\* buffer holds now, and it is the caller's own buffer unless the streams are
\* being destroyed.  A literal is newer than all its thread has put, and when
\* its turn comes the unfinished line before it has gone.
EmissionOK(t, i) ==
  LET em == todo[t][i]
  IN  /\ em.src = "exit" => t = Main /\ phase # "running"
      /\ em.src # "exit" => em.owner = t
      /\ em.src = "direct" => em.level = NoLevel
      /\ FromBuffer(em) =>
           /\ i = 1
           /\ em.level \in Levels
           /\ em.text = line_buffer[em.level][em.owner]
      /\ ~FromBuffer(em) => \E x \in Texts : em.text = << x >>
      /\ em.src = "literal" =>
           /\ em.level \in Levels
           /\ em.text[1][2] = calls[t]
           /\ UpTo(line_buffer[em.level][t], calls[t] - 1)
           /\ i = 1 => line_buffer[em.level][t] = << >>
           /\ i # 1 => i = 2 /\ Head1(t).src = "sync" /\ Head1(t).level = em.level

Bounded == \A t \in Threads : calls[t] <= MaxCalls[t] /\ life[t] \in 1 .. MaxLives

Owed(t) == \A i \in 1 .. Len(todo[t]) : EmissionOK(t, i)

FileFirst == \A t \in Threads : \A i \in 2 .. Len(sinks[t]) : sinks[t][i] # "file"

\* The buffers hold a thread's pieces in the order in which it put them.
Buffered == \A s \in Levels, t \in Threads :
  Increasing(line_buffer[s][t]) /\ UpTo(line_buffer[s][t], calls[t])

DataInv == Bounded /\ FileFirst /\ Buffered /\ \A t \in Threads : Owed(t)

\* The text that a call of t makes up is one of the texts.
LEMMA NewTextIsText ==
  ASSUME TypeOK, Bounded, NEW t \in Threads, calls[t] < MaxCalls[t]
  PROVE  NewText(t) \in Texts
  <1>a. calls[t] \in Nat /\ MaxCalls[t] \in Nat
    BY LoggerAssumption DEF TypeOK
  <1>1. calls[t] + 1 \in 1 .. MaxCalls[t] /\ life[t] \in 1 .. MaxLives
    BY <1>a DEF Bounded
  <1>2. calls[t] + 1 \in UNION {1 .. MaxCalls[u] : u \in Threads}
    BY <1>1
  <1>3. QED
    BY <1>1, <1>2 DEF NewText, Texts

LEMMA DataInit == Init => DataInv
  <1> SUFFICES ASSUME Init PROVE DataInv
    OBVIOUS
  <1>1. Bounded
    BY LoggerAssumption DEF Init, Bounded
  <1>2. FileFirst /\ \A t \in Threads : Owed(t)
    BY DEF Init, FileFirst, Owed
  <1>3. Buffered
    BY DEF Init, Buffered, Increasing, UpTo
  <1>4. QED
    BY <1>1, <1>2, <1>3 DEF DataInv

LEMMA BoundedStep == IInv /\ Bounded /\ [Next]_vars => Bounded'
  <1> SUFFICES ASSUME TypeOK, Bounded, [Next]_vars, NEW t \in Threads
               PROVE  calls'[t] <= MaxCalls[t] /\ life'[t] \in 1 .. MaxLives
    BY DEF Bounded, IInv
  <1>1. calls \in [Threads -> Nat] /\ life \in [Threads -> Nat] /\ MaxCalls[t] \in Nat
    BY LoggerAssumption DEF TypeOK
  <1>2. ASSUME NEW u \in Threads, ApplicationCall(u)
        PROVE  \/ /\ calls[u] < MaxCalls[u] /\ calls' = [calls EXCEPT ![u] = @ + 1]
                  /\ life' = life
               \/ /\ calls' = calls
                  /\ life[u] < MaxLives /\ life' = [life EXCEPT ![u] = @ + 1]
    BY <1>2 DEF ApplicationCall, PutText, PutEndOfLine, Flush, PutLiteral, LogToLevel,
       ManagerEmit, EmitLineSpecific, HandlerInstall, SetLogLevel, OpenFile,
       ReuseThreadId, StartCall
  <1>3. CASE \E u \in Threads : ApplicationCall(u)
    BY <1>1, <1>2, <1>3, LoggerAssumption DEF Bounded
  <1>4. CASE ~\E u \in Threads : ApplicationCall(u)
    <2>1. calls' = calls /\ life' = life
      BY <1>4 DEF Next, vars, InsideStep, SkipEmission, LockManager, LockHandler,
         WriteLeader, WriteText, EmissionDone, HandlerThrows, RemoveOldHandler,
         InstallNewHandler, BeginExit, ExitStep, DestroyThreadStream, DestroyStream,
         DestroyManager, Stopped
    <2>2. QED
      BY <2>1 DEF Bounded
  <1>5. QED
    BY <1>3, <1>4

LEMMA FileFirstStep == IInv /\ FileFirst /\ [Next]_vars => FileFirst'
  <1> SUFFICES ASSUME IInv, FileFirst, [Next]_vars, NEW u \in Threads
               PROVE  \A i \in 2 .. Len(sinks'[u]) : sinks'[u][i] # "file"
    BY DEF FileFirst
  <1> USE DEF emission_vars, level_vars, output_vars, buffer_vars, lock_vars
  <1>0. CallVarTypes /\ CallInv
    BY TypedCalls DEF IInv
  <1>1. ASSUME NEW t \in Threads, LockHandler(t)
        PROVE  \A i \in 2 .. Len(sinks'[u]) : sinks'[u][i] # "file"
    <2>1. CASE u = t
      BY <1>0, <1>1, <2>1 DEF CallVarTypes, LockHandler, SinksOf
    <2>2. CASE u # t
      BY <1>0, <1>1, <2>2 DEF CallVarTypes, LockHandler, FileFirst
    <2>3. QED
      BY <2>1, <2>2
  <1>2. ASSUME NEW t \in Threads, WriteText(t)
        PROVE  \A i \in 2 .. Len(sinks'[u]) : sinks'[u][i] # "file"
    <2>1. CASE u = t
      <3>1. /\ sinks[t] \in Seq({"file", "console"}) /\ sinks[t] # << >>
            /\ sinks'[t] = Tail(sinks[t])
        BY <1>0, <1>2 DEF CallVarTypes, CallInv, CallOK, WriteText
      <3>2. \A i \in 1 .. Len(sinks'[t]) : i + 1 \in 1 .. Len(sinks[t])
                                        /\ sinks'[t][i] = sinks[t][i + 1]
        BY <3>1
      <3>3. Len(sinks[t]) \in Nat /\ Len(sinks'[t]) \in Nat
        BY <3>1
      <3>4. \A i \in 2 .. Len(sinks[t]) : sinks[t][i] # "file"
        BY DEF FileFirst
      <3>5. ASSUME NEW i \in 2 .. Len(sinks'[t]) PROVE sinks'[t][i] # "file"
        <4>1. i \in 1 .. Len(sinks'[t]) /\ i + 1 \in 2 .. Len(sinks[t])
          BY <3>2, <3>3
        <4>2. QED
          BY <3>2, <3>4, <4>1
      <3>6. QED
        BY <2>1, <3>5
    <2>2. CASE u # t
      BY <1>0, <1>2, <2>2 DEF CallVarTypes, WriteText, FileFirst
    <2>3. QED
      BY <2>1, <2>2
  <1>3. ASSUME NEW t \in Threads, HandlerThrows(t)
        PROVE  \A i \in 2 .. Len(sinks'[u]) : sinks'[u][i] # "file"
    <2>1. sinks'[u] = << >> \/ sinks'[u] = sinks[u]
      BY <1>0, <1>3 DEF CallVarTypes, HandlerThrows
    <2>2. QED
      BY <2>1 DEF FileFirst
  <1>4. ASSUME ~\E t \in Threads : LockHandler(t) \/ WriteText(t) \/ HandlerThrows(t)
        PROVE  \A i \in 2 .. Len(sinks'[u]) : sinks'[u][i] # "file"
    <2>1. ASSUME NEW t \in Threads, ApplicationCall(t) PROVE sinks' = sinks
      BY <2>1 DEF ApplicationCall, PutText, PutEndOfLine, Flush, PutLiteral,
         LogToLevel, ManagerEmit, EmitLineSpecific, HandlerInstall, SetLogLevel,
         OpenFile, ReuseThreadId, StartEmission
    <2>2. ASSUME NEW t \in Threads, InsideStep(t) PROVE sinks' = sinks
      BY <1>4, <2>2 DEF InsideStep, SkipEmission, LockManager, WriteLeader,
         EmissionDone, RemoveOldHandler, InstallNewHandler
    <2>3. ASSUME BeginExit \/ ExitStep \/ Stopped \/ UNCHANGED vars
          PROVE  sinks' = sinks
      BY <2>3 DEF vars, BeginExit, ExitStep, DestroyThreadStream, DestroyStream,
         DestroyManager, Stopped, StartEmission
    <2>4. QED
      BY <2>1, <2>2, <2>3 DEF FileFirst, Next
  <1>5. QED
    BY <1>1, <1>2, <1>3, <1>4

\* A newer piece comes behind older ones.
LEMMA IncreasingAppend ==
  ASSUME NEW a \in Seq(Nat \X Nat), NEW x \in Nat \X Nat, NEW n \in Nat,
         Increasing(a), UpTo(a, n), n < x[2]
  PROVE  Increasing(Append(a, x)) /\ UpTo(Append(a, x), x[2])
  <1> DEFINE b == Append(a, x)
  <1>1. /\ Len(a) \in Nat /\ Len(b) = Len(a) + 1 /\ b[Len(a) + 1] = x
        /\ \A i \in 1 .. Len(a) : b[i] = a[i]
    OBVIOUS
  <1>2. x[2] \in Nat /\ \A i \in 1 .. Len(a) : a[i][2] \in Nat
    <2>1. \A i \in 1 .. Len(a) : a[i] \in Nat \X Nat
      OBVIOUS
    <2>2. QED
      BY <2>1
  <1> HIDE DEF b
  <1>3. \A i \in 1 .. Len(a) : b[i][2] < x[2] /\ b[i][2] \in Nat
    BY <1>1, <1>2 DEF UpTo
  <1>4. ASSUME NEW i \in 1 .. Len(b), NEW j \in 1 .. Len(b), i < j
        PROVE  b[i][2] < b[j][2]
    <2>1. i \in 1 .. Len(a)
      BY <1>1, <1>4
    <2>2. CASE j = Len(a) + 1
      BY <1>1, <1>3, <2>1, <2>2
    <2>3. CASE j \in 1 .. Len(a)
      <3>1. a[i][2] < a[j][2]
        BY <1>4, <2>1, <2>3 DEF Increasing
      <3>2. QED
        BY <1>1, <2>1, <2>3, <3>1
    <2>4. QED
      BY <1>1, <2>2, <2>3
  <1>5. ASSUME NEW i \in 1 .. Len(b) PROVE b[i][2] <= x[2]
    <2>1. i \in 1 .. Len(a) \/ i = Len(a) + 1
      BY <1>1
    <2>2. QED
      BY <1>1, <1>2, <1>3, <2>1
  <1>6. QED
    BY <1>4, <1>5 DEF Increasing, UpTo, b

LEMMA UpToMore ==
  ASSUME NEW a \in Seq(Nat \X Nat), NEW m \in Nat, NEW n \in Nat, m <= n, UpTo(a, m)
  PROVE  UpTo(a, n)
  <1>1. \A i \in 1 .. Len(a) : a[i] \in Nat \X Nat
    OBVIOUS
  <1>2. \A i \in 1 .. Len(a) : a[i][2] \in Nat
    BY <1>1
  <1>3. QED
    BY <1>2 DEF UpTo

LEMMA EmptyText ==
  ASSUME NEW n PROVE Increasing(<< >>) /\ UpTo(<< >>, n)
  BY DEF Increasing, UpTo

\* A thread that returns from an emission has finished with the sinks.
LEMMA ReturnFrame ==
  ASSUME IInv, NEW t \in Threads, InsideStep(t), SkipEmission(t) \/ EmissionDone(t)
  PROVE  /\ Return(t) /\ calls' = calls /\ phase' = phase /\ phase # "aborted"
         /\ pc[t] \in {"emit", "write"} /\ UNCHANGED <<sinks, half>>
         /\ sinks[t] = << >>
         /\ Only(t)
  <1> USE DEF emission_vars, level_vars, output_vars, buffer_vars, lock_vars
  <1>0. CallVarTypes /\ CallInv
    BY TypedCalls DEF IInv
  <1>1. CASE SkipEmission(t)
    BY <1>0, <1>1
    DEF InsideStep, SkipEmission, CallVarTypes, CallInv, CallOK, Only, Return
  <1>2. CASE EmissionDone(t)
    BY <1>0, <1>2
    DEF InsideStep, EmissionDone, CallVarTypes, Only, Return, Unlock
  <1>3. QED
    BY <1>1, <1>2

\* The steps that change a buffer, and the others.
LEMMA BufferKinds ==
  ASSUME IInv, [Next]_vars
  PROVE  \/ \E t \in Threads, s \in Levels : PutText(t, s)
         \/ \E t \in Threads :
              /\ SkipEmission(t) \/ EmissionDone(t)
              /\ Return(t) /\ calls' = calls /\ phase' = phase /\ phase # "aborted"
              /\ pc[t] \in {"emit", "write"} /\ UNCHANGED <<sinks, half>> /\ sinks[t] = << >>
              /\ Only(t)
         \/ line_buffer' = line_buffer
  <1> USE DEF emission_vars, level_vars, output_vars, buffer_vars, lock_vars
  <1>0. CallVarTypes /\ CallInv
    BY TypedCalls DEF IInv
  <1>1. ASSUME NEW t \in Threads, ApplicationCall(t), ~\E s \in Levels : PutText(t, s)
        PROVE  line_buffer' = line_buffer
    BY <1>1 DEF ApplicationCall, PutEndOfLine, Flush, PutLiteral,
       LogToLevel, ManagerEmit, EmitLineSpecific, HandlerInstall, SetLogLevel,
       OpenFile, ReuseThreadId, StartEmission
  <1>2. ASSUME NEW t \in Threads, InsideStep(t), ~SkipEmission(t), ~EmissionDone(t)
        PROVE  line_buffer' = line_buffer
    BY <1>2 DEF InsideStep, LockManager, LockHandler, WriteLeader, WriteText,
       HandlerThrows, RemoveOldHandler, InstallNewHandler
  <1>3. ASSUME BeginExit \/ ExitStep \/ Stopped \/ UNCHANGED vars
        PROVE  line_buffer' = line_buffer
    BY <1>3 DEF vars, BeginExit, ExitStep, DestroyThreadStream, DestroyStream,
       DestroyManager, Stopped, StartEmission
  <1>4. QED
    BY <1>1, <1>2, <1>3, ReturnFrame DEF Next

\* What the return from an emission does to the buffers.
LEMMA ReturnBuffer ==
  ASSUME IInv, NEW t \in Threads, Owed(t), Return(t), pc[t] \in {"emit", "write"}
  PROVE  /\ Head1(t) \in Emissions /\ 1 \in 1 .. Len(todo[t])
         /\ EmissionOK(t, 1) /\ todo[t][1] = Head1(t)
         /\ \A s \in Levels, u \in Threads : line_buffer'[s][u] =
              IF FromBuffer(Head1(t)) /\ s = Head1(t).level /\ u = Head1(t).owner
              THEN << >> ELSE line_buffer[s][u]
  <1>1. Head1(t) \in Emissions /\ todo[t] # << >> /\ todo[t] \in Seq(Emissions)
    BY HeadTypes DEF IInv, TypeOK
  <1>2. 1 \in 1 .. Len(todo[t])
    BY <1>1, EmptySeq
  <1>3. EmissionOK(t, 1) /\ todo[t][1] = Head1(t)
    BY <1>2 DEF Owed, Head1
  <1>4. line_buffer \in [Levels -> [Threads -> Seq(Nat \X Nat)]]
    BY DEF IInv, TypeOK
  <1>5. Head1(t).owner \in Threads
    BY <1>1 DEF Emissions
  <1>6. FromBuffer(Head1(t)) => Head1(t).level \in Levels
    BY <1>3 DEF EmissionOK
  <1>7. \A s \in Levels, u \in Threads : line_buffer'[s][u] =
          IF FromBuffer(Head1(t)) /\ s = Head1(t).level /\ u = Head1(t).owner
          THEN << >> ELSE line_buffer[s][u]
    BY <1>4, <1>5, <1>6 DEF Return, ClearLine
  <1>8. QED
    BY <1>1, <1>2, <1>3, <1>7

LEMMA CallsGrow ==
  ASSUME IInv, [Next]_vars, NEW t \in Threads
  PROVE  calls[t] \in Nat /\ calls'[t] \in Nat /\ calls[t] <= calls'[t]
  <1>1. calls \in [Threads -> Nat]
    BY DEF IInv, TypeOK
  <1>2. ASSUME NEW u \in Threads, ApplicationCall(u)
        PROVE  calls' = [calls EXCEPT ![u] = @ + 1] \/ calls' = calls
    BY <1>2 DEF ApplicationCall, PutText, PutEndOfLine, Flush, PutLiteral, LogToLevel,
       ManagerEmit, EmitLineSpecific, HandlerInstall, SetLogLevel, OpenFile,
       ReuseThreadId, StartCall
  <1>3. CASE \E u \in Threads : ApplicationCall(u)
    BY <1>1, <1>2, <1>3
  <1>4. CASE ~\E u \in Threads : ApplicationCall(u)
    <2>1. calls' = calls
      BY <1>4 DEF Next, vars, InsideStep, SkipEmission, LockManager, LockHandler,
         WriteLeader, WriteText, EmissionDone, HandlerThrows, RemoveOldHandler,
         InstallNewHandler, BeginExit, ExitStep, DestroyThreadStream, DestroyStream,
         DestroyManager, Stopped
    <2>2. QED
      BY <1>1, <2>1
  <1>5. QED
    BY <1>3, <1>4

LEMMA BufferedStep == IInv /\ DataInv /\ [Next]_vars => Buffered'
  <1> SUFFICES ASSUME IInv, DataInv, [Next]_vars, NEW s \in Levels, NEW t \in Threads
               PROVE  Increasing(line_buffer'[s][t]) /\ UpTo(line_buffer'[s][t], calls'[t])
    BY DEF Buffered, Increasing, UpTo
  <1>1. /\ line_buffer \in [Levels -> [Threads -> Seq(Nat \X Nat)]]
        /\ line_buffer[s][t] \in Seq(Nat \X Nat)
    BY DEF IInv, TypeOK
  <1>2. Increasing(line_buffer[s][t]) /\ UpTo(line_buffer[s][t], calls[t])
    BY DEF DataInv, Buffered
  <1>3. calls[t] \in Nat /\ calls'[t] \in Nat /\ calls[t] <= calls'[t]
    BY CallsGrow
  <1>4. CASE line_buffer'[s][t] = line_buffer[s][t]
    BY <1>1, <1>2, <1>3, <1>4, UpToMore
  <1>5. CASE line_buffer'[s][t] = << >>
    BY <1>5, EmptyText
  <1>6. ASSUME NEW u \in Threads, NEW r \in Levels, PutText(u, r),
               line_buffer'[s][t] # line_buffer[s][t]
        PROVE  Increasing(line_buffer'[s][t]) /\ UpTo(line_buffer'[s][t], calls'[t])
    <2>1. u = t /\ r = s
      BY <1>1, <1>6 DEF PutText
    <2>2. line_buffer'[s][t] = Append(line_buffer[s][t], NewText(t))
      BY <1>1, <1>6, <2>1 DEF PutText
    <2>3. NewText(t) \in Nat \X Nat /\ NewText(t)[2] = calls[t] + 1
      BY EmissionTypes DEF IInv, Sources, NewText
    <2>4. calls'[t] = calls[t] + 1
      BY <1>6, <2>1 DEF PutText, StartCall, IInv, TypeOK
    <2> DEFINE b == line_buffer[s][t]
               x == NewText(t)
    <2>5. calls[t] < x[2] /\ x[2] = calls'[t] /\ x \in Nat \X Nat /\ b \in Seq(Nat \X Nat)
      BY <1>1, <1>3, <2>3, <2>4
    <2>6. Increasing(b) /\ UpTo(b, calls[t])
      BY <1>2
    <2> HIDE DEF b, x
    <2>7. Increasing(Append(b, x)) /\ UpTo(Append(b, x), x[2])
      BY <1>3, <2>5, <2>6, IncreasingAppend
    <2>8. QED
      BY <2>2, <2>5, <2>7 DEF b, x
  <1>7. ASSUME NEW u \in Threads, Return(u), pc[u] \in {"emit", "write"}
        PROVE  line_buffer'[s][t] \in {<< >>, line_buffer[s][t]}
    BY <1>7, ReturnBuffer DEF DataInv
  <1>8. QED
    BY <1>4, <1>5, <1>6, <1>7, BufferKinds

-----------------------------------------------------------------------------
(* Emissions still owed.                                                   *)

LEMMA OwedNothing ==
  ASSUME NEW u \in Threads, todo'[u] = << >> PROVE Owed(u)'
  BY DEF Owed

\* A step that leaves what u owes, and the buffers this is about.
LEMMA OwedSame ==
  ASSUME IInv, NEW u \in Threads, Owed(u), todo'[u] = todo[u],
         todo[u] # << >> =>
           /\ calls'[u] = calls[u]
           /\ phase' = "running" => phase = "running"
           /\ \A s \in Levels, o \in Threads :
                o = u \/ (u = Main /\ phase # "running") =>
                  line_buffer'[s][o] = line_buffer[s][o]
  PROVE  Owed(u)'
  <1> SUFFICES ASSUME NEW i \in 1 .. Len(todo[u]) PROVE EmissionOK(u, i)'
    BY DEF Owed
  <1>1. todo[u] \in Seq(Emissions)
    BY DEF IInv, TypeOK
  <1>2. todo[u] # << >> /\ todo[u][i] \in Emissions
    BY <1>1
  <1>3. todo[u][i].owner \in Threads
    BY <1>2 DEF Emissions
  <1>4. EmissionOK(u, i)
    BY DEF Owed
  <1>5. Head1(u)' = Head1(u)
    BY DEF Head1
  <1> DEFINE em == todo[u][i]
  <1>6. /\ calls'[u] = calls[u]
        /\ phase' = "running" => phase = "running"
        /\ \A s \in Levels, o \in Threads :
             o = u \/ (u = Main /\ phase # "running") =>
               line_buffer'[s][o] = line_buffer[s][o]
    BY <1>2
  <1>7. /\ em.src = "exit" => u = Main /\ phase # "running" /\ phase' # "running"
        /\ em.src # "exit" => em.owner = u
        /\ em.src = "direct" => em.level = NoLevel
    BY <1>4, <1>6 DEF EmissionOK
  <1>8. FromBuffer(em) => /\ i = 1 /\ em.level \in Levels
                          /\ em.text = line_buffer'[em.level][em.owner]
    BY <1>3, <1>4, <1>6, <1>7 DEF EmissionOK
  <1>9. ~FromBuffer(em) => \E x \in Texts : em.text = << x >>
    BY <1>4 DEF EmissionOK
  <1>10. em.src = "literal" =>
           /\ em.level \in Levels
           /\ em.text[1][2] = calls'[u]
           /\ UpTo(line_buffer'[em.level][u], calls'[u] - 1)
           /\ i = 1 => line_buffer'[em.level][u] = << >>
           /\ i # 1 => i = 2 /\ Head1(u).src = "sync" /\ Head1(u).level = em.level
    BY <1>4, <1>6 DEF EmissionOK
  <1>11. QED
    BY <1>5, <1>7, <1>8, <1>9, <1>10 DEF EmissionOK

\* A call that starts leaves what other threads owe.
LEMMA OtherOwed ==
  ASSUME IInv, DataInv, NEW t \in Threads, NEW u \in Threads, u # t,
         phase = "running", todo'[u] = todo[u],
         calls' = [calls EXCEPT ![t] = @ + 1],
         \A s \in Levels : line_buffer'[s][u] = line_buffer[s][u]
  PROVE  Owed(u)'
  <1>1. calls'[u] = calls[u]
    BY DEF IInv, TypeOK
  <1>2. Owed(u)
    BY DEF DataInv
  <1>3. QED
    BY <1>1, <1>2, OwedSame

\* What a call that starts owes.
LEMMA NewOwed ==
  ASSUME IInv, DataInv, NEW t \in Threads, calls[t] < MaxCalls[t],
         calls' = [calls EXCEPT ![t] = @ + 1], line_buffer' = line_buffer,
         \/ /\ phase = "running"
            /\ \E s \in Levels : todo'[t] = << BufferLine(s, t, "insert") >>
         \/ \E s \in Levels \union {NoLevel}, src \in {"temp", "manager", "direct"} :
              /\ todo'[t] = << Fresh(s, t, src) >>
              /\ src = "direct" => s = NoLevel
  PROVE  Owed(t)'
  <1> SUFFICES ASSUME NEW i \in 1 .. Len(todo'[t]) PROVE EmissionOK(t, i)'
    BY DEF Owed
  <1>1. NewText(t) \in Texts
    BY NewTextIsText DEF IInv, DataInv
  <1>2. CASE \E s \in Levels : todo'[t] = << BufferLine(s, t, "insert") >>
    <2>1. PICK s \in Levels : todo'[t] = << BufferLine(s, t, "insert") >>
      BY <1>2
    <2>2. i = 1 /\ todo'[t][i] = BufferLine(s, t, "insert")
      BY <2>1
    <2>3. /\ todo'[t][i].src = "insert" /\ todo'[t][i].owner = t
          /\ todo'[t][i].level = s /\ todo'[t][i].text = line_buffer[s][t]
      BY <2>2 DEF BufferLine, Emission
    <2>4. QED
      BY <2>2, <2>3 DEF EmissionOK, FromBuffer
  <1>3. CASE \E s \in Levels \union {NoLevel}, src \in {"temp", "manager", "direct"} :
               /\ todo'[t] = << Fresh(s, t, src) >>
               /\ src = "direct" => s = NoLevel
    <2>1. PICK s \in Levels \union {NoLevel}, src \in {"temp", "manager", "direct"} :
               /\ todo'[t] = << Fresh(s, t, src) >>
               /\ src = "direct" => s = NoLevel
      BY <1>3
    <2>2. i = 1 /\ todo'[t][i] = Fresh(s, t, src)
      BY <2>1
    <2>3. /\ todo'[t][i].src = src /\ todo'[t][i].owner = t
          /\ todo'[t][i].level = s /\ todo'[t][i].text = << NewText(t) >>
      BY <2>2 DEF Fresh, Emission
    <2>4. QED
      BY <1>1, <2>1, <2>2, <2>3 DEF EmissionOK, FromBuffer
  <1>4. QED
    BY <1>2, <1>3

LEMMA PairConcat ==
  ASSUME NEW a, NEW b PROVE << a >> \o << b >> = << a, b >>
  <1> DEFINE S == {a, b}
  <1>1. << a >> \in Seq(S) /\ << b >> \in Seq(S) /\ << a, b >> \in Seq(S)
    OBVIOUS
  <1>2. /\ << a >> \o << b >> \in Seq(S)
        /\ Len(<< a >> \o << b >>) = 2
        /\ (<< a >> \o << b >>)[1] = a
        /\ (<< a >> \o << b >>)[2] = b
    BY <1>1
  <1> DEFINE c == << a >> \o << b >>
             d == << a, b >>
  <1>3. Len(d) = 2 /\ d[1] = a /\ d[2] = b
    OBVIOUS
  <1> HIDE DEF c, d
  <1>4. /\ c \in Seq(S) /\ d \in Seq(S) /\ Len(c) = Len(d)
        /\ \A i \in 1 .. Len(c) : c[i] = d[i]
    BY <1>1, <1>2, <1>3 DEF c, d
  <1>5. c = d
    BY <1>4, SeqEqual
  <1>6. QED
    BY <1>5 DEF c, d

\* A literal is owed behind the unfinished line of its thread.
LEMMA LiteralOwed ==
  ASSUME IInv, DataInv, NEW t \in Threads, NEW s \in Levels, PutLiteral(t, s)
  PROVE  Owed(t)'
  <1> USE DEF emission_vars, level_vars, output_vars, buffer_vars, lock_vars
  <1> SUFFICES ASSUME NEW i \in 1 .. Len(todo'[t]) PROVE EmissionOK(t, i)'
    BY DEF Owed
  <1> DEFINE line == line_buffer[s][t]
             literal == Fresh(s, t, "literal")
  <1>1. calls[t] < MaxCalls[t] /\ phase = "running" /\ phase' = phase
    BY DEF PutLiteral, StartCall
  <1>2. NewText(t) \in Texts
    BY <1>1, NewTextIsText DEF IInv, DataInv
  <1>3. calls'[t] = calls[t] + 1 /\ calls[t] \in Nat /\ line_buffer' = line_buffer
    BY DEF PutLiteral, StartCall, IInv, TypeOK
  <1>4. UpTo(line, calls'[t] - 1)
    BY <1>3 DEF DataInv, Buffered
  <1>5. /\ literal.src = "literal" /\ literal.owner = t /\ literal.level = s
        /\ literal.text = << NewText(t) >> /\ NewText(t)[2] = calls'[t]
    BY <1>3 DEF Fresh, Emission, NewText
  <1>6. todo'[t] = (IF line = << >> THEN << >> ELSE << BufferLine(s, t, "sync") >>)
                     \o << literal >>
    BY DEF PutLiteral, StartEmission, IInv, TypeOK
  <1>7. CASE line = << >>
    <2>1. todo'[t] = << literal >>
      BY <1>6, <1>7
    <2>2. i = 1 /\ todo'[t][i] = literal
      BY <2>1
    <2> HIDE DEF literal
    <2>3. QED
      BY <1>2, <1>3, <1>4, <1>5, <1>7, <2>2 DEF EmissionOK, FromBuffer
  <1>8. CASE line # << >>
    <2> DEFINE sync == BufferLine(s, t, "sync")
    <2>1. todo'[t] = << sync, literal >>
      <3>1. todo'[t] = << sync >> \o << literal >>
        BY <1>6, <1>8
      <3>2. QED
        BY <3>1, PairConcat
    <2>2. /\ sync.src = "sync" /\ sync.owner = t /\ sync.level = s
          /\ sync.text = line_buffer'[s][t]
      BY <1>3 DEF BufferLine, Emission
    <2> HIDE DEF sync, literal
    <2>3. Head1(t)' = sync /\ i \in {1, 2}
      BY <2>1 DEF Head1
    <2>4. CASE i = 1
      <3>1. todo'[t][i] = sync
        BY <2>1, <2>4
      <3>2. QED
        BY <1>1, <2>2, <2>4, <3>1 DEF EmissionOK, FromBuffer
    <2>5. CASE i = 2
      <3>1. todo'[t][i] = literal
        BY <2>1, <2>5
      <3>2. QED
        BY <1>2, <1>3, <1>4, <1>5, <2>2, <2>3, <2>5, <3>1 DEF EmissionOK, FromBuffer
    <2>6. QED
      BY <2>3, <2>4, <2>5
  <1>9. QED
    BY <1>7, <1>8

\* What t still owes when it returns from an emission.
LEMMA ReturnOwed ==
  ASSUME IInv, DataInv, NEW t \in Threads, Return(t), pc[t] \in {"emit", "write"},
         calls' = calls, phase' = phase
  PROVE  Owed(t)'
  <1>1. /\ EmissionOK(t, 1) /\ todo[t][1] = Head1(t)
        /\ \A s \in Levels, u \in Threads : line_buffer'[s][u] =
             IF FromBuffer(Head1(t)) /\ s = Head1(t).level /\ u = Head1(t).owner
             THEN << >> ELSE line_buffer[s][u]
    BY ReturnBuffer DEF DataInv
  <1>2. /\ todo[t] \in Seq(Emissions) /\ todo[t] # << >> /\ todo'[t] = Tail(todo[t])
        /\ calls[t] \in Nat
    BY HeadTypes DEF IInv, TypeOK, Return
  <1>3. /\ Len(todo[t]) \in Nat /\ Len(todo'[t]) = Len(todo[t]) - 1
        /\ \A i \in 1 .. Len(todo'[t]) : todo'[t][i] = todo[t][i + 1]
    BY <1>2
  <1> SUFFICES ASSUME NEW i \in 1 .. Len(todo'[t]) PROVE EmissionOK(t, i)'
    BY DEF Owed
  <1>4. i + 1 \in 1 .. Len(todo[t]) /\ i + 1 # 1
    BY <1>3
  <1>5. EmissionOK(t, i + 1) /\ todo'[t][i] = todo[t][i + 1]
    BY <1>3, <1>4 DEF DataInv, Owed
  <1> DEFINE em == todo[t][i + 1]
  <1>6. /\ ~FromBuffer(em)
        /\ em.src = "exit" => t = Main /\ phase' # "running"
        /\ em.src # "exit" => em.owner = t
        /\ em.src = "direct" => em.level = NoLevel
        /\ \E x \in Texts : em.text = << x >>
    BY <1>4, <1>5 DEF EmissionOK
  <1>7. ASSUME em.src = "literal"
        PROVE  /\ em.level \in Levels /\ em.text[1][2] = calls'[t]
               /\ i = 1 /\ line_buffer'[em.level][t] = << >>
    <2>1. /\ em.level \in Levels /\ em.text[1][2] = calls'[t]
          /\ i + 1 = 2 /\ Head1(t).src = "sync" /\ Head1(t).level = em.level
      BY <1>4, <1>5, <1>7 DEF EmissionOK
    <2>2. FromBuffer(Head1(t)) /\ Head1(t).owner = t
      BY <1>1, <2>1 DEF EmissionOK, FromBuffer
    <2>3. QED
      BY <1>1, <2>1, <2>2
  <1>8. em.src = "literal" => UpTo(line_buffer'[em.level][t], calls'[t] - 1)
    BY <1>7, EmptyText
  <1>9. QED
    BY <1>5, <1>6, <1>7, <1>8 DEF EmissionOK

\* No step of another thread spoils what u owes.
LEMMA OwedStep == IInv /\ DataInv /\ [Next]_vars => \A u \in Threads : Owed(u)'
  <1> SUFFICES ASSUME IInv, DataInv, [Next]_vars, NEW u \in Threads PROVE Owed(u)'
    OBVIOUS
  <1> USE DEF emission_vars, level_vars, output_vars, buffer_vars, lock_vars
  <1>0. /\ CallVarTypes /\ CallInv /\ Owed(u)
        /\ calls \in [Threads -> Nat]
        /\ line_buffer \in [Levels -> [Threads -> Seq(Nat \X Nat)]]
    BY TypedCalls DEF IInv, TypeOK, DataInv
  <1>1. ASSUME NEW t \in Threads, NEW s \in Levels, PutText(t, s) PROVE Owed(u)'
    <2>1. CASE u = t
      <3>1. todo'[u] = << >>
        BY <1>0, <1>1, <2>1 DEF PutText, StartCall, CallInv, CallOK
      <3>2. QED
        BY <3>1, OwedNothing
    <2>2. CASE u # t
      <3>1. \A r \in Levels : line_buffer'[r][u] = line_buffer[r][u]
        BY <1>0, <1>1, <2>2 DEF PutText
      <3>2. QED
        BY <1>1, <2>2, <3>1, OtherOwed DEF PutText, StartCall
    <2>3. QED
      BY <2>1, <2>2
  <1>2. ASSUME NEW t \in Threads, phase = "running", calls' = [calls EXCEPT ![t] = @ + 1],
               calls[t] < MaxCalls[t], line_buffer' = line_buffer,
               \A v \in Threads : v # t => todo'[v] = todo[v],
               \/ todo'[t] = << >>
               \/ \E s \in Levels : todo'[t] = << BufferLine(s, t, "insert") >>
               \/ \E s \in Levels \union {NoLevel}, src \in {"temp", "manager", "direct"} :
                    /\ todo'[t] = << Fresh(s, t, src) >>
                    /\ src = "direct" => s = NoLevel
        PROVE  Owed(u)'
    <2>1. CASE u # t
      BY <1>2, <2>1, OtherOwed
    <2>2. CASE u = t /\ todo'[t] = << >>
      BY <2>2, OwedNothing
    <2>3. CASE u = t /\ todo'[t] # << >>
      BY <1>2, <2>3, NewOwed
    <2>4. QED
      BY <2>1, <2>2, <2>3
  <1>3. ASSUME NEW t \in Threads, NEW s \in Levels,
               PutEndOfLine(t, s) \/ Flush(t, s)
        PROVE  Owed(u)'
    <2>1. todo'[t] = << BufferLine(s, t, "insert") >>
      BY <1>0, <1>3 DEF PutEndOfLine, Flush, StartEmission, CallVarTypes
    <2>2. \A v \in Threads : v # t => todo'[v] = todo[v]
      BY <1>0, <1>3 DEF PutEndOfLine, Flush, StartEmission, CallVarTypes
    <2>3. /\ phase = "running" /\ calls' = [calls EXCEPT ![t] = @ + 1]
          /\ calls[t] < MaxCalls[t] /\ line_buffer' = line_buffer
      BY <1>3 DEF PutEndOfLine, Flush, StartCall
    <2>4. QED
      BY <1>2, <2>1, <2>2, <2>3
  <1>4. ASSUME NEW t \in Threads, NEW s \in Levels, PutLiteral(t, s) PROVE Owed(u)'
    <2>1. CASE u = t
      BY <1>4, <2>1, LiteralOwed
    <2>2. CASE u # t
      <3>1. todo'[u] = todo[u]
        BY <1>0, <1>4, <2>2 DEF PutLiteral, StartEmission, CallVarTypes
      <3>2. QED
        BY <1>4, <2>2, <3>1, OtherOwed DEF PutLiteral, StartCall
    <2>3. QED
      BY <2>1, <2>2
  <1>5. ASSUME NEW t \in Threads, NEW s \in Levels \union {NoLevel},
               (s \in Levels /\ LogToLevel(t, s)) \/ ManagerEmit(t, s)
        PROVE  Owed(u)'
    <2>1. \E src \in {"temp", "manager", "direct"} :
            /\ todo'[t] = << Fresh(s, t, src) >>
            /\ src = "direct" => s = NoLevel
      BY <1>0, <1>5 DEF LogToLevel, ManagerEmit, StartEmission, CallVarTypes
    <2>2. \A v \in Threads : v # t => todo'[v] = todo[v]
      BY <1>0, <1>5 DEF LogToLevel, ManagerEmit, StartEmission, CallVarTypes
    <2>3. /\ phase = "running" /\ calls' = [calls EXCEPT ![t] = @ + 1]
          /\ calls[t] < MaxCalls[t] /\ line_buffer' = line_buffer
      BY <1>5 DEF LogToLevel, ManagerEmit, StartCall
    <2>4. QED
      BY <1>2, <2>1, <2>2, <2>3
  <1>6. ASSUME NEW t \in Threads, NEW h \in Direct, EmitLineSpecific(t, h) PROVE Owed(u)'
    <2>1. todo'[t] = << Fresh(NoLevel, t, "direct") >>
      BY <1>0, <1>6 DEF EmitLineSpecific, CallVarTypes
    <2>2. \A v \in Threads : v # t => todo'[v] = todo[v]
      BY <1>0, <1>6 DEF EmitLineSpecific, CallVarTypes
    <2>3. /\ phase = "running" /\ calls' = [calls EXCEPT ![t] = @ + 1]
          /\ calls[t] < MaxCalls[t] /\ line_buffer' = line_buffer
      BY <1>6 DEF EmitLineSpecific, StartCall
    <2>4. QED
      BY <1>2, <2>1, <2>2, <2>3
  <1>7. ASSUME NEW t \in Threads,
               \/ \E h \in Handlers \union {NoHandler} : HandlerInstall(t, h)
               \/ \E lo, hi \in Levels : SetLogLevel(t, lo, hi)
               \/ \E h \in HasFile : OpenFile(t, h)
        PROVE  Owed(u)'
    <2>1. todo'[t] = << >> /\ todo' = todo
      BY <1>0, <1>7 DEF HandlerInstall, SetLogLevel, OpenFile, StartCall, CallInv, CallOK
    <2>2. /\ phase = "running" /\ calls' = [calls EXCEPT ![t] = @ + 1]
          /\ calls[t] < MaxCalls[t] /\ line_buffer' = line_buffer
      BY <1>7 DEF HandlerInstall, SetLogLevel, OpenFile, StartCall
    <2>3. QED
      BY <1>2, <2>1, <2>2
  <1>8. ASSUME todo'[u] = todo[u], UNCHANGED <<line_buffer, calls>>,
               phase' = "running" => phase = "running"
        PROVE  Owed(u)'
    BY <1>0, <1>8, OwedSame
  <1>9. ASSUME NEW t \in Threads, SkipEmission(t) \/ EmissionDone(t), Return(t),
               calls' = calls, phase' = phase, phase # "aborted",
               pc[t] \in {"emit", "write"}, Only(t)
        PROVE  Owed(u)'
    <2>1. CASE u = t
      BY <1>9, <2>1, ReturnOwed
    <2>2. CASE u # t /\ phase = "running"
      <3>1. /\ EmissionOK(t, 1) /\ todo[t][1] = Head1(t)
            /\ \A s \in Levels, o \in Threads : line_buffer'[s][o] =
                 IF FromBuffer(Head1(t)) /\ s = Head1(t).level /\ o = Head1(t).owner
                 THEN << >> ELSE line_buffer[s][o]
        BY <1>9, ReturnBuffer DEF DataInv
      <3>2. Head1(t).owner = t
        BY <2>2, <3>1 DEF EmissionOK
      <3>3. \A s \in Levels : line_buffer'[s][u] = line_buffer[s][u]
        BY <2>2, <3>1, <3>2
      <3>4. todo'[u] = todo[u]
        BY <1>9, <2>2 DEF Only
      <3>5. QED
        BY <1>0, <1>9, <2>2, <3>3, <3>4, OwedSame
    <2>3. CASE u # t /\ phase # "running"
      <3>1. phase \in {"exiting", "exited"}
        BY <1>9, <2>3 DEF IInv, TypeOK
      <3>2. t = Main
        BY <1>0, <1>9, <3>1 DEF CallInv, CallOK
      <3>3. todo[u] = << >>
        BY <1>0, <2>3, <3>1, <3>2 DEF CallInv, CallOK
      <3>4. todo'[u] = << >>
        BY <1>9, <2>3, <3>3 DEF Only
      <3>5. QED
        BY <3>4, OwedNothing
    <2>4. QED
      BY <2>1, <2>2, <2>3
  <1>10. ASSUME NEW t \in Threads, HandlerThrows(t) PROVE Owed(u)'
    <2>1. CASE u = t
      <3>1. todo'[u] = << >>
        BY <1>0, <1>10, <2>1 DEF HandlerThrows, CallVarTypes
      <3>2. QED
        BY <3>1, OwedNothing
    <2>2. CASE u # t
      <3>1. todo'[u] = todo[u] /\ UNCHANGED <<line_buffer, calls>>
        BY <1>0, <1>10, <2>2 DEF HandlerThrows, CallVarTypes
      <3>2. phase' = "running" => phase = "running"
        BY <1>10 DEF HandlerThrows
      <3>3. QED
        BY <1>8, <3>1, <3>2
    <2>3. QED
      BY <2>1, <2>2
  <1>11. ASSUME NEW s \in Levels, NEW o \in Threads, DestroyThreadStream(s, o)
         PROVE  Owed(u)'
    <2>1. /\ todo'[Main] = << BufferLine(s, o, "exit") >> /\ UNCHANGED <<line_buffer, calls>>
          /\ phase' = phase /\ phase # "running"
      BY <1>0, <1>11, LoggerAssumption
      DEF DestroyThreadStream, StartEmission, CallVarTypes
    <2>2. CASE u = Main
      <3> SUFFICES ASSUME NEW i \in 1 .. Len(todo'[u]) PROVE EmissionOK(u, i)'
        BY DEF Owed
      <3>a. todo'[u] = << BufferLine(s, o, "exit") >>
        BY <2>1, <2>2
      <3>1. i = 1 /\ todo'[u][i] = BufferLine(s, o, "exit")
        BY <3>a
      <3>2. /\ todo'[u][i].src = "exit" /\ todo'[u][i].owner = o
            /\ todo'[u][i].level = s /\ todo'[u][i].text = line_buffer'[s][o]
        BY <2>1, <3>1 DEF BufferLine, Emission
      <3>3. QED
        BY <2>1, <2>2, <3>1, <3>2 DEF EmissionOK, FromBuffer
    <2>3. CASE u # Main
      <3>1. todo'[u] = todo[u]
        BY <1>0, <1>11, <2>3, LoggerAssumption
        DEF DestroyThreadStream, StartEmission, CallVarTypes
      <3>2. QED
        BY <1>8, <2>1, <3>1
    <2>4. QED
      BY <2>2, <2>3
  <1>12. ASSUME NEW t \in Threads, InsideStep(t), ~SkipEmission(t), ~EmissionDone(t),
                ~HandlerThrows(t)
         PROVE  Owed(u)'
    <2>1. UNCHANGED <<todo, line_buffer, calls, phase>>
      BY <1>12 DEF InsideStep, LockManager, LockHandler, WriteLeader, WriteText,
         RemoveOldHandler, InstallNewHandler
    <2>2. QED
      BY <1>8, <2>1
  <1>13. ASSUME \/ \E t \in Threads : ReuseThreadId(t)
                \/ BeginExit \/ (\E s \in Levels : DestroyStream(s)) \/ DestroyManager
                \/ Stopped \/ UNCHANGED vars
         PROVE  Owed(u)'
    <2>1. UNCHANGED <<todo, line_buffer, calls>> /\ (phase' = "running" => phase = "running")
      BY <1>13 DEF ReuseThreadId, BeginExit, DestroyStream, DestroyManager, Stopped, vars
    <2>2. QED
      BY <1>8, <2>1
  <1>14. ASSUME NEW t \in Threads, ApplicationCall(t) PROVE Owed(u)'
    BY <1>1, <1>3, <1>4, <1>5, <1>6, <1>7, <1>13, <1>14 DEF ApplicationCall
  <1>15. ASSUME NEW t \in Threads, InsideStep(t), SkipEmission(t) \/ EmissionDone(t)
         PROVE  Owed(u)'
    <2>1. /\ Return(t) /\ calls' = calls /\ phase' = phase /\ phase # "aborted"
          /\ pc[t] \in {"emit", "write"} /\ Only(t)
      BY <1>15, ReturnFrame
    <2>2. QED
      BY <1>9, <1>15, <2>1
  <1>16. QED
    BY <1>10, <1>11, <1>12, <1>13, <1>14, <1>15 DEF Next, ExitStep

LEMMA DataStep == IInv /\ DataInv /\ [Next]_vars => DataInv'
  BY BoundedStep, FileFirstStep, BufferedStep, OwedStep DEF DataInv

LEMMA DataInductive == Spec => [](IInv /\ DataInv)
  BY DataInit, DataStep, Inductive, PTL DEF Spec

-----------------------------------------------------------------------------
(* The order of the text in a file.                                        *)

AllBefore(a, b) == \A k \in 1 .. Len(a), l \in 1 .. Len(b) : a[k][2] < b[l][2]

\* t has written its line to the file of h, or will not, and is still in h.
InFile(t, h) ==
  /\ pc[t] = "write"
  /\ target[t] = h
  /\ \A i \in 1 .. Len(sinks[t]) : sinks[t][i] # "file"

\* What streamed text in the file of h is older than: all that its thread has
\* still in the buffer, unless that is the line just written, and a literal that the
\* thread has still to write.
PieceOK(p, h) == Streamed(p) =>
  /\ p.level \in Levels
  /\ Increasing(p.text)
  /\ UpTo(p.text, calls[p.owner])
  /\ \/ AllBefore(p.text, line_buffer[p.level][p.owner])
     \/ \E t \in Threads :
          InFile(t, h) /\ FromBuffer(Head1(t)) /\ SameStream(p, Head1(t))
  /\ \A j \in 1 .. Len(todo[p.owner]) :
       todo[p.owner][j].src = "literal" /\ todo[p.owner][j].level = p.level =>
         \/ UpTo(p.text, calls[p.owner] - 1)
         \/ j = 1 /\ InFile(p.owner, h)

InOrder(f) == \A i, j \in 1 .. Len(f) :
  i < j /\ Streamed(f[i]) /\ Streamed(f[j]) /\ SameStream(f[i], f[j]) =>
    AllBefore(f[i].text, f[j].text)

OrderInv == \A h \in Handlers :
  /\ InOrder(file[h])
  /\ \A i \in 1 .. Len(file[h]) : PieceOK(file[h][i], h)

\* A thread that is done with the file stays so until it returns.
LEMMA InFileKept ==
  ASSUME IInv, [Next]_vars, NEW t \in Threads, NEW h \in Handlers, InFile(t, h)
  PROVE  \/ InFile(t, h)' /\ todo'[t] = todo[t]
         \/ InsideStep(t) /\ EmissionDone(t)
  <1> USE DEF emission_vars, level_vars, output_vars, buffer_vars, lock_vars
  <1>0. CallVarTypes /\ CallInv
    BY TypedCalls DEF IInv
  <1>1. CASE UNCHANGED <<pc, target, sinks, todo>>
    BY <1>1 DEF InFile
  <1>2. ASSUME NEW u \in Threads, ApplicationCall(u)
        PROVE  /\ pc'[t] = pc[t] /\ target'[t] = target[t] /\ sinks'[t] = sinks[t]
               /\ todo'[t] = todo[t]
    <2>1. CASE ReuseThreadId(u)
      BY <2>1 DEF ReuseThreadId
    <2>2. CASE ~ReuseThreadId(u)
      <3>1. pc[u] = "idle"
        BY <1>2, <2>2 DEF ApplicationCall, PutText, PutEndOfLine, Flush, PutLiteral,
           LogToLevel, ManagerEmit, EmitLineSpecific, HandlerInstall, SetLogLevel,
           OpenFile, StartCall
      <3>2. u # t
        BY <3>1 DEF InFile
      <3>3. QED
        BY <1>0, <1>2, <3>2 DEF CallVarTypes, ApplicationCall, PutText, PutEndOfLine,
           Flush, PutLiteral, LogToLevel, ManagerEmit, EmitLineSpecific, HandlerInstall,
           SetLogLevel, OpenFile, ReuseThreadId, StartEmission
    <2>3. QED
      BY <2>1, <2>2
  <1>3. ASSUME NEW u \in Threads, InsideStep(u), u # t
        PROVE  /\ pc'[t] = pc[t] /\ target'[t] = target[t] /\ sinks'[t] = sinks[t]
               /\ todo'[t] = todo[t]
    <2>1. CASE SkipEmission(u) \/ EmissionDone(u)
      BY <1>0, <1>3, <2>1 DEF CallVarTypes, SkipEmission, EmissionDone, Return, Unlock
    <2>2. CASE LockManager(u) \/ LockHandler(u) \/ WriteLeader(u) \/ WriteText(u)
      BY <1>0, <1>3, <2>2 DEF CallVarTypes, LockManager, LockHandler, WriteLeader,
         WriteText
    <2>3. CASE HandlerThrows(u) \/ RemoveOldHandler(u) \/ InstallNewHandler(u)
      BY <1>0, <1>3, <2>3 DEF CallVarTypes, HandlerThrows, RemoveOldHandler,
         InstallNewHandler, Unlock
    <2>4. QED
      BY <1>3, <2>1, <2>2, <2>3 DEF InsideStep
  <1>4. ASSUME InsideStep(t), ~EmissionDone(t)
        PROVE  InFile(t, h)' /\ todo'[t] = todo[t]
    <2>1. CASE WriteLeader(t)
      BY <2>1 DEF WriteLeader, InFile
    <2>2. CASE WriteText(t)
      <3>1. /\ sinks[t] \in Seq({"file", "console"}) /\ sinks[t] # << >>
            /\ sinks'[t] = Tail(sinks[t])
        BY <1>0, <2>2 DEF CallVarTypes, CallInv, CallOK, WriteText
      <3>2. \A i \in 1 .. Len(sinks'[t]) : i + 1 \in 1 .. Len(sinks[t])
                                        /\ sinks'[t][i] = sinks[t][i + 1]
        BY <3>1
      <3>3. \A i \in 1 .. Len(sinks'[t]) : sinks'[t][i] # "file"
        BY <3>2 DEF InFile
      <3>4. QED
        BY <2>2, <3>3 DEF WriteText, InFile
    <2>3. CASE HandlerThrows(t)
      <3>1. sinks[t] # << >> /\ sinks[t][1] = "file" /\ sinks[t] \in Seq({"file", "console"})
        BY <1>0, <2>3 DEF HandlerThrows, CallVarTypes
      <3>2. 1 \in 1 .. Len(sinks[t])
        BY <3>1, EmptySeq
      <3>3. QED
        BY <3>1, <3>2 DEF InFile
    <2>4. QED
      BY <1>4, <2>1, <2>2, <2>3 DEF InsideStep, InFile, SkipEmission, LockManager,
         LockHandler, RemoveOldHandler, InstallNewHandler
  <1>5. ASSUME BeginExit \/ ExitStep \/ Stopped \/ UNCHANGED vars
        PROVE  UNCHANGED <<pc, target, sinks, todo>>
    <2>1. ~\E s \in Levels, o \in Threads : DestroyThreadStream(s, o)
      <3> SUFFICES ASSUME phase = "exiting", pc[Main] = "idle" PROVE FALSE
        BY DEF DestroyThreadStream
      <3>1. t = Main
        BY <1>0 DEF CallInv, CallOK, InFile
      <3>2. QED
        BY <3>1 DEF InFile
    <2>2. QED
      BY <1>5, <2>1 DEF vars, BeginExit, ExitStep, DestroyStream,
         DestroyManager, Stopped
  <1>6. QED
    BY <1>1, <1>2, <1>3, <1>4, <1>5 DEF Next, InFile

\* What a step does to what o owes.
LEMMA TodoKinds ==
  ASSUME IInv, [Next]_vars, NEW o \in Threads
  PROVE  \/ todo'[o] = todo[o] /\ (todo[o] # << >> => calls'[o] = calls[o])
         \/ \E s \in Levels : PutLiteral(o, s)
         \/ \A j \in 1 .. Len(todo'[o]) : todo'[o][j].src # "literal"
         \/ /\ Return(o) /\ calls' = calls /\ pc[o] \in {"emit", "write"}
            /\ todo'[o] = Tail(todo[o])
  <1> USE DEF emission_vars, level_vars, output_vars, buffer_vars, lock_vars
  <1>0. CallVarTypes /\ CallInv /\ calls \in [Threads -> Nat]
    BY TypedCalls DEF IInv, TypeOK
  <1> DEFINE Same == todo'[o] = todo[o] /\ (todo[o] # << >> => calls'[o] = calls[o])
             NoLiteral == \A j \in 1 .. Len(todo'[o]) : todo'[o][j].src # "literal"
  <1>1. ASSUME NEW t \in Threads, ApplicationCall(t), ~\E s \in Levels : PutLiteral(o, s)
        PROVE  Same \/ NoLiteral
    <2>1. CASE t # o
      BY <1>0, <1>1, <2>1 DEF CallVarTypes, ApplicationCall, PutText, PutEndOfLine,
         Flush, PutLiteral, LogToLevel, ManagerEmit, EmitLineSpecific, HandlerInstall,
         SetLogLevel, OpenFile, ReuseThreadId, StartCall, StartEmission
    <2>2. CASE t = o
      <3>1. CASE todo' = todo
        <4>1. CASE ReuseThreadId(t)
          BY <3>1, <4>1 DEF ReuseThreadId
        <4>2. CASE ~ReuseThreadId(t)
          <5>1. pc[o] = "idle"
            BY <1>1, <2>2, <4>2 DEF ApplicationCall, PutText, PutEndOfLine, Flush,
               PutLiteral, LogToLevel, ManagerEmit, EmitLineSpecific, HandlerInstall,
               SetLogLevel, OpenFile, StartCall
          <5>2. QED
            BY <1>0, <3>1, <5>1 DEF CallInv, CallOK
        <4>3. QED
          BY <4>1, <4>2
      <3>2. ASSUME NEW em, em.src # "literal", todo'[o] = << em >> PROVE NoLiteral
        <4>1. Len(todo'[o]) = 1 /\ todo'[o][1] = em
          BY <3>2
        <4>2. QED
          BY <3>2, <4>1
      <3>3. ASSUME NEW s \in Levels, PutEndOfLine(o, s) \/ Flush(o, s) PROVE NoLiteral
        <4>1. todo'[o] = << BufferLine(s, o, "insert") >>
          BY <1>0, <3>3 DEF PutEndOfLine, Flush, StartEmission, CallVarTypes
        <4>2. BufferLine(s, o, "insert").src # "literal"
          BY DEF BufferLine, Emission
        <4>3. QED
          BY <3>2, <4>1, <4>2
      <3>4. ASSUME NEW s, LogToLevel(o, s) \/ ManagerEmit(o, s) PROVE NoLiteral
        <4>1. todo'[o] = << Fresh(s, o, "temp") >> \/ todo'[o] = << Fresh(s, o, "manager") >>
          BY <1>0, <3>4 DEF LogToLevel, ManagerEmit, StartEmission, CallVarTypes
        <4>2. Fresh(s, o, "temp").src # "literal" /\ Fresh(s, o, "manager").src # "literal"
          BY DEF Fresh, Emission
        <4>3. QED
          BY <3>2, <4>1, <4>2
      <3>5. ASSUME NEW h, EmitLineSpecific(o, h) PROVE NoLiteral
        <4>1. todo'[o] = << Fresh(NoLevel, o, "direct") >>
          BY <1>0, <3>5 DEF EmitLineSpecific, CallVarTypes
        <4>2. Fresh(NoLevel, o, "direct").src # "literal"
          BY DEF Fresh, Emission
        <4>3. QED
          BY <3>2, <4>1, <4>2
      <3>6. CASE \/ \E s \in Levels : PutText(o, s)
                 \/ \E h \in Handlers \union {NoHandler} : HandlerInstall(o, h)
                 \/ \E lo, hi \in Levels : SetLogLevel(o, lo, hi)
                 \/ \E h \in HasFile : OpenFile(o, h)
                 \/ ReuseThreadId(o)
        <4>1. todo' = todo
          BY <3>6 DEF PutText, HandlerInstall, SetLogLevel, OpenFile, ReuseThreadId
        <4>2. QED
          BY <3>1, <4>1
      <3> HIDE DEF Same, NoLiteral
      <3>7. QED
        BY <1>1, <2>2, <3>3, <3>4, <3>5, <3>6 DEF ApplicationCall
    <2>3. QED
      BY <2>1, <2>2
  <1>2. ASSUME NEW t \in Threads, InsideStep(t)
        PROVE  Same \/ NoLiteral \/ (/\ Return(o) /\ calls' = calls
                                     /\ pc[o] \in {"emit", "write"}
                                     /\ todo'[o] = Tail(todo[o]))
    <2>1. CASE SkipEmission(t) \/ EmissionDone(t)
      <3>1. Return(t) /\ calls' = calls /\ pc[t] \in {"emit", "write"} /\ Only(t)
        BY <1>2, <2>1, ReturnFrame
      <3>2. QED
        BY <1>0, <3>1 DEF Only, Return, CallVarTypes
    <2>2. CASE LockManager(t) \/ LockHandler(t) \/ WriteLeader(t) \/ WriteText(t)
      BY <2>2 DEF LockManager, LockHandler, WriteLeader, WriteText
    <2>3. CASE RemoveOldHandler(t) \/ InstallNewHandler(t)
      BY <2>3 DEF RemoveOldHandler, InstallNewHandler
    <2>4. CASE HandlerThrows(t)
      <3>1. calls' = calls /\ (todo'[o] = << >> \/ todo'[o] = todo[o])
        BY <1>0, <2>4 DEF HandlerThrows, CallVarTypes
      <3>2. QED
        BY <3>1
    <2>5. QED
      BY <1>2, <2>1, <2>2, <2>3, <2>4 DEF InsideStep
  <1>3. ASSUME NEW s \in Levels, NEW t \in Threads, DestroyThreadStream(s, t)
        PROVE  Same \/ NoLiteral
    <2>1. calls' = calls
      BY <1>3 DEF DestroyThreadStream
    <2>2. todo'[o] = todo[o] \/ todo'[o] = << BufferLine(s, t, "exit") >>
      BY <1>0, <1>3 DEF DestroyThreadStream, StartEmission, CallVarTypes
    <2>3. BufferLine(s, t, "exit").src # "literal"
      BY DEF BufferLine, Emission
    <2>4. CASE todo'[o] = << BufferLine(s, t, "exit") >>
      <3>1. Len(todo'[o]) = 1 /\ todo'[o][1] = BufferLine(s, t, "exit")
        BY <2>4
      <3>2. QED
        BY <2>3, <3>1
    <2>5. QED
      BY <2>1, <2>2, <2>4
  <1>4. ASSUME BeginExit \/ (\E s \in Levels : DestroyStream(s)) \/ DestroyManager
                \/ Stopped \/ UNCHANGED vars
        PROVE  Same
    BY <1>4 DEF vars, BeginExit, DestroyStream, DestroyManager, Stopped
  <1> HIDE DEF Same, NoLiteral
  <1>5. QED
    <2>1. \/ Same \/ NoLiteral \/ (\E s \in Levels : PutLiteral(o, s))
          \/ (/\ Return(o) /\ calls' = calls /\ pc[o] \in {"emit", "write"}
              /\ todo'[o] = Tail(todo[o]))
      BY <1>1, <1>2, <1>3, <1>4 DEF Next, ExitStep
    <2>2. QED
      BY <2>1 DEF Same, NoLiteral

\* The numbers of a sequence of texts are numbers.
LEMMA TextNumbers ==
  ASSUME NEW a \in Seq(Nat \X Nat)
  PROVE  \A k \in 1 .. Len(a) : a[k] \in Nat \X Nat /\ a[k][2] \in Nat
  <1>1. \A k \in 1 .. Len(a) : a[k] \in Nat \X Nat
    OBVIOUS
  <1>2. QED
    BY <1>1

LEMMA AllBeforeAppend ==
  ASSUME NEW a \in Seq(Nat \X Nat), NEW b \in Seq(Nat \X Nat), NEW x \in Nat \X Nat,
         NEW n \in Nat, AllBefore(a, b), UpTo(a, n), n < x[2]
  PROVE  AllBefore(a, Append(b, x))
  <1>1. /\ Len(b) \in Nat /\ Len(Append(b, x)) = Len(b) + 1
        /\ Append(b, x)[Len(b) + 1] = x
        /\ \A l \in 1 .. Len(b) : Append(b, x)[l] = b[l]
    OBVIOUS
  <1> DEFINE c == Append(b, x)
  <1> HIDE DEF c
  <1>2. ASSUME NEW k \in 1 .. Len(a), NEW l \in 1 .. Len(c) PROVE a[k][2] < c[l][2]
    <2>1. a[k][2] \in Nat /\ x[2] \in Nat
      BY TextNumbers
    <2>2. CASE l \in 1 .. Len(b)
      BY <1>1, <2>2 DEF AllBefore, c
    <2>3. CASE l = Len(b) + 1
      BY <1>1, <2>1, <2>3 DEF UpTo, c
    <2>4. QED
      BY <1>1, <2>2, <2>3 DEF c
  <1>3. QED
    BY <1>2 DEF AllBefore, c

\* What was written stays older than what is still to come.
LEMMA PieceKept ==
  ASSUME IInv, IInv', DataInv, [Next]_vars, NEW h \in Handlers, NEW p \in Pieces,
         PieceOK(p, h)
  PROVE  PieceOK(p, h)'
  <1> SUFFICES ASSUME Streamed(p) PROVE PieceOK(p, h)'
    BY DEF PieceOK
  <1> DEFINE o == p.owner
             s == p.level
             line == line_buffer[s][o]
  <1>1. /\ s \in Levels /\ Increasing(p.text) /\ UpTo(p.text, calls[o])
        /\ o \in Threads /\ p.text \in Seq(Nat \X Nat)
    BY DEF PieceOK, Pieces
  <1>2. calls[o] \in Nat /\ calls'[o] \in Nat /\ calls[o] <= calls'[o]
    BY <1>1, CallsGrow
  <1>3. UpTo(p.text, calls'[o])
    BY <1>1, <1>2, UpToMore
  <1>t. /\ line_buffer \in [Levels -> [Threads -> Seq(Nat \X Nat)]]
        /\ line \in Seq(Nat \X Nat)
        /\ calls \in [Threads -> Nat]
        /\ todo[o] \in Seq(Emissions)
    <2>1. /\ line_buffer \in [Levels -> [Threads -> Seq(Nat \X Nat)]]
          /\ calls \in [Threads -> Nat] /\ todo \in [Threads -> Seq(Emissions)]
      BY DEF IInv, TypeOK
    <2> HIDE DEF o, s
    <2>2. line \in Seq(Nat \X Nat) /\ todo[o] \in Seq(Emissions)
      BY <1>1, <2>1
    <2>3. QED
      BY <2>1, <2>2
  <1>4. ASSUME NEW t \in Threads, InFile(t, h), FromBuffer(Head1(t)), SameStream(p, Head1(t))
        PROVE  \/ InFile(t, h)' /\ FromBuffer(Head1(t)') /\ SameStream(p, Head1(t)')
               \/ line_buffer'[s][o] = << >>
    <2>1. CASE InFile(t, h)' /\ todo'[t] = todo[t]
      BY <1>4, <2>1 DEF Head1
    <2>2. CASE InsideStep(t) /\ EmissionDone(t)
      <3>1. Return(t) /\ pc[t] \in {"emit", "write"}
        BY <2>2, ReturnFrame
      <3>2. \A r \in Levels, u \in Threads : line_buffer'[r][u] =
              IF FromBuffer(Head1(t)) /\ r = Head1(t).level /\ u = Head1(t).owner
              THEN << >> ELSE line_buffer[r][u]
        BY <3>1, ReturnBuffer DEF DataInv
      <3>3. QED
        BY <1>1, <1>4, <3>2 DEF SameStream
    <2>3. QED
      BY <1>4, <2>1, <2>2, InFileKept
  <1>5. \/ AllBefore(p.text, line)
        \/ \E t \in Threads :
             InFile(t, h) /\ FromBuffer(Head1(t)) /\ SameStream(p, Head1(t))
    BY DEF PieceOK
  <1>6. \/ AllBefore(p.text, line_buffer'[s][o])
        \/ \E t \in Threads :
             InFile(t, h)' /\ FromBuffer(Head1(t)') /\ SameStream(p, Head1(t)')
    <2>1. CASE line_buffer'[s][o] = << >>
      BY <2>1 DEF AllBefore
    <2>2. CASE line_buffer'[s][o] = line
      BY <1>4, <1>5, <2>1, <2>2
    <2>3. ASSUME NEW u \in Threads, NEW r \in Levels, PutText(u, r),
                 line_buffer'[s][o] # line
          PROVE  AllBefore(p.text, line_buffer'[s][o])
      <3>1. u = o /\ r = s
        BY <1>1, <1>t, <2>3 DEF PutText
      <3>2. line_buffer'[s][o] = Append(line, NewText(o))
        BY <1>1, <1>t, <2>3, <3>1 DEF PutText
      <3>3. NewText(o) \in Nat \X Nat /\ NewText(o)[2] = calls[o] + 1
        BY <1>1, EmissionTypes DEF IInv, Sources, NewText
      <3>4. AllBefore(p.text, line)
        <4> SUFFICES ASSUME NEW t \in Threads, InFile(t, h), FromBuffer(Head1(t)),
                            SameStream(p, Head1(t))
                     PROVE  FALSE
          BY <1>5
        <4>1. pc[o] = "idle" /\ phase = "running"
          BY <2>3, <3>1 DEF PutText, StartCall
        <4>2. Head1(t).owner = o /\ Owed(t)
          BY DEF SameStream, DataInv
        <4>3. 1 \in 1 .. Len(todo[t])
          <5>1. todo[t] \in Seq(Emissions) /\ todo[t] # << >>
            BY HeadTypes DEF InFile, IInv, TypeOK
          <5>2. QED
            BY <5>1, EmptySeq
        <4>4. EmissionOK(t, 1)
          BY <4>2, <4>3 DEF Owed
        <4>5. t = o
          BY <4>1, <4>2, <4>4 DEF EmissionOK, Head1
        <4>6. QED
          BY <4>1, <4>5 DEF InFile
      <3> DEFINE x == NewText(o)
      <3>5. calls[o] < x[2] /\ x \in Nat \X Nat
        BY <1>2, <3>3
      <3> HIDE DEF x, line
      <3>6. AllBefore(p.text, Append(line, x))
        BY <1>1, <1>2, <1>t, <3>4, <3>5, AllBeforeAppend
      <3>7. QED
        BY <3>2, <3>6 DEF x
    <2>4. ASSUME NEW u \in Threads, Return(u), pc[u] \in {"emit", "write"}
          PROVE  line_buffer'[s][o] \in {<< >>, line}
      BY <1>1, <2>4, ReturnBuffer DEF DataInv
    <2>5. QED
      BY <2>1, <2>2, <2>3, <2>4, BufferKinds
  <1> DEFINE Lit(e) == e.src = "literal" /\ e.level = s
             Newer(j) == UpTo(p.text, calls[o] - 1) \/ (j = 1 /\ InFile(o, h))
  <1>7. \A j \in 1 .. Len(todo[o]) : Lit(todo[o][j]) => Newer(j)
    BY DEF PieceOK
  <1>8. ASSUME NEW j \in 1 .. Len(todo'[o]), Lit(todo'[o][j])
        PROVE  UpTo(p.text, calls'[o] - 1) \/ (j = 1 /\ InFile(o, h)')
    <2>1. CASE todo'[o] = todo[o] /\ (todo[o] # << >> => calls'[o] = calls[o])
      <3>1. todo[o] # << >> /\ Lit(todo[o][j]) /\ j \in 1 .. Len(todo[o])
        BY <1>8, <2>1
      <3>2. calls'[o] = calls[o] /\ Newer(j)
        BY <1>7, <2>1, <3>1
      <3>3. CASE j = 1 /\ InFile(o, h) /\ ~InFile(o, h)'
        <4>1. InsideStep(o) /\ EmissionDone(o)
          BY <1>1, <3>3, InFileKept
        <4>2. Return(o)
          BY <1>1, <4>1, ReturnFrame
        <4>3. todo'[o] = Tail(todo[o])
          BY <1>1, <4>2 DEF Return, IInv, TypeOK
        <4>4. Len(Tail(todo[o])) = Len(todo[o]) - 1 /\ Len(todo[o]) \in Nat
          BY <1>t, <3>1
        <4>5. Len(todo[o]) # Len(todo[o]) - 1
          BY <4>4
        <4>6. QED
          BY <2>1, <4>3, <4>4, <4>5
      <3>4. QED
        BY <3>2, <3>3
    <2>2. CASE \E r \in Levels : PutLiteral(o, r)
      <3>1. calls'[o] = calls[o] + 1
        BY <1>1, <1>t, <2>2 DEF PutLiteral, StartCall
      <3>2. calls'[o] - 1 = calls[o]
        BY <1>2, <3>1
      <3>3. QED
        BY <1>1, <3>2
    <2>3. CASE \A i \in 1 .. Len(todo'[o]) : todo'[o][i].src # "literal"
      BY <1>8, <2>3
    <2>4. CASE /\ Return(o) /\ calls' = calls /\ pc[o] \in {"emit", "write"}
               /\ todo'[o] = Tail(todo[o])
      <3>1. todo[o] # << >>
        BY <1>1, <2>4, HeadTypes DEF IInv
      <3>2. /\ Len(todo[o]) \in Nat /\ Len(todo'[o]) = Len(todo[o]) - 1
            /\ todo'[o][j] = todo[o][j + 1]
        BY <1>8, <1>t, <2>4, <3>1
      <3>3. j + 1 \in 1 .. Len(todo[o]) /\ j + 1 # 1
        BY <3>2
      <3>4. Newer(j + 1)
        BY <1>7, <1>8, <3>2, <3>3
      <3>5. QED
        BY <2>4, <3>3, <3>4
    <2>5. QED
      BY <1>1, <2>1, <2>2, <2>3, <2>4, TodoKinds
  <1>9. QED
    BY <1>1, <1>3, <1>6, <1>8 DEF PieceOK

\* The piece that WriteText adds to the file of h is newer than all of its stream.
LEMMA PieceAdded ==
  ASSUME IInv, DataInv, NEW t \in Threads, InsideStep(t), WriteText(t),
         sinks[t][1] = "file", NEW h \in Handlers, target[t] = h,
         NEW p, p = Piece(t, Head1(t), "text")
  PROVE  /\ PieceOK(p, h)'
         /\ \A q \in Pieces :
              PieceOK(q, h) /\ Streamed(q) /\ Streamed(p) /\ SameStream(q, p) =>
                AllBefore(q.text, p.text)
  <1> USE DEF emission_vars, level_vars, output_vars, buffer_vars, lock_vars
  <1> DEFINE em == Head1(t)
             s == em.level
             o == em.owner
  <1>0. /\ CallVarTypes /\ CallInv /\ LockInv /\ Owed(t)
        /\ line_buffer \in [Levels -> [Threads -> Seq(Nat \X Nat)]]
        /\ calls \in [Threads -> Nat]
    BY TypedCalls DEF IInv, TypeOK, DataInv
  <1>1. /\ pc[t] = "write" /\ em \in Emissions /\ 1 \in 1 .. Len(todo[t])
        /\ todo[t] \in Seq(Emissions)
    <2>1. pc[t] = "write"
      BY DEF WriteText
    <2>2. em \in Emissions /\ todo[t] # << >> /\ todo[t] \in Seq(Emissions)
      BY <2>1, HeadTypes DEF IInv, TypeOK
    <2>3. QED
      BY <2>1, <2>2, EmptySeq
  <1>2. EmissionOK(t, 1) /\ todo[t][1] = em
    BY <1>0, <1>1 DEF Owed, Head1
  <1>3. /\ p.level = s /\ p.owner = o /\ p.text = em.text /\ p.src = em.src
        /\ p.part = "text" /\ o \in Threads /\ em.text \in Seq(Nat \X Nat)
    BY <1>1 DEF Piece, Emissions
  <1>4. /\ UNCHANGED <<pc, todo, target, line_buffer, calls>> /\ Head1(t)' = em
    BY DEF WriteText, Head1
  <1>5. InFile(t, h)'
    <2>1. /\ sinks[t] \in Seq({"file", "console"}) /\ sinks[t] # << >>
          /\ sinks'[t] = Tail(sinks[t])
      BY <1>0 DEF CallVarTypes, CallInv, CallOK, WriteText
    <2>2. \A i \in 1 .. Len(sinks'[t]) : i + 1 \in 2 .. Len(sinks[t])
                                      /\ sinks'[t][i] = sinks[t][i + 1]
      BY <2>1
    <2>3. \A i \in 1 .. Len(sinks'[t]) : sinks'[t][i] # "file"
      BY <2>2 DEF DataInv, FileFirst
    <2>4. QED
      BY <1>1, <1>4, <2>3 DEF InFile
  <1>6. ASSUME NEW u \in Threads, InFile(u, h) PROVE FALSE
    <2>1. handler_lock[h] = u /\ handler_lock[h] = t
      BY <1>0, <1>1, <1>6 DEF InFile, LockInv
    <2>2. sinks[t] # << >> /\ sinks[t] \in Seq({"file", "console"})
      BY <1>0 DEF CallVarTypes, CallInv, CallOK, WriteText
    <2>3. 1 \in 1 .. Len(sinks[t])
      BY <2>2, EmptySeq
    <2>4. QED
      BY <1>6, <2>1, <2>3 DEF InFile
  <1>7. CASE ~Streamed(p)
    BY <1>7 DEF PieceOK, Streamed
  <1>8. CASE Streamed(p) /\ FromBuffer(em)
    <2>1. s \in Levels /\ em.text = line_buffer[s][o]
      BY <1>2, <1>8 DEF EmissionOK
    <2>2. Increasing(em.text) /\ UpTo(em.text, calls[o])
      BY <1>3, <2>1 DEF DataInv, Buffered
    <2>3. ASSUME NEW j \in 1 .. Len(todo[o]), todo[o][j].src = "literal",
                 todo[o][j].level = s
          PROVE  UpTo(em.text, calls[o] - 1)
      <3>1. CASE o = t
        <4>1. EmissionOK(t, j)
          BY <1>0, <2>3, <3>1 DEF Owed
        <4>2. QED
          BY <2>1, <2>3, <3>1, <4>1 DEF EmissionOK
      <3>2. CASE o # t
        <4>1. t = Main /\ phase # "running" /\ phase # "aborted"
          BY <1>2, <3>2 DEF EmissionOK, InsideStep
        <4>2. phase \in {"exiting", "exited"}
          BY <4>1 DEF IInv, TypeOK
        <4>3. todo[o] = << >>
          BY <1>0, <1>3, <3>2, <4>1, <4>2 DEF CallInv, CallOK
        <4>4. QED
          BY <2>3, <4>3
      <3>3. QED
        BY <3>1, <3>2
    <2>4. InFile(t, h)' /\ FromBuffer(Head1(t)') /\ SameStream(p, Head1(t)')
      BY <1>3, <1>4, <1>5, <1>8 DEF SameStream
    <2>5. PieceOK(p, h)'
      BY <1>3, <1>4, <2>1, <2>2, <2>3, <2>4 DEF PieceOK
    <2>6. ASSUME NEW q \in Pieces, PieceOK(q, h), Streamed(q), SameStream(q, p)
          PROVE  AllBefore(q.text, p.text)
      <3>1. AllBefore(q.text, line_buffer[q.level][q.owner])
        BY <1>6, <2>6 DEF PieceOK
      <3>2. QED
        BY <1>3, <2>1, <2>6, <3>1 DEF SameStream
    <2>7. QED
      BY <2>5, <2>6
  <1>9. CASE Streamed(p) /\ ~FromBuffer(em)
    <2>1. em.src = "literal"
      BY <1>3, <1>9 DEF Streamed, FromBuffer
    <2>2. /\ o = t /\ s \in Levels /\ em.text[1][2] = calls[t]
          /\ line_buffer[s][t] = << >> /\ \E x \in Texts : em.text = << x >>
      BY <1>2, <1>9, <2>1 DEF EmissionOK
    <2>3. Len(em.text) = 1 /\ calls[t] \in Nat
      BY <1>0, <2>2
    <2>4. Increasing(em.text) /\ UpTo(em.text, calls[t])
      BY <2>2, <2>3 DEF Increasing, UpTo
    <2>5. AllBefore(em.text, line_buffer[s][t])
      BY <2>2 DEF AllBefore
    <2>6. ASSUME NEW j \in 1 .. Len(todo[t]), todo[t][j].src = "literal"
          PROVE  j = 1
      BY <1>0, <1>2, <2>1, <2>6 DEF Owed, EmissionOK
    <2>7. PieceOK(p, h)'
      BY <1>3, <1>4, <1>5, <2>2, <2>4, <2>5, <2>6 DEF PieceOK
    <2>8. ASSUME NEW q \in Pieces, PieceOK(q, h), Streamed(q), SameStream(q, p)
          PROVE  AllBefore(q.text, p.text)
      <3>1. UpTo(q.text, calls[t] - 1)
        BY <1>1, <1>2, <1>3, <1>6, <2>1, <2>2, <2>8 DEF PieceOK, SameStream
      <3>2. \A k \in 1 .. Len(q.text) : q.text[k][2] \in Nat
        BY TextNumbers DEF Pieces
      <3>3. \A k \in 1 .. Len(q.text) : q.text[k][2] < calls[t]
        BY <2>3, <3>1, <3>2 DEF UpTo
      <3>4. QED
        BY <1>3, <2>2, <2>3, <3>3 DEF AllBefore
    <2>9. QED
      BY <2>7, <2>8
  <1>10. QED
    BY <1>7, <1>8, <1>9

\* A file in order stays so when a piece is added that is newer than all before it.
LEMMA InOrderAppend ==
  ASSUME NEW f \in Seq(Pieces), NEW p \in Pieces, InOrder(f),
         \A i \in 1 .. Len(f) : Streamed(f[i]) /\ Streamed(p) /\ SameStream(f[i], p) =>
                                  AllBefore(f[i].text, p.text)
  PROVE  InOrder(Append(f, p))
  <1> DEFINE g == Append(f, p)
  <1>1. /\ Len(f) \in Nat /\ Len(g) = Len(f) + 1 /\ g[Len(f) + 1] = p
        /\ \A i \in 1 .. Len(f) : g[i] = f[i]
    OBVIOUS
  <1> HIDE DEF g
  <1>2. ASSUME NEW i \in 1 .. Len(g), NEW j \in 1 .. Len(g), i < j,
               Streamed(g[i]), Streamed(g[j]), SameStream(g[i], g[j])
        PROVE  AllBefore(g[i].text, g[j].text)
    <2>1. i \in 1 .. Len(f) /\ g[i] = f[i]
      BY <1>1, <1>2
    <2>2. CASE j \in 1 .. Len(f)
      <3>1. g[j] = f[j]
        BY <1>1, <2>2
      <3>2. QED
        BY <1>2, <2>1, <2>2, <3>1 DEF InOrder
    <2>3. CASE j = Len(f) + 1
      <3>1. g[j] = p
        BY <1>1, <2>3
      <3>2. QED
        BY <1>2, <2>1, <3>1
    <2>4. QED
      BY <1>1, <2>2, <2>3
  <1>3. QED
    BY <1>2 DEF InOrder, g

\* The pieces of a file are all right when each of them is.
LEMMA OrderedAfter ==
  ASSUME NEW h \in Handlers, InOrder(file'[h]),
         \A i \in 1 .. Len(file'[h]) : \E q : q = file'[h][i] /\ PieceOK(q, h)'
  PROVE  (/\ InOrder(file[h])
          /\ \A i \in 1 .. Len(file[h]) : PieceOK(file[h][i], h))'
  <1>1. ASSUME NEW i \in 1 .. Len(file'[h]) PROVE PieceOK(file[h][i], h)'
    <2>1. PICK q : q = file'[h][i] /\ PieceOK(q, h)'
      OBVIOUS
    <2>2. QED
      BY <2>1 DEF PieceOK
  <1>2. QED
    BY <1>1 DEF InOrder

LEMMA OrderStep == IInv /\ IInv' /\ DataInv /\ OrderInv /\ [Next]_vars => OrderInv'
  <1> SUFFICES ASSUME IInv, IInv', DataInv, OrderInv, [Next]_vars, NEW h \in Handlers
               PROVE  (/\ InOrder(file[h])
                       /\ \A i \in 1 .. Len(file[h]) : PieceOK(file[h][i], h))'
    BY DEF OrderInv
  <1> USE DEF emission_vars, level_vars, output_vars, buffer_vars, lock_vars
  <1> DEFINE Goal == (/\ InOrder(file[h])
                      /\ \A i \in 1 .. Len(file[h]) : PieceOK(file[h][i], h))'
  <1>f. file \in [Handlers -> Seq(Pieces)]
    BY DEF IInv, TypeOK
  <1>0. /\ file[h] \in Seq(Pieces) /\ InOrder(file[h])
        /\ \A i \in 1 .. Len(file[h]) : file[h][i] \in Pieces /\ PieceOK(file[h][i], h)
    BY <1>f DEF OrderInv
  <1>1. \A q \in Pieces : PieceOK(q, h) => PieceOK(q, h)'
    BY PieceKept
  <1> DEFINE Fits(p) == \A i \in 1 .. Len(file[h]) :
               Streamed(file[h][i]) /\ Streamed(p) /\ SameStream(file[h][i], p) =>
                 AllBefore(file[h][i].text, p.text)
  <1>2. ASSUME file'[h] = file[h] PROVE Goal
    <2>1. \A i \in 1 .. Len(file'[h]) : \E q : q = file'[h][i] /\ PieceOK(q, h)'
      BY <1>0, <1>1, <1>2
    <2>2. QED
      BY <1>0, <1>2, <2>1, OrderedAfter
  <1>3. ASSUME NEW p \in Pieces, file'[h] = Append(file[h], p), PieceOK(p, h)', Fits(p)
        PROVE  Goal
    <2>1. InOrder(file'[h])
      BY <1>0, <1>3, InOrderAppend
    <2>2. /\ Len(file[h]) \in Nat /\ Len(file'[h]) = Len(file[h]) + 1
          /\ file'[h][Len(file[h]) + 1] = p
          /\ \A i \in 1 .. Len(file[h]) : file'[h][i] = file[h][i]
      BY <1>0, <1>3
    <2>3. ASSUME NEW i \in 1 .. Len(file'[h])
          PROVE  \E q : q = file'[h][i] /\ PieceOK(q, h)'
      <3>1. i \in 1 .. Len(file[h]) \/ i = Len(file[h]) + 1
        BY <2>2
      <3>2. CASE i \in 1 .. Len(file[h])
        <4>1. PICK q \in Pieces : q = file[h][i] /\ PieceOK(q, h)
          BY <1>0, <3>2
        <4>2. q = file'[h][i] /\ PieceOK(q, h)'
          BY <1>1, <2>2, <3>2, <4>1
        <4>3. QED
          BY <4>2
      <3>3. CASE i = Len(file[h]) + 1
        BY <1>3, <2>2, <3>3
      <3>4. QED
        BY <3>1, <3>2, <3>3
    <2>4. QED
      BY <2>1, <2>3, OrderedAfter
  <1>4. ASSUME NEW p \in Pieces, file'[h] = Append(file[h], p), ~Streamed(p)
        PROVE  Goal
    <2>1. PieceOK(p, h)' /\ Fits(p)
      BY <1>4 DEF PieceOK
    <2> HIDE DEF Goal, Fits
    <2>2. QED
      BY <1>3, <1>4, <2>1
  <1>5. ASSUME NEW t \in Threads, WriteLeader(t), file'[h] # file[h] PROVE Goal
    <2>1. PICK p : p = Piece(t, Head1(t), "leader")
      OBVIOUS
    <2>2. file'[h] = Append(file[h], p)
      BY <1>f, <1>5, <2>1 DEF WriteLeader, WritePiece
    <2>3. p \in Pieces /\ ~Streamed(p)
      BY <1>5, <2>1, HeadTypes, PieceTypes DEF IInv, WriteLeader, Streamed, Piece
    <2> HIDE DEF Goal
    <2>4. QED
      BY <1>4, <2>2, <2>3
  <1>6. ASSUME NEW t \in Threads, WriteText(t), InsideStep(t), file'[h] # file[h]
        PROVE  Goal
    <2>1. PICK p : p = Piece(t, Head1(t), "text")
      OBVIOUS
    <2>2. /\ file'[h] = Append(file[h], p) /\ sinks[t][1] = "file" /\ target[t] = h
      BY <1>f, <1>6, <2>1 DEF WriteText, WritePiece
    <2>3. p \in Pieces
      BY <1>6, <2>1, HeadTypes, PieceTypes DEF IInv, WriteText
    <2>4. /\ PieceOK(p, h)'
          /\ \A q \in Pieces :
               PieceOK(q, h) /\ Streamed(q) /\ Streamed(p) /\ SameStream(q, p) =>
                 AllBefore(q.text, p.text)
      BY <1>6, <2>1, <2>2, PieceAdded
    <2>5. Fits(p)
      BY <1>0, <2>4
    <2> HIDE DEF Goal, Fits
    <2>6. QED
      BY <1>3, <2>2, <2>3, <2>4, <2>5
  <1>7. ASSUME NEW t \in Threads, NEW g \in HasFile, OpenFile(t, g), file'[h] # file[h]
        PROVE  Goal
    <2>1. PICK p : p = Piece(t, Fresh(NoLevel, t, "direct"), "open")
      OBVIOUS
    <2>2. file'[h] = Append(file[h], p)
      BY <1>f, <1>7, <2>1 DEF OpenFile
    <2>3. Fresh(NoLevel, t, "direct") \in Emissions
      BY EmissionTypes DEF IInv, Sources
    <2>4. p \in Pieces /\ ~Streamed(p)
      BY <2>1, <2>3, PieceTypes DEF Streamed, Piece
    <2> HIDE DEF Goal
    <2>5. QED
      BY <1>4, <2>2, <2>4
  <1> HIDE DEF Goal, Fits
  <1>8. ASSUME file' = file PROVE Goal
    BY <1>2, <1>8
  <1>9. Goal
    BY <1>5, <1>6, <1>7, <1>8, <1>2, StepKinds
  <1>10. QED
    BY <1>9 DEF Goal

-----------------------------------------------------------------------------
(* What is in a file.                                                      *)

LEMMA IncreasingConcat ==
  ASSUME NEW a \in Seq(Nat \X Nat), NEW b \in Seq(Nat \X Nat),
         Increasing(a), Increasing(b), AllBefore(a, b)
  PROVE  Increasing(a \o b)
  <1> DEFINE c == a \o b
  <1>1. /\ Len(a) \in Nat /\ Len(b) \in Nat /\ Len(c) = Len(a) + Len(b)
        /\ \A i \in 1 .. Len(c) : c[i] = IF i <= Len(a) THEN a[i] ELSE b[i - Len(a)]
    BY ConcatProperties
  <1> HIDE DEF c
  <1>2. ASSUME NEW i \in 1 .. Len(c), NEW j \in 1 .. Len(c), i < j
        PROVE  c[i][2] < c[j][2]
    <2>1. CASE j <= Len(a)
      <3>1. i \in 1 .. Len(a) /\ j \in 1 .. Len(a) /\ c[i] = a[i] /\ c[j] = a[j]
        BY <1>1, <1>2, <2>1
      <3>2. QED
        BY <1>2, <3>1 DEF Increasing
    <2>2. CASE i <= Len(a) /\ ~(j <= Len(a))
      <3>1. i \in 1 .. Len(a) /\ j - Len(a) \in 1 .. Len(b) /\ c[i] = a[i]
            /\ c[j] = b[j - Len(a)]
        BY <1>1, <1>2, <2>2
      <3>2. QED
        BY <3>1 DEF AllBefore
    <2>3. CASE ~(i <= Len(a))
      <3>1. /\ i - Len(a) \in 1 .. Len(b) /\ j - Len(a) \in 1 .. Len(b)
            /\ i - Len(a) < j - Len(a)
            /\ c[i] = b[i - Len(a)] /\ c[j] = b[j - Len(a)]
        BY <1>1, <1>2, <2>3
      <3>2. QED
        BY <3>1 DEF Increasing
    <2>4. QED
      BY <2>1, <2>2, <2>3
  <1>3. QED
    BY <1>2 DEF Increasing, c

\* For any number of threads, streams and handlers: what a thread put into a
\* stream reaches a file in the order in which it was put, and every piece at
\* most once, also when an emission threw and its line was sent again.
THEOREM FilesInOrder == Spec => []FileOrder
  <1>1. Init => OrderInv
    <2> SUFFICES ASSUME Init, NEW h \in Handlers
                 PROVE  InOrder(file[h]) /\ \A i \in 1 .. Len(file[h]) : PieceOK(file[h][i], h)
      BY DEF OrderInv
    <2>1. file[h] = << >>
      BY DEF Init
    <2>2. QED
      BY <2>1 DEF InOrder
  <1>2. IInv /\ OrderInv => FileOrder
    <2> SUFFICES ASSUME IInv, OrderInv, NEW h \in Handlers,
                        NEW i \in 1 .. Len(file[h]), NEW j \in 1 .. Len(file[h]),
                        Streamed(file[h][i]), Streamed(file[h][j]), i <= j,
                        SameStream(file[h][i], file[h][j])
                 PROVE  Increasing(IF i = j THEN file[h][i].text
                                            ELSE file[h][i].text \o file[h][j].text)
      BY DEF FileOrder
    <2>1. file[h] \in Seq(Pieces)
      BY DEF IInv, TypeOK
    <2>2. file[h][i] \in Pieces /\ file[h][j] \in Pieces
      BY <2>1
    <2>3. Increasing(file[h][i].text) /\ Increasing(file[h][j].text)
      BY DEF OrderInv, PieceOK
    <2>4. CASE i = j
      BY <2>3, <2>4
    <2>5. CASE i # j
      <3>1. AllBefore(file[h][i].text, file[h][j].text)
        <4>1. i < j
          BY <2>5
        <4>2. QED
          BY <4>1 DEF OrderInv, InOrder
      <3>2. file[h][i].text \in Seq(Nat \X Nat) /\ file[h][j].text \in Seq(Nat \X Nat)
        BY <2>2 DEF Pieces
      <3>3. Increasing(file[h][i].text \o file[h][j].text)
        BY <2>3, <3>1, <3>2, IncreasingConcat
      <3>4. QED
        BY <2>5, <3>3
    <2>6. QED
      BY <2>4, <2>5
  <1>3. QED
    BY <1>1, <1>2, OrderStep, DataInductive, PTL DEF Spec

-----------------------------------------------------------------------------
(* Which lines count as written.                                           *)

\* Every call of a handler that writes std::cout goes through the manager.
ConsoleViaManager == HasConsole \intersect Direct = {}

\* The sinks that t has still to write; it has not written std::cout when it
\* has still to write the file.
SinkForm(t) ==
  /\ sinks[t] \in {<< >>, <<"file">>, <<"console">>, <<"file", "console">>}
  /\ sinks[t] = <<"file">> /\ target[t] \in HasConsole =>
       ~Enabled(Head1(t).level, log_level_screen)

\* What t has written is the last thing in the sink.
LastIn(s, t) == \E r \in Seq(Pieces) : s = Append(r, Piece(t, Head1(t), "text"))

LastInv == \A t \in Threads :
  /\ pc[t] = "write" => SinkForm(t)
  /\ Wrote(t, "file") => LastIn(file[target[t]], t)
  /\ Wrote(t, "console") => LastIn(console, t)

\* The steps of u that write a line, or begin or end the call of a handler.
Writes(u) == InsideStep(u) /\
  (LockHandler(u) \/ WriteText(u) \/ EmissionDone(u) \/ HandlerThrows(u))

LEMMA WriterKinds ==
  ASSUME IInv, [Next]_vars, NEW u \in Threads, ~Writes(u)
  PROVE  \/ /\ pc'[u] = pc[u] /\ target'[u] = target[u]
            /\ sinks'[u] = sinks[u] /\ todo'[u] = todo[u]
         \/ pc[u] # "write" /\ pc'[u] # "write"
  <1> USE DEF emission_vars, level_vars, output_vars, buffer_vars, lock_vars
  <1>0. CallVarTypes /\ CallInv
    BY TypedCalls DEF IInv
  <1> DEFINE Same == /\ pc'[u] = pc[u] /\ target'[u] = target[u]
                     /\ sinks'[u] = sinks[u] /\ todo'[u] = todo[u]
             Out == pc[u] # "write" /\ pc'[u] # "write"
  <1>1. ASSUME NEW t \in Threads, ApplicationCall(t) PROVE Same \/ Out
    <2>1. CASE t # u
      BY <1>0, <1>1, <2>1 DEF CallVarTypes, ApplicationCall, PutText, PutEndOfLine,
         Flush, PutLiteral, LogToLevel, ManagerEmit, EmitLineSpecific, HandlerInstall,
         SetLogLevel, OpenFile, ReuseThreadId, StartCall, StartEmission
    <2>2. CASE t = u
      <3>1. CASE ReuseThreadId(u)
        BY <3>1 DEF ReuseThreadId
      <3>2. CASE ~ReuseThreadId(u)
        <4>1. pc[u] = "idle"
          BY <1>1, <2>2, <3>2 DEF ApplicationCall, PutText, PutEndOfLine, Flush,
             PutLiteral, LogToLevel, ManagerEmit, EmitLineSpecific, HandlerInstall,
             SetLogLevel, OpenFile, StartCall
        <4>2. pc'[u] \in {"idle", "emit", "direct", "remove"}
          BY <1>0, <1>1, <2>2, <4>1 DEF CallVarTypes, ApplicationCall, PutText,
             PutEndOfLine, Flush, PutLiteral, LogToLevel, ManagerEmit, EmitLineSpecific,
             HandlerInstall, SetLogLevel, OpenFile, ReuseThreadId, StartEmission
        <4>3. QED
          BY <4>1, <4>2
      <3>3. QED
        BY <3>1, <3>2
    <2>3. QED
      BY <2>1, <2>2
  <1>2. ASSUME NEW t \in Threads, InsideStep(t), t # u PROVE Same
    <2>1. CASE SkipEmission(t) \/ EmissionDone(t)
      BY <1>0, <1>2, <2>1 DEF CallVarTypes, SkipEmission, EmissionDone, Return, Unlock
    <2>2. CASE LockManager(t) \/ LockHandler(t) \/ WriteLeader(t) \/ WriteText(t)
      BY <1>0, <1>2, <2>2 DEF CallVarTypes, LockManager, LockHandler, WriteLeader,
         WriteText
    <2>3. CASE HandlerThrows(t) \/ RemoveOldHandler(t) \/ InstallNewHandler(t)
      BY <1>0, <1>2, <2>3 DEF CallVarTypes, HandlerThrows, RemoveOldHandler,
         InstallNewHandler, Unlock
    <2>4. QED
      BY <1>2, <2>1, <2>2, <2>3 DEF InsideStep
  <1>3. ASSUME InsideStep(u) PROVE Same \/ Out
    <2>1. CASE SkipEmission(u) \/ LockManager(u) \/ RemoveOldHandler(u) \/ InstallNewHandler(u)
      BY <1>0, <2>1 DEF CallVarTypes, SkipEmission, LockManager, RemoveOldHandler,
         InstallNewHandler, Return
    <2>2. CASE WriteLeader(u)
      BY <2>2 DEF WriteLeader
    <2>3. QED
      BY <1>3, <2>1, <2>2 DEF InsideStep, Writes
  <1>4. ASSUME NEW s \in Levels, NEW o \in Threads, DestroyThreadStream(s, o)
        PROVE  Same \/ Out
    BY <1>0, <1>4, LoggerAssumption DEF CallVarTypes, DestroyThreadStream, StartEmission
  <1>5. ASSUME BeginExit \/ (\E s \in Levels : DestroyStream(s)) \/ DestroyManager
                \/ Stopped \/ UNCHANGED vars
        PROVE  Same
    BY <1>5 DEF vars, BeginExit, DestroyStream, DestroyManager, Stopped
  <1> HIDE DEF Same, Out
  <1>6. Same \/ Out
    BY <1>1, <1>2, <1>3, <1>4, <1>5 DEF Next, ExitStep
  <1>7. QED
    BY <1>6 DEF Same, Out

\* A thread that calls a handler past the manager has a line no mask filters.
LEMMA DirectLevel ==
  ASSUME IInv, NEW u \in Threads, Owed(u), pc[u] \in {"direct", "write"},
         Head1(u).src = "direct"
  PROVE  Head1(u).level = NoLevel
  <1>1. todo[u] \in Seq(Emissions) /\ todo[u] # << >>
    BY HeadTypes DEF IInv, TypeOK
  <1>2. 1 \in 1 .. Len(todo[u])
    BY <1>1, EmptySeq
  <1>3. QED
    BY <1>2 DEF Owed, EmissionOK, Head1

\* The masks change only while no line is on its way through the manager.
LEMMA MaskKept ==
  ASSUME IInv, DataInv, [Next]_vars, NEW u \in Threads, pc[u] = "write",
         todo'[u] = todo[u]
  PROVE  /\ Enabled(Head1(u).level, log_level_screen)' <=>
              Enabled(Head1(u).level, log_level_screen)
         /\ Enabled(Head1(u).level, log_level_persistent)' <=>
              Enabled(Head1(u).level, log_level_persistent)
  <1> USE DEF emission_vars, level_vars, output_vars, buffer_vars, lock_vars
  <1>1. Head1(u)' = Head1(u)
    BY DEF Head1
  <1>2. ASSUME NEW t \in Threads, ApplicationCall(t),
               ~\E lo, hi \in Levels : SetLogLevel(t, lo, hi)
        PROVE  UNCHANGED <<log_level_screen, log_level_persistent>>
    BY <1>2 DEF ApplicationCall, PutText, PutEndOfLine, Flush, PutLiteral,
       LogToLevel, ManagerEmit, EmitLineSpecific, HandlerInstall,
       OpenFile, ReuseThreadId
  <1>3. ASSUME NEW t \in Threads, InsideStep(t)
        PROVE  UNCHANGED <<log_level_screen, log_level_persistent>>
    BY <1>3 DEF InsideStep, SkipEmission, LockManager, LockHandler, WriteLeader,
       WriteText, EmissionDone, HandlerThrows, RemoveOldHandler, InstallNewHandler
  <1>4. ASSUME BeginExit \/ ExitStep \/ Stopped \/ UNCHANGED vars
        PROVE  UNCHANGED <<log_level_screen, log_level_persistent>>
    BY <1>4 DEF vars, BeginExit, ExitStep, DestroyThreadStream, DestroyStream,
       DestroyManager, Stopped
  <1>5. CASE UNCHANGED <<log_level_screen, log_level_persistent>>
    BY <1>1, <1>5 DEF Enabled
  <1>6. ASSUME NEW t \in Threads, NEW lo \in Levels, NEW hi \in Levels,
               SetLogLevel(t, lo, hi)
        PROVE  Head1(u).level = NoLevel
    <2>1. manager_lock = NoThread
      BY <1>6 DEF SetLogLevel
    <2>2. ~ViaManager(u)
      BY <2>1, LoggerAssumption DEF IInv, LockInv
    <2>3. QED
      BY <2>2, DirectLevel DEF ViaManager, DataInv
  <1>7. CASE Head1(u).level = NoLevel
    BY <1>1, <1>7 DEF Enabled
  <1>8. QED
    BY <1>2, <1>3, <1>4, <1>5, <1>6, <1>7 DEF Next

\* A step that is none of these changes nothing about what u has written.
LEMMA WroteKept ==
  ASSUME IInv, DataInv, [Next]_vars, NEW u \in Threads, ~Writes(u)
  PROVE  /\ \A sink : Wrote(u, sink)' <=> Wrote(u, sink)
         /\ pc'[u] = "write" <=> pc[u] = "write"
         /\ pc[u] = "write" => target'[u] = target[u] /\ sinks'[u] = sinks[u]
                               /\ Head1(u)' = Head1(u)
  <1>1. CASE pc[u] # "write" /\ pc'[u] # "write"
    BY <1>1 DEF Wrote
  <1>2. CASE /\ pc'[u] = pc[u] /\ target'[u] = target[u] /\ pc[u] = "write"
             /\ sinks'[u] = sinks[u] /\ todo'[u] = todo[u]
    BY <1>2, MaskKept DEF Wrote, Head1
  <1>3. QED
    BY <1>1, <1>2, WriterKinds

\* A writing step is one thread's.
LEMMA WriteChanges ==
  ASSUME IInv, NEW u \in Threads, Writes(u)
  PROVE  /\ Only(u)
         /\ pc[u] \in {"locked", "direct", "write"}
         /\ pc'[u] # pc[u] \/ half'[u] # half[u]
  <1> USE DEF emission_vars, level_vars, output_vars, buffer_vars, lock_vars
  <1>0. CallVarTypes
    BY TypedCalls DEF IInv
  <1>1. CASE LockHandler(u)
    BY <1>0, <1>1 DEF LockHandler, CallVarTypes, Only
  <1>2. CASE WriteText(u)
    BY <1>0, <1>2 DEF WriteText, CallVarTypes, Only
  <1>3. CASE EmissionDone(u)
    BY <1>0, <1>3 DEF EmissionDone, Return, Unlock, CallVarTypes, Only
  <1>4. CASE HandlerThrows(u)
    BY <1>0, <1>4 DEF HandlerThrows, Unlock, CallVarTypes, Only
  <1>5. QED
    BY <1>1, <1>2, <1>3, <1>4 DEF Writes

LEMMA OneWriter ==
  ASSUME IInv, NEW t \in Threads, NEW u \in Threads, Writes(t), Writes(u) PROVE t = u
  BY WriteChanges DEF Only

\* The sink that t writes belongs to its handler, and that is t's alone.
LEMMA SinkOwner ==
  ASSUME ConsoleViaManager, IInv, NEW t \in Threads, pc[t] = "write"
  PROVE  /\ target[t] \in Handlers
         /\ handler_lock[target[t]] = t
         /\ \A i \in 1 .. Len(sinks[t]) :
              /\ sinks[t][i] \in {"file", "console"}
              /\ sinks[t][i] = "file" => target[t] \in HasFile
              /\ sinks[t][i] = "console" => target[t] \in HasConsole
         /\ \A u \in Threads : pc[u] = "write" =>
              /\ target[u] = target[t] => u = t
              /\ target[u] \in HasConsole /\ target[t] \in HasConsole => u = t
  <1>0. CallVarTypes /\ CallOK(t) /\ LockInv
    BY TypedCalls DEF IInv, CallInv
  <1>1. target[t] \in Handlers
    BY <1>0 DEF CallOK
  <1>2. handler_lock[target[t]] = t
    BY <1>0, <1>1 DEF LockInv
  <1>3. \A i \in 1 .. Len(sinks[t]) : sinks[t][i] \in {"file", "console"}
    BY <1>0 DEF CallVarTypes
  <1>4. ASSUME NEW u \in Threads, pc[u] = "write"
        PROVE  /\ target[u] = target[t] => u = t
               /\ target[u] \in HasConsole /\ target[t] \in HasConsole => u = t
    <2>1. target[u] = target[t] => u = t
      BY <1>1, <1>4, FileExclusive DEF Exclusive
    <2>2. target[u] \in HasConsole /\ target[t] \in HasConsole => u = t
      BY <1>4, ConsoleExclusive DEF Exclusive, ConsoleViaManager
    <2>3. QED
      BY <2>1, <2>2
  <1>5. QED
    BY <1>0, <1>1, <1>2, <1>3, <1>4 DEF CallOK

\* What the sinks are when t has written one of them or has one to write.
LEMMA SinkCases ==
  ASSUME IInv, LastInv, NEW t \in Threads, pc[t] = "write"
  PROVE  /\ sinks[t] # << >> => 1 \in 1 .. Len(sinks[t])
         /\ Wrote(t, "file") => sinks[t] \in {<< >>, <<"console">>}
         /\ Wrote(t, "console") => sinks[t] = << >>
         /\ sinks[t] # << >> /\ sinks[t][1] = "file" =>
              ~Wrote(t, "file") /\ ~Wrote(t, "console")
         /\ sinks[t] # << >> /\ sinks[t][1] = "console" =>
              sinks[t] = <<"console">> /\ ~Wrote(t, "console")
  <1>1. SinkForm(t)
    BY DEF LastInv
  <1>2. CASE sinks[t] = << >>
    BY <1>2
  <1>3. CASE sinks[t] = <<"file">>
    <2>1. 1 \in 1 .. Len(sinks[t]) /\ sinks[t][1] = "file" /\ sinks[t] # <<"console">>
      BY <1>3
    <2>2. ~Wrote(t, "file")
      BY <2>1 DEF Wrote
    <2>3. ~Wrote(t, "console")
      BY <1>1, <1>3 DEF Wrote, SinkForm
    <2>4. QED
      BY <2>1, <2>2, <2>3
  <1>4. CASE sinks[t] = <<"console">>
    <2>1. 1 \in 1 .. Len(sinks[t]) /\ sinks[t][1] = "console"
      BY <1>4
    <2>2. ~Wrote(t, "console")
      BY <2>1 DEF Wrote
    <2>3. QED
      BY <1>4, <2>1, <2>2
  <1>5. CASE sinks[t] = <<"file", "console">>
    <2>1. /\ 1 \in 1 .. Len(sinks[t]) /\ sinks[t][1] = "file"
          /\ 2 \in 1 .. Len(sinks[t]) /\ sinks[t][2] = "console"
      BY <1>5
    <2>2. ~Wrote(t, "file") /\ ~Wrote(t, "console")
      BY <2>1 DEF Wrote
    <2>3. QED
      BY <2>1, <2>2
  <1>6. QED
    BY <1>1, <1>2, <1>3, <1>4, <1>5 DEF SinkForm

\* While u is in the handler's call, nobody else writes to what it has written.
LEMMA WrittenKept ==
  ASSUME ConsoleViaManager, IInv, LastInv, [Next]_vars, NEW u \in Threads,
         pc[u] = "write", ~Writes(u)
  PROVE  /\ Wrote(u, "file") => file'[target[u]] = file[target[u]]
         /\ Wrote(u, "console") => console' = console
  <1> USE DEF emission_vars, level_vars, output_vars, buffer_vars, lock_vars
  <1>0. /\ file \in [Handlers -> Seq(Pieces)] /\ CallVarTypes
        /\ target[u] \in Handlers /\ handler_lock[target[u]] = u
    BY TypedCalls, SinkOwner DEF IInv, TypeOK
  <1>1. ASSUME NEW t \in Threads, InsideStep(t), WriteLeader(t) \/ WriteText(t)
        PROVE  /\ Wrote(u, "file") => file'[target[u]] = file[target[u]]
               /\ Wrote(u, "console") => console' = console
    <2>1. pc[t] = "write" /\ sinks[t] # << >>
      <3>1. CallOK(t)
        BY DEF IInv, CallInv
      <3>2. QED
        BY <1>1, <3>1 DEF CallOK, WriteLeader, WriteText
    <2>2. 1 \in 1 .. Len(sinks[t])
      BY <2>1, SinkCases
    <2>3. \E part : WritePiece(t, part)
      BY <1>1 DEF WriteLeader, WriteText
    <2>4. CASE t = u
      <3>1. sinks[t][1] \in {"file", "console"}
        BY <2>1, <2>2, SinkOwner
      <3>2. QED
        BY <2>1, <2>3, <2>4, <3>1, SinkCases DEF WritePiece
    <2>5. CASE t # u
      <3>1. target[t] # target[u] /\ target[t] \in Handlers
        BY <2>1, <2>5, SinkOwner
      <3>2. CASE sinks[t][1] = "file"
        BY <1>0, <2>3, <3>1, <3>2 DEF WritePiece
      <3>3. CASE sinks[t][1] # "file"
        <4>1. target[t] \in HasConsole
          BY <2>1, <2>2, <3>3, SinkOwner
        <4>2. ~Wrote(u, "console")
          BY <2>1, <2>5, <4>1, SinkOwner DEF Wrote
        <4>3. file' = file
          BY <2>3, <3>3 DEF WritePiece
        <4>4. QED
          BY <4>2, <4>3
      <3>4. QED
        BY <3>2, <3>3
    <2>6. QED
      BY <2>4, <2>5
  <1>2. ASSUME NEW t \in Threads, NEW h \in HasFile, OpenFile(t, h)
        PROVE  file'[target[u]] = file[target[u]] /\ console' = console
    <2>1. handler_lock[h] = NoThread /\ h \in Handlers
      BY <1>2, LoggerAssumption DEF OpenFile, HandlerFree
    <2>2. h # target[u]
      BY <1>0, <2>1, LoggerAssumption
    <2>3. QED
      BY <1>0, <1>2, <2>1, <2>2 DEF OpenFile
  <1>3. QED
    BY <1>1, <1>2, StepKinds

\* A handler's call that was let through by the manager has the masks it was let
\* through with, and no mask filters the others.
LEMMA Selected ==
  ASSUME IInv, DataInv, EmissionCurrent, NEW t \in Threads, pc[t] = "write",
         NEW i \in 1 .. Len(sinks[t])
  PROVE  Enabled(Head1(t).level, IF sinks[t][i] = "file"
                                 THEN log_level_persistent ELSE log_level_screen)
  <1>1. CASE ViaManager(t)
    BY <1>1 DEF EmissionCurrent
  <1>2. CASE ~ViaManager(t)
    <2>1. Head1(t).src = "direct"
      BY <1>2 DEF ViaManager
    <2>2. Head1(t).level = NoLevel
      BY <2>1, DirectLevel DEF DataInv
    <2>3. QED
      BY <2>2 DEF Enabled
  <1>3. QED
    BY <1>1, <1>2

\* What writing the text of t's line to its first sink does.
LEMMA TextWritten ==
  ASSUME ConsoleViaManager, IInv, DataInv, EmissionCurrent, LastInv,
         NEW t \in Threads, WriteText(t)
  PROVE  /\ pc[t] = "write" /\ pc'[t] = "write" /\ Head1(t)' = Head1(t)
         /\ UNCHANGED <<target, handler_lock, log_level_screen, log_level_persistent>>
         /\ Piece(t, Head1(t), "text") \in Pieces
         /\ \/ /\ sinks[t][1] = "file" /\ sinks'[t] \in {<< >>, <<"console">>}
               /\ sinks[t] = <<"file">> <=> sinks'[t] = << >>
               /\ file' = [file EXCEPT ![target[t]] = Append(@, Piece(t, Head1(t), "text"))]
               /\ console' = console
               /\ ~Wrote(t, "file") /\ Wrote(t, "file")'
               /\ ~Wrote(t, "console") /\ ~Wrote(t, "console")'
            \/ /\ sinks[t] = <<"console">> /\ sinks'[t] = << >>
               /\ console' = Append(console, Piece(t, Head1(t), "text"))
               /\ file' = file
               /\ ~Wrote(t, "console") /\ Wrote(t, "console")'
               /\ Wrote(t, "file")' <=> Wrote(t, "file")
  <1> USE DEF emission_vars, level_vars, output_vars, buffer_vars, lock_vars
  <1>0. CallVarTypes /\ CallOK(t)
    BY TypedCalls DEF IInv, CallInv
  <1>1. /\ pc[t] = "write" /\ pc'[t] = "write" /\ todo' = todo
        /\ UNCHANGED <<target, handler_lock, log_level_screen, log_level_persistent>>
    BY DEF WriteText
  <1>2. Head1(t)' = Head1(t)
    BY <1>1 DEF Head1
  <1>3. Piece(t, Head1(t), "text") \in Pieces
    <2>1. Head1(t) \in Emissions
      BY <1>1, HeadTypes DEF IInv, TypeOK
    <2>2. QED
      BY <2>1, PieceTypes
  <1>4. sinks[t] # << >> /\ 1 \in 1 .. Len(sinks[t])
    BY <1>0, <1>1, SinkCases DEF WriteText, CallOK
  <1>5. sinks[t][1] \in {"file", "console"}
    BY <1>1, <1>4, SinkOwner
  <1>6. sinks'[t] = Tail(sinks[t])
    BY <1>0 DEF WriteText, CallVarTypes
  <1>7. SinkForm(t)
    BY <1>1 DEF LastInv
  <1>8. CASE sinks[t][1] = "file"
    <2>1. ~Wrote(t, "file") /\ ~Wrote(t, "console")
      BY <1>1, <1>4, <1>8, SinkCases
    <2>2. /\ file' = [file EXCEPT ![target[t]] = Append(@, Piece(t, Head1(t), "text"))]
          /\ console' = console
      BY <1>8 DEF WriteText, WritePiece
    <2>3. sinks[t] \in {<<"file">>, <<"file", "console">>}
      BY <1>4, <1>7, <1>8 DEF SinkForm
    <2>4. /\ sinks[t] = <<"file">> => sinks'[t] = << >>
          /\ sinks[t] # <<"file">> => sinks'[t] = <<"console">>
      <3>1. CASE sinks[t] = <<"file">>
        BY <1>6, <3>1
      <3>2. CASE sinks[t] = <<"file", "console">>
        <4>1. sinks'[t] = <<"console">>
          BY <1>6, <3>2
        <4>2. sinks[t] # <<"file">>
          BY <3>2
        <4>3. QED
          BY <4>1, <4>2
      <3>3. QED
        BY <2>3, <3>1, <3>2
    <2>5. target[t] \in HasFile /\ Enabled(Head1(t).level, log_level_persistent)
      BY <1>1, <1>4, <1>8, SinkOwner, Selected
    <2>6. Enabled(Head1(t).level, log_level_persistent)'
      BY <1>1, <1>2, <2>5 DEF Enabled
    <2>7. \A i \in 1 .. Len(sinks'[t]) : sinks'[t][i] # "file"
      BY <2>4
    <2>8. Wrote(t, "file")'
      BY <1>1, <2>5, <2>6, <2>7 DEF Wrote
    <2>9. ~Wrote(t, "console")'
      <3>1. CASE sinks[t] = <<"file">>
        <4>1. target[t] \in HasConsole => ~Enabled(Head1(t).level, log_level_screen)
          BY <1>7, <3>1 DEF SinkForm
        <4>2. QED
          BY <1>1, <1>2, <4>1 DEF Wrote, Enabled
      <3>2. CASE sinks'[t] = <<"console">>
        <4>1. 1 \in 1 .. Len(sinks'[t]) /\ sinks'[t][1] = "console"
          BY <3>2
        <4>2. QED
          BY <4>1 DEF Wrote
      <3>3. QED
        BY <2>4, <3>1, <3>2
    <2>10. <<"console">> # << >>
      BY Zenon, EmptySeq
    <2>11. QED
      BY <1>1, <1>2, <1>3, <1>8, <2>1, <2>2, <2>4, <2>8, <2>9, <2>10
  <1>9. CASE sinks[t][1] = "console"
    <2>1. sinks[t] = <<"console">> /\ ~Wrote(t, "console")
      BY <1>1, <1>4, <1>9, SinkCases
    <2>2. console' = Append(console, Piece(t, Head1(t), "text")) /\ file' = file
      BY <1>9 DEF WriteText, WritePiece
    <2>3. sinks'[t] = << >>
      BY <1>6, <2>1
    <2>4. target[t] \in HasConsole /\ Enabled(Head1(t).level, log_level_screen)
      BY <1>1, <1>4, <1>9, SinkOwner, Selected
    <2>5. Enabled(Head1(t).level, log_level_screen)'
      BY <1>1, <1>2, <2>4 DEF Enabled
    <2>6. Wrote(t, "console")'
      BY <1>1, <2>3, <2>4, <2>5 DEF Wrote
    <2>7. Enabled(Head1(t).level, log_level_persistent)' <=>
            Enabled(Head1(t).level, log_level_persistent)
      BY <1>1, <1>2 DEF Enabled
    <2>8. \A i \in 1 .. Len(sinks[t]) : sinks[t][i] # "file"
      BY <2>1
    <2>9. Wrote(t, "file")' <=> Wrote(t, "file")
      BY <1>1, <2>3, <2>7, <2>8 DEF Wrote
    <2>10. QED
      BY <1>1, <1>2, <1>3, <2>1, <2>2, <2>3, <2>6, <2>9
  <1>10. QED
    BY <1>5, <1>8, <1>9

\* The other steps of the handler's call write nothing that counts.
LEMMA NothingWritten ==
  ASSUME IInv, LastInv, NEW t \in Threads, LockHandler(t) \/ HandlerThrows(t)
  PROVE  /\ ~Wrote(t, "file") /\ ~Wrote(t, "console")
         /\ ~Wrote(t, "file")' /\ ~Wrote(t, "console")'
         /\ pc'[t] = "write" => SinkForm(t)'
         /\ UNCHANGED <<file, console>>
  <1> USE DEF emission_vars, level_vars, output_vars, buffer_vars, lock_vars
  <1>0. CallVarTypes
    BY TypedCalls DEF IInv
  <1>1. CASE LockHandler(t)
    <2>1. pc[t] # "write" /\ pc'[t] = "write"
      BY <1>0, <1>1 DEF LockHandler, CallVarTypes
    <2>2. /\ UNCHANGED <<target, todo, log_level_persistent, log_level_screen>>
          /\ UNCHANGED <<file, console>>
      BY <1>1 DEF LockHandler
    <2> DEFINE F == Enabled(Head1(t).level, log_level_persistent)
               C == Enabled(Head1(t).level, log_level_screen)
    <2>3a. F' <=> F
      BY <2>2 DEF Head1, Enabled
    <2>3b. C' <=> C
      BY <2>2 DEF Head1, Enabled
    <2>4. sinks'[t] = (IF target[t] \in HasFile /\ F THEN <<"file">> ELSE << >>) \o
                      (IF target[t] \in HasConsole /\ C THEN <<"console">> ELSE << >>)
      BY <1>0, <1>1 DEF LockHandler, SinksOf, CallVarTypes
    <2> HIDE DEF F, C
    <2>5. CASE target[t] \in HasFile /\ F
      <3>1. sinks'[t] = IF target[t] \in HasConsole /\ C THEN <<"file", "console">>
                                                          ELSE <<"file">>
        BY <2>4, <2>5
      <3>2. 1 \in 1 .. Len(sinks'[t]) /\ sinks'[t][1] = "file"
        BY <3>1
      <3>3. target[t] \in HasConsole /\ C =>
              2 \in 1 .. Len(sinks'[t]) /\ sinks'[t][2] = "console"
        BY <3>1
      <3>4. QED
        BY <2>1, <2>2, <2>3b, <3>1, <3>2, <3>3 DEF Wrote, SinkForm, C
    <2>6. CASE ~(target[t] \in HasFile /\ F)
      <3>1. sinks'[t] = IF target[t] \in HasConsole /\ C THEN <<"console">> ELSE << >>
        BY <2>4, <2>6
      <3>2. target[t] \in HasConsole /\ C =>
              1 \in 1 .. Len(sinks'[t]) /\ sinks'[t][1] = "console"
        BY <3>1
      <3>3. sinks'[t] # <<"file">>
        BY <3>1
      <3>4. QED
        BY <2>1, <2>2, <2>3a, <2>3b, <2>6, <3>1, <3>2, <3>3 DEF Wrote, SinkForm, C, F
    <2>7. QED
      BY <2>5, <2>6
  <1>2. CASE HandlerThrows(t)
    BY <1>0, <1>2, SinkCases DEF HandlerThrows, CallVarTypes, Wrote
  <1>3. QED
    BY <1>1, <1>2

\* What has been written stays the last thing in its sink until the handler returns.
LEMMA LastStep ==
  ASSUME ConsoleViaManager, IInv, IInv', DataInv, EmissionCurrent, LastInv, [Next]_vars
  PROVE  LastInv'
  <1> SUFFICES ASSUME NEW u \in Threads
               PROVE  /\ pc'[u] = "write" => SinkForm(u)'
                      /\ Wrote(u, "file")' => LastIn(file[target[u]], u)'
                      /\ Wrote(u, "console")' => LastIn(console, u)'
    BY DEF LastInv
  <1>0. /\ file \in [Handlers -> Seq(Pieces)] /\ console \in Seq(Pieces)
    BY DEF IInv, TypeOK
  <1>1. CASE ~Writes(u)
    <2>1. CASE pc'[u] # "write"
      BY <2>1 DEF Wrote
    <2>2. CASE pc'[u] = "write"
      <3>1. /\ pc[u] = "write" /\ target'[u] = target[u] /\ sinks'[u] = sinks[u]
            /\ todo'[u] = todo[u]
        BY <1>1, <2>2, WriterKinds
      <3>2. Head1(u)' = Head1(u)
        BY <3>1 DEF Head1
      <3>3. SinkForm(u)'
        BY <3>1, <3>2, MaskKept DEF LastInv, SinkForm
      <3>4. Wrote(u, "file")' => Wrote(u, "file") /\ file'[target'[u]] = file[target[u]]
        BY <1>1, <3>1, WroteKept, WrittenKept
      <3>5. Wrote(u, "console")' => Wrote(u, "console") /\ console' = console
        BY <1>1, <3>1, WroteKept, WrittenKept
      <3>6. QED
        BY <3>2, <3>3, <3>4, <3>5 DEF LastInv, LastIn, Piece
    <2>3. QED
      BY <2>1, <2>2
  <1>2. CASE LockHandler(u) \/ HandlerThrows(u)
    BY <1>2, NothingWritten
  <1>3. CASE WriteText(u)
    <2> DEFINE p == Piece(u, Head1(u), "text")
    <2>1. target[u] \in Handlers
      BY <1>3, SinkOwner DEF WriteText
    <2>2. p' = p
      BY <1>3, TextWritten DEF Piece
    <2>3. CASE sinks[u] # <<"console">>
      <3>1. /\ file'[target[u]] = Append(file[target[u]], p) /\ target' = target
            /\ sinks'[u] \in {<< >>, <<"console">>} /\ ~Wrote(u, "console")'
        BY <1>0, <1>3, <2>1, <2>3, TextWritten
      <3>2. LastIn(file[target[u]], u)'
        BY <1>0, <2>1, <2>2, <3>1 DEF LastIn
      <3>3. QED
        BY <3>1, <3>2 DEF SinkForm
    <2>4. CASE sinks[u] = <<"console">>
      <3>1. /\ console' = Append(console, p) /\ file' = file /\ target' = target
            /\ sinks'[u] = << >> /\ (Wrote(u, "file")' => Wrote(u, "file"))
        BY <1>3, <2>4, TextWritten
      <3>2. LastIn(console, u)'
        BY <1>0, <2>2, <3>1 DEF LastIn
      <3>3. Wrote(u, "file")' => LastIn(file[target[u]], u)'
        <4>1. SUFFICES ASSUME Wrote(u, "file")' PROVE LastIn(file[target[u]], u)'
          OBVIOUS
        <4>2. LastIn(file[target[u]], u)
          BY <3>1, <4>1 DEF LastInv
        <4>3. file'[target'[u]] = file[target[u]]
          BY <3>1
        <4>4. QED
          BY <2>2, <4>2, <4>3 DEF LastIn
      <3>4. SinkForm(u)'
        BY <3>1 DEF SinkForm
      <3>5. QED
        BY <3>2, <3>3, <3>4
    <2>5. QED
      BY <2>3, <2>4
  <1>4. CASE EmissionDone(u)
    <2>1. pc'[u] # "write"
      BY <1>4, TypedCalls DEF EmissionDone, Return, IInv, CallVarTypes
    <2>2. QED
      BY <2>1 DEF Wrote
  <1>5. QED
    BY <1>1, <1>2, <1>3, <1>4 DEF Writes

-----------------------------------------------------------------------------
(* When the lines of LogService change.                                    *)

\* A thread has written its line to the file of h and is still in the handler.
FileHeld(h) == \E t \in Threads : target[t] = h /\ Wrote(t, "file")
ConsoleHeld == \E t \in Threads : Wrote(t, "console")

FileLine(h) == IF FileHeld(h) THEN AllButLast(Finished(file[h])) ELSE Finished(file[h])

LineMeaning ==
  /\ FileLines = [h \in Handlers |-> FileLine(h)]
  /\ ConsoleLines = IF ConsoleHeld THEN AllButLast(Finished(console))
                                   ELSE Finished(console)

LEMMA LinesMean == IInv => LineMeaning
  <1> SUFFICES ASSUME IInv PROVE LineMeaning
    OBVIOUS
  <1>1. ASSUME NEW h \in Handlers
        PROVE  (\E t \in Threads : handler_lock[h] = t /\ Wrote(t, "file")) <=> FileHeld(h)
    BY DEF IInv, LockInv, FileHeld, Wrote
  <1>2. QED
    BY <1>1 DEF LineMeaning, FileLines, FileLine, ConsoleLines, ConsoleHeld

LEMMA LinesMeanNext == IInv' => LineMeaning'
  BY LinesMean, PTL

\* The line that was written last, and what was there before.
LEMMA LastLine ==
  ASSUME NEW s \in Seq(Pieces), NEW p \in Pieces, p.part # "leader"
  PROVE  /\ Finished(Append(s, p)) = Append(Finished(s), LineOf(p))
         /\ AllButLast(Finished(Append(s, p))) = Finished(s)
  <1> DEFINE k == Cardinality(EndsOf(s))
             F == Finished(s)
             l == LineOf(p)
  <1>1. Finished(Append(s, p)) = Append(F, l)
    BY FinishedAppend
  <1>2. F = [n \in 1 .. k |-> LineOf(s[Nth(EndsOf(s), n)])]
    BY FinishedMeans
  <1>3. k \in Nat
    <2>1. EndsOf(s) \in SUBSET (1 .. Len(s)) /\ Len(s) \in Nat
      BY DEF EndsOf
    <2>2. QED
      BY <2>1, NthAdded
  <1> HIDE DEF k
  <1>4. F = [n \in 1 .. k |-> F[n]]
    BY <1>2
  <1> HIDE DEF F, l
  <1>5. AllButLast(Append(F, l)) = F
    BY <1>3, <1>4, AppendFunction
  <1>6. QED
    BY <1>1, <1>5 DEF F, l

\* Steps after which every line counts that counted before, and no other.
LEMMA LinesSame ==
  ASSUME IInv, IInv',
         \A h \in Handlers : FileHeld(h)' <=> FileHeld(h),
         \A h \in Handlers : Finished(file'[h]) = Finished(file[h]),
         ConsoleHeld' <=> ConsoleHeld,
         Finished(console') = Finished(console)
  PROVE  FileLines' = FileLines /\ ConsoleLines' = ConsoleLines
  <1>1. /\ FileLines = [h \in Handlers |-> FileLine(h)]
        /\ ConsoleLines = IF ConsoleHeld THEN AllButLast(Finished(console))
                                         ELSE Finished(console)
    BY LinesMean DEF LineMeaning
  <1>2. /\ FileLines' = [h \in Handlers |-> FileLine(h)']
        /\ ConsoleLines' = IF ConsoleHeld' THEN AllButLast(Finished(console'))
                                           ELSE Finished(console')
    BY LinesMeanNext DEF LineMeaning
  <1>3. \A h \in Handlers : FileLine(h)' = FileLine(h)
    BY DEF FileLine
  <1>4. QED
    BY <1>1, <1>2, <1>3

\* Steps that let nobody begin or end to have written a line.
LEMMA HeldSame ==
  ASSUME \A u \in Threads :
           /\ Wrote(u, "file")' <=> Wrote(u, "file")
           /\ Wrote(u, "console")' <=> Wrote(u, "console")
           /\ Wrote(u, "file") => target'[u] = target[u]
  PROVE  (\A h \in Handlers : FileHeld(h)' <=> FileHeld(h)) /\ (ConsoleHeld' <=> ConsoleHeld)
  BY DEF FileHeld, ConsoleHeld

\* Steps that neither write a line nor begin or end the call of a handler.
LEMMA QuietLines ==
  ASSUME ConsoleViaManager, IInv, IInv', DataInv, LastInv, [Next]_vars,
         \A t \in Threads : ~Writes(t),
         ~\E t \in Threads, h \in HasFile : OpenFile(t, h)
  PROVE  FileLines' = FileLines /\ ConsoleLines' = ConsoleLines
  <1>0. file \in [Handlers -> Seq(Pieces)] /\ console \in Seq(Pieces)
    BY DEF IInv, TypeOK
  <1>1. \A u \in Threads : /\ Wrote(u, "file")' <=> Wrote(u, "file")
                           /\ Wrote(u, "console")' <=> Wrote(u, "console")
                           /\ Wrote(u, "file") => target'[u] = target[u]
    <2>1. SUFFICES ASSUME NEW u \in Threads
                   PROVE  /\ Wrote(u, "file")' <=> Wrote(u, "file")
                          /\ Wrote(u, "console")' <=> Wrote(u, "console")
                          /\ Wrote(u, "file") => target'[u] = target[u]
      OBVIOUS
    <2>2. QED
      BY WroteKept DEF Wrote
  <1>2. (\A h \in Handlers : FileHeld(h)' <=> FileHeld(h)) /\ (ConsoleHeld' <=> ConsoleHeld)
    BY <1>1, HeldSame
  <1>3. (\A h \in Handlers : Finished(file'[h]) = Finished(file[h]))
        /\ Finished(console') = Finished(console)
    <2>1. CASE UNCHANGED output_vars
      BY <2>1 DEF output_vars
    <2>2. ASSUME NEW t \in Threads, InsideStep(t), WriteLeader(t)
          PROVE  (\A h \in Handlers : Finished(file'[h]) = Finished(file[h]))
                 /\ Finished(console') = Finished(console)
      <3> DEFINE p == Piece(t, Head1(t), "leader")
      <3>1. Head1(t) \in Emissions
        BY <2>2, HeadTypes DEF IInv, TypeOK, WriteLeader
      <3>2. p \in Pieces /\ p.part = "leader"
        BY <3>1, PieceTypes DEF Piece
      <3>3. WritePiece(t, "leader")
        BY <2>2 DEF WriteLeader
      <3> HIDE DEF p
      <3>4. \A s \in Seq(Pieces) : Finished(Append(s, p)) = Finished(s)
        BY <3>2, FinishedAppend
      <3>5. /\ file' = file \/ file' = [file EXCEPT ![target[t]] = Append(@, p)]
            /\ console' = console \/ console' = Append(console, p)
        BY <3>3 DEF WritePiece, p
      <3>6. QED
        BY <1>0, <3>4, <3>5
    <2>3. ASSUME NEW t \in Threads, InsideStep(t), WriteText(t) PROVE FALSE
      BY <2>3 DEF Writes
    <2>4. QED
      BY <2>1, <2>2, <2>3, StepKinds
  <1>4. QED
    BY <1>2, <1>3, LinesSame

\* A writing step changes nothing about what the others have written.
LEMMA OthersKept ==
  ASSUME IInv, DataInv, [Next]_vars, NEW t \in Threads, Writes(t), NEW u \in Threads, u # t
  PROVE  /\ Wrote(u, "file")' <=> Wrote(u, "file")
         /\ Wrote(u, "console")' <=> Wrote(u, "console")
         /\ target'[u] = target[u]
  <1>1. ~Writes(u)
    BY OneWriter
  <1>2. target'[u] = target[u]
    BY WriteChanges DEF Only
  <1>3. QED
    BY <1>1, <1>2, WroteKept

\* The call of a handler begins, or ends in an exception.
LEMMA NothingLines ==
  ASSUME ConsoleViaManager, IInv, IInv', DataInv, LastInv, [Next]_vars,
         NEW t \in Threads, Writes(t), LockHandler(t) \/ HandlerThrows(t)
  PROVE  FileLines' = FileLines /\ ConsoleLines' = ConsoleLines
  <1>1. /\ ~Wrote(t, "file") /\ ~Wrote(t, "console")
        /\ ~Wrote(t, "file")' /\ ~Wrote(t, "console")'
        /\ UNCHANGED <<file, console>>
    BY NothingWritten
  <1>2. \A u \in Threads : /\ Wrote(u, "file")' <=> Wrote(u, "file")
                           /\ Wrote(u, "console")' <=> Wrote(u, "console")
                           /\ Wrote(u, "file") => target'[u] = target[u]
    BY <1>1, OthersKept
  <1>3. (\A h \in Handlers : FileHeld(h)' <=> FileHeld(h)) /\ (ConsoleHeld' <=> ConsoleHeld)
    BY <1>2, HeldSame
  <1>4. QED
    BY <1>1, <1>3, LinesSame

\* A line that is written counts only when the handler returns.
LEMMA TextLines ==
  ASSUME ConsoleViaManager, IInv, IInv', DataInv, EmissionCurrent, LastInv, [Next]_vars,
         NEW t \in Threads, Writes(t), WriteText(t)
  PROVE  FileLines' = FileLines /\ ConsoleLines' = ConsoleLines
  <1> DEFINE p == Piece(t, Head1(t), "text")
  <1>0. file \in [Handlers -> Seq(Pieces)] /\ console \in Seq(Pieces)
    BY DEF IInv, TypeOK
  <1>1. p \in Pieces /\ p.part # "leader" /\ target' = target
    BY TextWritten DEF Piece
  <1>2. \A s \in Seq(Pieces) : AllButLast(Finished(Append(s, p))) = Finished(s)
    BY <1>1, LastLine
  <1>a. target[t] \in Handlers /\ pc[t] = "write"
    BY SinkOwner DEF WriteText
  <1>3. PICK f \in Handlers : f = target[t] /\ pc[t] = "write"
    BY <1>a
  <1>4. \A u \in Threads : u # t => /\ Wrote(u, "file")' <=> Wrote(u, "file")
                                    /\ Wrote(u, "console")' <=> Wrote(u, "console")
    BY OthersKept
  <1>5. /\ FileLines = [h \in Handlers |-> FileLine(h)]
        /\ ConsoleLines = IF ConsoleHeld THEN AllButLast(Finished(console))
                                         ELSE Finished(console)
    BY LinesMean DEF LineMeaning
  <1>6. /\ FileLines' = [h \in Handlers |-> FileLine(h)']
        /\ ConsoleLines' = IF ConsoleHeld' THEN AllButLast(Finished(console'))
                                           ELSE Finished(console')
    BY LinesMeanNext DEF LineMeaning
  <1>7. ASSUME NEW u \in Threads, Wrote(u, "file"), target[u] = f PROVE u = t
    BY <1>3, <1>7, SinkOwner DEF Wrote
  <1>8. ASSUME NEW u \in Threads, Wrote(u, "console"), target[t] \in HasConsole PROVE u = t
    BY <1>3, <1>8, SinkOwner DEF Wrote
  <1>9. CASE sinks[t] # <<"console">>
    <2>1. /\ file' = [file EXCEPT ![f] = Append(@, p)] /\ console' = console
          /\ ~Wrote(t, "file") /\ Wrote(t, "file")'
          /\ ~Wrote(t, "console") /\ ~Wrote(t, "console")'
      BY <1>3, <1>9, TextWritten
    <2>2. ConsoleHeld' <=> ConsoleHeld
      BY <1>4, <2>1 DEF ConsoleHeld
    <2>3. ~FileHeld(f) /\ FileHeld(f)'
      BY <1>1, <1>3, <1>7, <2>1 DEF FileHeld
    <2>4. \A h \in Handlers : h # f => (FileHeld(h)' <=> FileHeld(h))
      BY <1>1, <1>3, <1>4 DEF FileHeld
    <2> HIDE DEF p
    <2>5. AllButLast(Finished(file'[f])) = Finished(file[f])
      BY <1>0, <1>2, <1>3, <2>1
    <2>6. ASSUME NEW h \in Handlers PROVE FileLine(h)' = FileLine(h)
      <3>1. CASE h = f
        BY <2>3, <2>5, <3>1 DEF FileLine
      <3>2. CASE h # f
        BY <1>0, <2>1, <2>4, <3>2 DEF FileLine
      <3>3. QED
        BY <3>1, <3>2
    <2>7. QED
      BY <1>5, <1>6, <2>1, <2>2, <2>6
  <1>10. CASE sinks[t] = <<"console">>
    <2>1. /\ console' = Append(console, p) /\ file' = file
          /\ ~Wrote(t, "console") /\ Wrote(t, "console")'
          /\ Wrote(t, "file")' <=> Wrote(t, "file")
      BY <1>10, TextWritten
    <2>2. \A h \in Handlers : FileHeld(h)' <=> FileHeld(h)
      <3>1. \A u \in Threads : Wrote(u, "file")' <=> Wrote(u, "file")
        BY <1>4, <2>1
      <3>2. QED
        BY <1>1, <3>1 DEF FileHeld
    <2>3. target[t] \in HasConsole
      BY <1>1, <2>1 DEF Wrote
    <2>4. ~ConsoleHeld /\ ConsoleHeld'
      BY <1>8, <2>1, <2>3 DEF ConsoleHeld
    <2> HIDE DEF p
    <2>5. AllButLast(Finished(console')) = Finished(console)
      BY <1>0, <1>2, <2>1
    <2>6. \A h \in Handlers : FileLine(h)' = FileLine(h)
      BY <2>1, <2>2 DEF FileLine
    <2>7. QED
      BY <1>5, <1>6, <2>4, <2>5, <2>6
  <1>11. QED
    BY <1>9, <1>10

\* Only when a handler returns, and when it changes its file, do lines come.
LEMMA LinesKept ==
  ASSUME ConsoleViaManager, IInv, IInv', DataInv, EmissionCurrent, LastInv, [Next]_vars,
         \A t \in Threads : ~(InsideStep(t) /\ EmissionDone(t)),
         ~\E t \in Threads, h \in HasFile : OpenFile(t, h)
  PROVE  FileLines' = FileLines /\ ConsoleLines' = ConsoleLines
  BY QuietLines, NothingLines, TextLines DEF Writes

-----------------------------------------------------------------------------
(* The steps of Logger as steps of LogService.                             *)

\* The handler returns: the line of its caller counts.
LEMMA DoneLines ==
  ASSUME ConsoleViaManager, IInv, IInv', DataInv, LastInv, [Next]_vars,
         NEW t \in Threads, Writes(t), EmissionDone(t)
  PROVE  Service!Deliver(target[t], Service!Line(Head1(t).level, Head1(t).owner, Head1(t).text))
  <1> USE DEF emission_vars, level_vars, output_vars, buffer_vars, lock_vars
  <1> DEFINE p == Piece(t, Head1(t), "text")
             l == Service!Line(Head1(t).level, Head1(t).owner, Head1(t).text)
  <1>0. /\ file \in [Handlers -> Seq(Pieces)] /\ console \in Seq(Pieces)
        /\ pc[t] = "write" /\ sinks[t] = << >> /\ pc'[t] # "write"
        /\ UNCHANGED <<file, console, log_handler_ptr, log_level_screen, log_level_persistent>>
    BY TypedCalls DEF IInv, TypeOK, EmissionDone, Return, CallVarTypes
  <1>a. target[t] \in Handlers
    BY <1>0, SinkOwner
  <1>1. PICK h \in Handlers : h = target[t]
    BY <1>a
  <1>2. p \in Pieces /\ p.part = "text" /\ LineOf(p) = l
    <2>1. Head1(t) \in Emissions
      BY <1>0, HeadTypes DEF IInv, TypeOK
    <2>2. p \in Pieces
      BY <2>1, PieceTypes
    <2>3. QED
      BY <2>2 DEF Piece, LineOf, Service!Line
  <1> HIDE DEF p, l
  <1>3. ~Wrote(t, "file")' /\ ~Wrote(t, "console")'
    BY <1>0 DEF Wrote
  <1>4. /\ Wrote(t, "file") <=>
             h \in HasFile /\ Enabled(Head1(t).level, log_level_persistent)
        /\ Wrote(t, "console") <=>
             h \in HasConsole /\ Enabled(Head1(t).level, log_level_screen)
    BY <1>0, <1>1 DEF Wrote
  <1>5. \A u \in Threads : u # t => /\ Wrote(u, "file")' <=> Wrote(u, "file")
                                    /\ Wrote(u, "console")' <=> Wrote(u, "console")
                                    /\ target'[u] = target[u]
    BY OthersKept
  <1>6. /\ FileLines = [g \in Handlers |-> FileLine(g)]
        /\ ConsoleLines = IF ConsoleHeld THEN AllButLast(Finished(console))
                                         ELSE Finished(console)
    BY LinesMean DEF LineMeaning
  <1>7. /\ FileLines' = [g \in Handlers |-> FileLine(g)']
        /\ ConsoleLines' = IF ConsoleHeld' THEN AllButLast(Finished(console'))
                                           ELSE Finished(console')
    BY LinesMeanNext DEF LineMeaning
  <1>8. \A s \in Seq(Pieces) : /\ Finished(Append(s, p)) = Append(Finished(s), l)
                               /\ AllButLast(Finished(Append(s, p))) = Finished(s)
    BY <1>2, LastLine
  <1>9. ASSUME NEW g \in Handlers, g # h PROVE FileLine(g)' = FileLine(g)
    <2>1. FileHeld(g)' <=> FileHeld(g)
      BY <1>1, <1>3, <1>5, <1>9 DEF FileHeld
    <2>2. QED
      BY <1>0, <2>1 DEF FileLine
  <1>10. FileLine(h)' = IF Wrote(t, "file") THEN Append(FileLine(h), l) ELSE FileLine(h)
    <2>1. FileHeld(h) <=> Wrote(t, "file")
      BY <1>0, <1>1, SinkOwner DEF FileHeld, Wrote
    <2>2. ~FileHeld(h)'
      <3>1. \A u \in Threads : u # t => ~(target[u] = h /\ Wrote(u, "file"))
        BY <1>0, <1>1, SinkOwner DEF Wrote
      <3>2. QED
        BY <1>3, <1>5, <3>1 DEF FileHeld
    <2>3. FileLine(h)' = Finished(file[h])
      BY <1>0, <2>2 DEF FileLine
    <2>4. CASE Wrote(t, "file")
      <3>1. PICK s \in Seq(Pieces) : file[h] = Append(s, p)
        BY <1>1, <2>4 DEF LastInv, LastIn, p
      <3>2. QED
        BY <1>8, <2>1, <2>3, <2>4, <3>1 DEF FileLine
    <2>5. CASE ~Wrote(t, "file")
      BY <2>1, <2>3, <2>5 DEF FileLine
    <2>6. QED
      BY <2>4, <2>5
  <1>11. ConsoleLines' = IF Wrote(t, "console") THEN Append(ConsoleLines, l) ELSE ConsoleLines
    <2>1. CASE Wrote(t, "console")
      <3>1. \A u \in Threads : u # t => ~Wrote(u, "console")
        BY <1>0, <2>1, SinkOwner DEF Wrote
      <3>2. ConsoleHeld /\ ~ConsoleHeld'
        BY <1>3, <1>5, <2>1, <3>1 DEF ConsoleHeld
      <3>3. PICK s \in Seq(Pieces) : console = Append(s, p)
        BY <2>1 DEF LastInv, LastIn, p
      <3>4. QED
        BY <1>0, <1>6, <1>7, <1>8, <2>1, <3>2, <3>3
    <2>2. CASE ~Wrote(t, "console")
      <3>1. ConsoleHeld' <=> ConsoleHeld
        BY <1>3, <1>5, <2>2 DEF ConsoleHeld
      <3>2. QED
        BY <1>0, <1>6, <1>7, <2>2, <3>1
    <2>3. QED
      BY <2>1, <2>2
  <1>12. FileLines' = IF Wrote(t, "file") THEN [FileLines EXCEPT ![h] = Append(@, l)]
                                          ELSE FileLines
    BY <1>6, <1>7, <1>9, <1>10
  <1>13. l.level = Head1(t).level
    BY DEF l, Service!Line
  <1>14. Service!Deliver(h, l)
    BY <1>0, <1>4, <1>11, <1>12, <1>13 DEF Service!Deliver, Service!Selected, Enabled
  <1>15. QED
    BY <1>1, <1>14 DEF l

\* A thread that returns from an emission has delivered its line, or dropped it
\* when nothing is selected.
LEMMA Delivered ==
  ASSUME IInv, IInv', DataInv, EmissionCurrent, [Next]_vars, NEW t \in Threads,
         Return(t), pc[t] \in {"emit", "write"},
         NEW h \in Handlers \union {NoHandler},
         h = log_handler_ptr \/ (pc[t] = "write" /\ h = target[t]),
         Service!Deliver(h, Service!Line(Head1(t).level, Head1(t).owner, Head1(t).text))
  PROVE  [Service!Next]_(Service!vars)
  <1> DEFINE em == Head1(t)
             line == Service!Line(em.level, em.owner, em.text)
  <1>1. em \in Emissions /\ EmissionOK(t, 1) /\ todo[t][1] = em
    BY ReturnBuffer DEF DataInv
  <1>2. em.level \in Levels \union {NoLevel} /\ em.owner \in Threads
    BY <1>1 DEF Emissions
  <1>3. em.src # "direct" => h = log_handler_ptr
    BY DEF EmissionCurrent, ViaManager
  <1>4. em.src = "direct" => em.level = NoLevel
    BY <1>1 DEF EmissionOK
  <1>5. CASE FromBuffer(em)
    <2>1. h = log_handler_ptr
      BY <1>3, <1>5 DEF FromBuffer
    <2>2. em.level \in Levels /\ em.text = line_buffer[em.level][em.owner]
      BY <1>1, <1>5 DEF EmissionOK
    <2>3. line_buffer' = [line_buffer EXCEPT ![em.level][em.owner] = << >>]
      BY <1>5 DEF Return, ClearLine
    <2>4. Service!Finish(em.owner, em.level)
      BY <2>1, <2>2, <2>3 DEF Service!Finish
    <2>5. QED
      BY <1>2, <2>2, <2>4 DEF Service!Next
  <1>6. CASE ~FromBuffer(em)
    <2>1. line_buffer' = line_buffer
      BY <1>6 DEF Return, ClearLine
    <2>2. PICK x \in Texts : em.text = << x >>
      BY <1>1, <1>6 DEF EmissionOK
    <2>3. h = log_handler_ptr \/ em.level = NoLevel
      BY <1>3, <1>4
    <2>4. Service!Say(em.owner, em.level, h)
      BY <2>1, <2>2, <2>3 DEF Service!Say, Texts
    <2>5. QED
      BY <1>2, <2>4 DEF Service!Next
  <1>7. QED
    BY <1>5, <1>6

\* A dropped line goes to no sink.
LEMMA SkippedLines ==
  ASSUME FileLines' = FileLines, ConsoleLines' = ConsoleLines, NEW t \in Threads,
         SkipEmission(t)
  PROVE  Service!Deliver(log_handler_ptr,
                         Service!Line(Head1(t).level, Head1(t).owner, Head1(t).text))
  <1>1. UNCHANGED <<log_handler_ptr, log_level_screen, log_level_persistent>>
    BY DEF SkipEmission, level_vars
  <1>2. CASE log_handler_ptr = NoHandler
    <2>1. log_handler_ptr \notin HasFile /\ log_handler_ptr \notin HasConsole
      BY <1>2, LoggerAssumption
    <2>2. QED
      BY <1>1, <2>1 DEF Service!Deliver
  <1>3. CASE ~Enabled(Head1(t).level, log_level_screen \union log_level_persistent)
    <2> DEFINE l == Service!Line(Head1(t).level, Head1(t).owner, Head1(t).text)
    <2>1. l.level = Head1(t).level
      BY DEF Service!Line
    <2>2. /\ ~Service!Selected(l.level, log_level_persistent)
          /\ ~Service!Selected(l.level, log_level_screen)
      BY <1>3, <2>1 DEF Service!Selected, Enabled
    <2>3. QED
      BY <1>1, <2>2 DEF Service!Deliver
  <1>4. QED
    BY <1>2, <1>3 DEF SkipEmission

\* The seam that OpenFile leaves.
LEMMA SeamLines ==
  ASSUME ConsoleViaManager, IInv, IInv', DataInv, [Next]_vars,
         NEW t \in Threads, NEW h \in HasFile, OpenFile(t, h)
  PROVE  Service!NewFile(h)
  <1> USE DEF emission_vars, level_vars, output_vars, buffer_vars, lock_vars
  <1> DEFINE p == Piece(t, Fresh(NoLevel, t, "direct"), "open")
  <1>0. /\ file \in [Handlers -> Seq(Pieces)] /\ h \in Handlers
        /\ file' = [file EXCEPT ![h] = Append(@, p)]
        /\ UNCHANGED <<console, line_buffer, log_handler_ptr, log_level_screen,
                       log_level_persistent, pc, target, sinks, todo>>
    BY LoggerAssumption DEF IInv, TypeOK, OpenFile
  <1>1. p \in Pieces /\ p.part = "open" /\ LineOf(p) = Service!Seam
    <2>a. life \in [Threads -> Nat] /\ calls \in [Threads -> Nat]
      BY DEF IInv, TypeOK
    <2>b. life[t] \in Nat /\ calls[t] + 1 \in Nat
      BY <2>a
    <2>1. NewText(t) \in Nat \X Nat
      BY <2>b DEF NewText
    <2>2. << NewText(t) >> \in Seq(Nat \X Nat)
      BY <2>1
    <2>3. Fresh(NoLevel, t, "direct") \in Emissions
      BY <2>2 DEF Fresh, Emission, Emissions, Sources
    <2>4. p \in Pieces
      BY <2>3 DEF Piece, Pieces, Emissions
    <2>5. QED
      BY <2>4 DEF Piece, LineOf, Service!Seam, Service!Line
  <1> HIDE DEF p
  <1>2. \A u \in Threads : /\ Wrote(u, "file")' <=> Wrote(u, "file")
                           /\ Wrote(u, "console")' <=> Wrote(u, "console")
                           /\ Wrote(u, "file") => target'[u] = target[u]
    BY <1>0 DEF Wrote, Head1
  <1>3. (\A g \in Handlers : FileHeld(g)' <=> FileHeld(g)) /\ (ConsoleHeld' <=> ConsoleHeld)
    BY <1>2, HeldSame
  <1>4. ~FileHeld(h)
    <2>1. handler_lock[h] = NoThread
      BY DEF OpenFile, HandlerFree
    <2>2. \A u \in Threads : ~(pc[u] = "write" /\ target[u] = h)
      BY <1>0, <2>1, LoggerAssumption DEF IInv, LockInv
    <2>3. QED
      BY <2>2 DEF FileHeld, Wrote
  <1>5. /\ FileLines = [g \in Handlers |-> FileLine(g)]
        /\ ConsoleLines = IF ConsoleHeld THEN AllButLast(Finished(console))
                                         ELSE Finished(console)
    BY LinesMean DEF LineMeaning
  <1>6. /\ FileLines' = [g \in Handlers |-> FileLine(g)']
        /\ ConsoleLines' = IF ConsoleHeld' THEN AllButLast(Finished(console'))
                                           ELSE Finished(console')
    BY LinesMeanNext DEF LineMeaning
  <1>7. FileLine(h)' = Append(FileLine(h), Service!Seam)
    <2>1. Finished(Append(file[h], p)) = Append(Finished(file[h]), Service!Seam)
      BY <1>0, <1>1, LastLine
    <2>2. QED
      BY <1>0, <1>3, <1>4, <2>1 DEF FileLine
  <1>8. \A g \in Handlers : g # h => FileLine(g)' = FileLine(g)
    BY <1>0, <1>3 DEF FileLine
  <1>9. FileLines' = [FileLines EXCEPT ![h] = Append(@, Service!Seam)]
    BY <1>0, <1>5, <1>6, <1>7, <1>8
  <1>10. ConsoleLines' = ConsoleLines
    BY <1>0, <1>3, <1>5, <1>6
  <1>11. QED
    BY <1>0, <1>9, <1>10 DEF Service!NewFile

\* Every step of Logger is a step of LogService or changes nothing there.
LEMMA ServiceStep ==
  ASSUME ConsoleViaManager, IInv, IInv', DataInv, EmissionCurrent, LastInv, [Next]_vars
  PROVE  [Service!Next]_(Service!vars)
  <1> USE DEF emission_vars, level_vars, output_vars, buffer_vars, lock_vars
  <1>1. ASSUME NEW t \in Threads, InsideStep(t), EmissionDone(t)
        PROVE  [Service!Next]_(Service!vars)
    <2>1. Writes(t)
      BY <1>1 DEF Writes
    <2>2. pc[t] = "write" /\ Return(t)
      BY <1>1 DEF EmissionDone
    <2>3. target[t] \in Handlers
      BY <2>2, SinkOwner
    <2>4. QED
      BY <1>1, <2>1, <2>2, <2>3, DoneLines, Delivered
  <1>2. ASSUME NEW t \in Threads, NEW h \in HasFile, OpenFile(t, h)
        PROVE  [Service!Next]_(Service!vars)
    BY <1>2, SeamLines DEF Service!Next
  <1>3. ASSUME \A t \in Threads : ~(InsideStep(t) /\ EmissionDone(t)),
               ~\E t \in Threads, h \in HasFile : OpenFile(t, h)
        PROVE  [Service!Next]_(Service!vars)
    <2>1. FileLines' = FileLines /\ ConsoleLines' = ConsoleLines
      BY <1>3, LinesKept
    <2>2. ASSUME NEW t \in Threads, NEW s \in Levels, PutText(t, s)
          PROVE  [Service!Next]_(Service!vars)
      <3>1. NewText(t) \in Texts
        BY <2>2, NewTextIsText DEF IInv, DataInv, PutText, StartCall
      <3>2. /\ line_buffer' = [line_buffer EXCEPT ![s][t] = Append(@, NewText(t))]
            /\ UNCHANGED <<log_handler_ptr, log_level_screen, log_level_persistent>>
        BY <2>2 DEF PutText
      <3>3. Service!Put(t, s)
        BY <2>1, <3>1, <3>2 DEF Service!Put, Texts
      <3>4. QED
        BY <3>3 DEF Service!Next
    <2>3. ASSUME NEW t \in Threads, SkipEmission(t) \/ EmissionDone(t), Return(t),
                 phase # "aborted", pc[t] \in {"emit", "write"}
          PROVE  [Service!Next]_(Service!vars)
      <3>1. SkipEmission(t)
        BY <1>3, <2>3 DEF InsideStep
      <3>2. log_handler_ptr \in Handlers \union {NoHandler}
        BY DEF IInv, TypeOK
      <3>3. QED
        BY <2>1, <2>3, <3>1, <3>2, SkippedLines, Delivered
    <2>4. CASE line_buffer' = line_buffer
      <3>1. /\ log_handler_ptr' \in Handlers \union {NoHandler}
            /\ log_level_screen' \in SUBSET Levels
            /\ log_level_persistent' \in SUBSET Levels
        BY DEF IInv, TypeOK
      <3>2. Service!Configure
        BY <2>1, <2>4, <3>1 DEF Service!Configure
      <3>3. QED
        BY <3>2 DEF Service!Next
    <2>5. QED
      BY <2>2, <2>3, <2>4, BufferKinds
  <1>4. QED
    BY <1>1, <1>2, <1>3

LEMMA ServiceInit == Init => IInv /\ LastInv /\ Service!Init
  <1> SUFFICES ASSUME Init PROVE LastInv /\ Service!Init
    BY TypeInit, CallInit, LockInit DEF IInv
  <1>1. \A t \in Threads : pc[t] # "write"
    BY DEF Init
  <1>2. LastInv
    BY <1>1 DEF LastInv, Wrote
  <1>3. Finished(<< >>) = << >>
    <2>1. EndsOf(<< >>) = {}
      BY DEF EndsOf
    <2>2. Cardinality({}) = 0
      BY FS_EmptySet
    <2>3. DOMAIN Finished(<< >>) = {} /\ Finished(<< >>) = [n \in {} |-> Finished(<< >>)[n]]
      BY <2>1, <2>2, FinishedMeans
    <2>4. QED
      BY <2>3
  <1>4. ~ConsoleHeld /\ \A h \in Handlers : ~FileHeld(h)
    BY <1>1 DEF ConsoleHeld, FileHeld, Wrote
  <1>5. IInv
    BY TypeInit, CallInit, LockInit DEF IInv
  <1>6. LineMeaning
    BY <1>5, LinesMean
  <1>7. \A h \in Handlers : FileLine(h) = << >>
    BY <1>3, <1>4 DEF FileLine, Init
  <1>8. FileLines = [h \in Handlers |-> << >>] /\ ConsoleLines = << >>
    BY <1>3, <1>4, <1>6, <1>7 DEF LineMeaning, Init
  <1>9. QED
    BY <1>2, <1>8 DEF Init, Service!Init

LEMMA LastInductive == ConsoleViaManager => (Spec => []LastInv)
  <1> SUFFICES ASSUME ConsoleViaManager PROVE Spec => []LastInv
    OBVIOUS
  <1>1. Init => LastInv
    BY ServiceInit
  <1>2. IInv /\ IInv' /\ DataInv /\ EmissionCurrent /\ LastInv /\ [Next]_vars => LastInv'
    BY LastStep
  <1>3. QED
    BY <1>1, <1>2, DataInductive, EmissionsCurrent, PTL DEF Spec

\* Logger implements LogService: with all its locks, threads and half-written
\* lines it delivers whole lines, each at one moment and to the sinks that are
\* selected then, and loses or repeats no text while LogManager's handler and
\* levels change and LogHandlerFileMMap throws.  std::cout belongs to all
\* handlers, and the manager's lock is all that orders its writers: a handler
\* that writes it must not be called past the manager.
THEOREM ServiceImplemented == ConsoleViaManager => (Spec => ImplementsService)
  <1> SUFFICES ASSUME ConsoleViaManager PROVE Spec => ImplementsService
    OBVIOUS
  <1>1. Init => Service!Init
    BY ServiceInit
  <1>2. IInv /\ IInv' /\ DataInv /\ EmissionCurrent /\ LastInv /\ [Next]_vars =>
          [Service!Next]_(Service!vars)
    BY ServiceStep
  <1>3. Spec => []LastInv
    BY LastInductive
  <1>4. QED
    BY <1>1, <1>2, <1>3, DataInductive, EmissionsCurrent, PTL
    DEF Spec, ImplementsService, Service!Spec
=============================================================================
