---------------------------- MODULE LoggerProofs ----------------------------
(***************************************************************************)
(* Proofs about Logger, for every number of threads, handlers and levels.  *)
(*                                                                         *)
(* The inductive invariant is TypeOK /\ CallInv /\ LockInv: who owns a     *)
(* lock follows from the program counters, and which program counters are  *)
(* possible from the emissions that a call still owes.                     *)
(***************************************************************************)
EXTENDS Logger, SequenceTheorems, TLAPS

-----------------------------------------------------------------------------
(* What the operators of Logger return.                                    *)

\* GetLogLevelMask always gives a set of levels that is not empty.
LEMMA MaskNotEmpty ==
  ASSUME NEW lo \in Levels, NEW hi \in Levels
  PROVE  GetLogLevelMask(lo, hi) \in (SUBSET Levels) \ {{}}
  BY LoggerAssumption DEF GetLogLevelMask, Levels, LogLevel_Minimum

\* The emissions that calls and destructors build are emissions.
LEMMA EmissionTypes ==
  ASSUME TypeOK, NEW t \in Threads, NEW s \in Levels \union {NoLevel},
         NEW src \in Sources
  PROVE  /\ NewText(t) \in Nat \X Nat
         /\ Fresh(s, t, src) \in Emissions
         /\ s \in Levels => \A o \in Threads : BufferLine(s, o, src) \in Emissions
  <1>1. life[t] \in Nat /\ calls[t] + 1 \in Nat
    BY DEF TypeOK
  <1>2. NewText(t) \in Nat \X Nat
    BY <1>1 DEF NewText
  <1>3. Fresh(s, t, src) \in Emissions
    BY <1>2 DEF Fresh, Emission, Emissions
  <1>4. line_buffer \in [Levels -> [Threads -> Seq(Nat \X Nat)]]
    BY DEF TypeOK
  <1>5. s \in Levels => \A o \in Threads : BufferLine(s, o, src) \in Emissions
    BY <1>4 DEF BufferLine, Emission, Emissions
  <1>6. QED
    BY <1>2, <1>3, <1>5

\* A piece of an emission is a piece.
LEMMA PieceTypes ==
  ASSUME NEW t \in Threads, NEW em \in Emissions,
         NEW part \in {"leader", "text", "open"}
  PROVE  Piece(t, em, part) \in Pieces
  BY DEF Piece, Pieces, Emissions

-----------------------------------------------------------------------------
(* What the parts that several actions share leave well typed.             *)

\* The emission a thread works on, and what is left after it.
LEMMA HeadTypes ==
  ASSUME TypeOK, CallInv, NEW t \in Threads,
         pc[t] \in {"emit", "locked", "direct", "write"}
  PROVE  /\ Head1(t) \in Emissions
         /\ todo[t] # << >>
         /\ Tail(todo[t]) \in Seq(Emissions)
  <1>1. todo[t] \in Seq(Emissions)
    BY DEF TypeOK
  <1>2. todo[t] # << >>
    BY DEF CallInv, CallOK
  <1>3. QED
    BY <1>1, <1>2 DEF Head1

LEMMA StartCallTypes ==
  ASSUME TypeOK, NEW t \in Threads, NEW op, StartCall(t, op)
  PROVE  /\ calls' \in [Threads -> Nat]
         /\ UNCHANGED <<phase, alive, life, throws>>
  <1>1. calls \in [Threads -> Nat]
    BY DEF TypeOK
  <1>2. QED
    BY <1>1 DEF StartCall

LEMMA StartEmissionTypes ==
  ASSUME TypeOK, NEW t \in Threads, NEW ems \in Seq(Emissions),
         StartEmission(t, ems)
  PROVE  /\ todo' \in [Threads -> Seq(Emissions)]
         /\ pc' \in [Threads -> PcValues]
         /\ UNCHANGED <<target, sinks, half>>
  <1>1. todo \in [Threads -> Seq(Emissions)] /\ pc \in [Threads -> PcValues]
    BY DEF TypeOK
  <1>2. QED
    BY <1>1 DEF StartEmission, PcValues

LEMMA ReturnTypes ==
  ASSUME TypeOK, CallInv, NEW t \in Threads, Return(t),
         pc[t] \in {"emit", "locked", "direct", "write"}
  PROVE  /\ line_buffer' \in [Levels -> [Threads -> Seq(Nat \X Nat)]]
         /\ todo' \in [Threads -> Seq(Emissions)]
         /\ pc' \in [Threads -> PcValues]
  <1>1. /\ todo \in [Threads -> Seq(Emissions)]
        /\ pc \in [Threads -> PcValues]
        /\ line_buffer \in [Levels -> [Threads -> Seq(Nat \X Nat)]]
    BY DEF TypeOK
  <1>2. Tail(todo[t]) \in Seq(Emissions)
    BY HeadTypes
  <1>3. todo' \in [Threads -> Seq(Emissions)]
    BY <1>1, <1>2 DEF Return
  <1>4. pc' \in [Threads -> PcValues]
    BY <1>1 DEF Return, PcValues
  <1>a. ASSUME NEW s, NEW o
        PROVE  [line_buffer EXCEPT ![s][o] = << >>]
                 \in [Levels -> [Threads -> Seq(Nat \X Nat)]]
    <2>1. << >> \in Seq(Nat \X Nat)
      OBVIOUS
    <2>2. ASSUME NEW f \in [Threads -> Seq(Nat \X Nat)]
          PROVE  [f EXCEPT ![o] = << >>] \in [Threads -> Seq(Nat \X Nat)]
      BY <2>1
    <2>3. QED
      BY <1>1, <2>2
  <1>5. line_buffer' \in [Levels -> [Threads -> Seq(Nat \X Nat)]]
    BY <1>1, <1>a DEF Return, ClearLine
  <1>6. QED
    BY <1>3, <1>4, <1>5

LEMMA UnlockTypes ==
  ASSUME TypeOK, NEW t \in Threads, Unlock(t)
  PROVE  /\ handler_lock' \in [Handlers -> Threads \union {NoThread}]
         /\ manager_lock' \in Threads \union {NoThread}
         /\ target' \in [Threads -> Handlers \union {NoHandler}]
  <1>1. /\ handler_lock \in [Handlers -> Threads \union {NoThread}]
        /\ manager_lock \in Threads \union {NoThread}
        /\ target \in [Threads -> Handlers \union {NoHandler}]
    BY DEF TypeOK
  <1>2. QED
    BY <1>1 DEF Unlock

LEMMA WritePieceTypes ==
  ASSUME TypeOK, CallInv, NEW t \in Threads, pc[t] = "write",
         NEW part \in {"leader", "text"}, WritePiece(t, part)
  PROVE  file' \in [Handlers -> Seq(Pieces)] /\ console' \in Seq(Pieces)
  <1>1. file \in [Handlers -> Seq(Pieces)] /\ console \in Seq(Pieces)
    BY DEF TypeOK
  <1>2. Piece(t, Head1(t), part) \in Pieces
    BY HeadTypes, PieceTypes
  <1>3. ASSUME NEW h
        PROVE  [file EXCEPT ![h] = Append(@, Piece(t, Head1(t), part))]
                 \in [Handlers -> Seq(Pieces)]
    <2>1. h \in Handlers => Append(file[h], Piece(t, Head1(t), part)) \in Seq(Pieces)
      BY <1>1, <1>2
    <2>2. QED
      BY <1>1, <2>1
  <1>4. Append(console, Piece(t, Head1(t), part)) \in Seq(Pieces)
    BY <1>1, <1>2
  <1>5. QED
    BY <1>1, <1>3, <1>4 DEF WritePiece

-----------------------------------------------------------------------------
(* Type correctness.                                                       *)

LEMMA TypeInit == Init => TypeOK
  <1> SUFFICES ASSUME Init PROVE TypeOK
    OBVIOUS
  <1>1. MinScreen \in Levels /\ MinPersistent \in Levels /\ LogLevel_Maximum \in Levels
    BY LoggerAssumption DEF Levels, LogLevel_Minimum
  <1>2. /\ log_level_screen \in (SUBSET Levels) \ {{}}
        /\ log_level_persistent \in (SUBSET Levels) \ {{}}
    BY <1>1, MaskNotEmpty DEF Init
  <1>3. QED
    BY <1>2, LoggerAssumption DEF Init, TypeOK, PcValues

LEMMA TypeStep == TypeOK /\ CallInv /\ [Next]_vars => TypeOK'
  <1> SUFFICES ASSUME TypeOK, CallInv, [Next]_vars PROVE TypeOK'
    OBVIOUS
  <1> USE DEF emission_vars, level_vars, output_vars, buffer_vars, lock_vars
  <1>1. ASSUME NEW t \in Threads, NEW s \in Levels, PutText(t, s)
        PROVE  TypeOK'
    <2>1. calls' \in [Threads -> Nat] /\ UNCHANGED <<phase, alive, life, throws>>
      BY <1>1, StartCallTypes DEF PutText
    <2>2. NewText(t) \in Nat \X Nat
      BY EmissionTypes DEF Sources
    <2>3. line_buffer \in [Levels -> [Threads -> Seq(Nat \X Nat)]]
      BY DEF TypeOK
    <2>4. line_buffer' \in [Levels -> [Threads -> Seq(Nat \X Nat)]]
      BY <1>1, <2>2, <2>3 DEF PutText
    <2>5. QED
      BY <1>1, <2>1, <2>4 DEF TypeOK, PutText
  <1>2. ASSUME NEW t \in Threads, NEW s \in Levels, PutEndOfLine(t, s)
        PROVE  TypeOK'
    <2> DEFINE ems == << BufferLine(s, t, "insert") >>
    <2>1. calls' \in [Threads -> Nat] /\ UNCHANGED <<phase, alive, life, throws>>
      BY <1>2, StartCallTypes DEF PutEndOfLine
    <2>2. BufferLine(s, t, "insert") \in Emissions
      BY EmissionTypes DEF Sources
    <2>3. /\ ems \in Seq(Emissions)
          /\ StartEmission(t, ems)
      BY <1>2, <2>2 DEF PutEndOfLine
    <2>4. /\ todo' \in [Threads -> Seq(Emissions)]
          /\ pc' \in [Threads -> PcValues]
          /\ UNCHANGED <<target, sinks, half>>
      BY <2>3, StartEmissionTypes
    <2>5. QED
      BY <1>2, <2>1, <2>4 DEF TypeOK, PutEndOfLine
  <1>3. ASSUME NEW t \in Threads, NEW s \in Levels, Flush(t, s)
        PROVE  TypeOK'
    <2> DEFINE ems == << BufferLine(s, t, "insert") >>
    <2>1. calls' \in [Threads -> Nat] /\ UNCHANGED <<phase, alive, life, throws>>
      BY <1>3, StartCallTypes DEF Flush
    <2>2. BufferLine(s, t, "insert") \in Emissions
      BY EmissionTypes DEF Sources
    <2>3. /\ ems \in Seq(Emissions)
          /\ StartEmission(t, ems)
      BY <1>3, <2>2 DEF Flush
    <2>4. /\ todo' \in [Threads -> Seq(Emissions)]
          /\ pc' \in [Threads -> PcValues]
          /\ UNCHANGED <<target, sinks, half>>
      BY <2>3, StartEmissionTypes
    <2>5. QED
      BY <1>3, <2>1, <2>4 DEF TypeOK, Flush
  <1>4. ASSUME NEW t \in Threads, NEW s \in Levels, PutLiteral(t, s)
        PROVE  TypeOK'
    <2> DEFINE ems ==
          (IF line_buffer[s][t] = << >> THEN << >>
                                        ELSE << BufferLine(s, t, "sync") >>)
          \o << Fresh(s, t, "literal") >>
    <2>1. calls' \in [Threads -> Nat] /\ UNCHANGED <<phase, alive, life, throws>>
      BY <1>4, StartCallTypes DEF PutLiteral
    <2>2. Fresh(s, t, "literal") \in Emissions /\ BufferLine(s, t, "sync") \in Emissions
      BY EmissionTypes DEF Sources
    <2>3. /\ ems \in Seq(Emissions)
          /\ StartEmission(t, ems)
      BY <1>4, <2>2 DEF PutLiteral
    <2>4. /\ todo' \in [Threads -> Seq(Emissions)]
          /\ pc' \in [Threads -> PcValues]
          /\ UNCHANGED <<target, sinks, half>>
      BY <2>3, StartEmissionTypes
    <2>5. QED
      BY <1>4, <2>1, <2>4 DEF TypeOK, PutLiteral
  <1>5. ASSUME NEW t \in Threads, NEW s \in Levels, LogToLevel(t, s)
        PROVE  TypeOK'
    <2> DEFINE ems == << Fresh(s, t, "temp") >>
    <2>1. calls' \in [Threads -> Nat] /\ UNCHANGED <<phase, alive, life, throws>>
      BY <1>5, StartCallTypes DEF LogToLevel
    <2>2. Fresh(s, t, "temp") \in Emissions
      BY EmissionTypes DEF Sources
    <2>3. /\ ems \in Seq(Emissions)
          /\ StartEmission(t, ems)
      BY <1>5, <2>2 DEF LogToLevel
    <2>4. /\ todo' \in [Threads -> Seq(Emissions)]
          /\ pc' \in [Threads -> PcValues]
          /\ UNCHANGED <<target, sinks, half>>
      BY <2>3, StartEmissionTypes
    <2>5. QED
      BY <1>5, <2>1, <2>4 DEF TypeOK, LogToLevel
  <1>6. ASSUME NEW t \in Threads, NEW s \in Levels \union {NoLevel}, ManagerEmit(t, s)
        PROVE  TypeOK'
    <2> DEFINE ems == << Fresh(s, t, "manager") >>
    <2>1. calls' \in [Threads -> Nat] /\ UNCHANGED <<phase, alive, life, throws>>
      BY <1>6, StartCallTypes DEF ManagerEmit
    <2>2. Fresh(s, t, "manager") \in Emissions
      BY EmissionTypes DEF Sources
    <2>3. /\ ems \in Seq(Emissions)
          /\ StartEmission(t, ems)
      BY <1>6, <2>2 DEF ManagerEmit
    <2>4. /\ todo' \in [Threads -> Seq(Emissions)]
          /\ pc' \in [Threads -> PcValues]
          /\ UNCHANGED <<target, sinks, half>>
      BY <2>3, StartEmissionTypes
    <2>5. QED
      BY <1>6, <2>1, <2>4 DEF TypeOK, ManagerEmit
  <1>7. ASSUME NEW t \in Threads, NEW h \in Direct, EmitLineSpecific(t, h)
        PROVE  TypeOK'
    <2>1. calls' \in [Threads -> Nat] /\ UNCHANGED <<phase, alive, life, throws>>
      BY <1>7, StartCallTypes DEF EmitLineSpecific
    <2>2. Fresh(NoLevel, t, "direct") \in Emissions
      BY EmissionTypes DEF Sources
    <2>3. /\ todo \in [Threads -> Seq(Emissions)]
          /\ pc \in [Threads -> PcValues]
          /\ target \in [Threads -> Handlers \union {NoHandler}]
      BY DEF TypeOK
    <2>4. /\ todo' \in [Threads -> Seq(Emissions)]
          /\ pc' \in [Threads -> PcValues]
          /\ target' \in [Threads -> Handlers \union {NoHandler}]
      BY <1>7, <2>2, <2>3, LoggerAssumption DEF EmitLineSpecific, PcValues
    <2>5. QED
      BY <1>7, <2>1, <2>4 DEF TypeOK, EmitLineSpecific
  <1>8. ASSUME NEW t \in Threads, NEW h \in Handlers \union {NoHandler},
               HandlerInstall(t, h)
        PROVE  TypeOK'
    <2>1. calls' \in [Threads -> Nat] /\ UNCHANGED <<phase, alive, life, throws>>
      BY <1>8, StartCallTypes DEF HandlerInstall
    <2>2. /\ pc \in [Threads -> PcValues]
          /\ target \in [Threads -> Handlers \union {NoHandler}]
      BY DEF TypeOK
    <2>3. /\ pc' \in [Threads -> PcValues]
          /\ target' \in [Threads -> Handlers \union {NoHandler}]
      BY <1>8, <2>2 DEF HandlerInstall, PcValues
    <2>4. QED
      BY <1>8, <2>1, <2>3 DEF TypeOK, HandlerInstall
  <1>9. ASSUME NEW t \in Threads, NEW lo \in Levels, NEW hi \in Levels,
               SetLogLevel(t, lo, hi)
        PROVE  TypeOK'
    <2>1. calls' \in [Threads -> Nat] /\ UNCHANGED <<phase, alive, life, throws>>
      BY <1>9, StartCallTypes DEF SetLogLevel
    <2>2. GetLogLevelMask(lo, hi) \in (SUBSET Levels) \ {{}}
      BY MaskNotEmpty
    <2>3. /\ log_level_screen \in (SUBSET Levels) \ {{}}
          /\ log_level_persistent \in (SUBSET Levels) \ {{}}
      BY DEF TypeOK
    <2>4. /\ log_level_screen' \in (SUBSET Levels) \ {{}}
          /\ log_level_persistent' \in (SUBSET Levels) \ {{}}
      BY <1>9, <2>2, <2>3 DEF SetLogLevel
    <2>5. QED
      BY <1>9, <2>1, <2>4 DEF TypeOK, SetLogLevel
  <1>10. ASSUME NEW t \in Threads, NEW h \in HasFile, OpenFile(t, h)
        PROVE  TypeOK'
    <2>1. calls' \in [Threads -> Nat] /\ UNCHANGED <<phase, alive, life, throws>>
      BY <1>10, StartCallTypes DEF OpenFile
    <2>2. Fresh(NoLevel, t, "direct") \in Emissions
      BY EmissionTypes DEF Sources
    <2>3. Piece(t, Fresh(NoLevel, t, "direct"), "open") \in Pieces
      BY <2>2, PieceTypes
    <2>4. file \in [Handlers -> Seq(Pieces)]
      BY DEF TypeOK
    <2>5. file' \in [Handlers -> Seq(Pieces)]
      BY <1>10, <2>3, <2>4, LoggerAssumption DEF OpenFile
    <2>6. QED
      BY <1>10, <2>1, <2>5 DEF TypeOK, OpenFile
  <1>11. ASSUME NEW t \in Threads, ReuseThreadId(t)
        PROVE  TypeOK'
    <2>1. life \in [Threads -> Nat]
      BY DEF TypeOK
    <2>2. life' \in [Threads -> Nat]
      BY <1>11, <2>1 DEF ReuseThreadId
    <2>3. QED
      BY <1>11, <2>2 DEF TypeOK, ReuseThreadId
  <1>12. ASSUME NEW t \in Threads, SkipEmission(t)
        PROVE  TypeOK'
    <2>1. /\ line_buffer' \in [Levels -> [Threads -> Seq(Nat \X Nat)]]
          /\ todo' \in [Threads -> Seq(Emissions)]
          /\ pc' \in [Threads -> PcValues]
      BY <1>12, ReturnTypes DEF SkipEmission
    <2>2. QED
      BY <1>12, <2>1 DEF TypeOK, SkipEmission
  <1>13. ASSUME NEW t \in Threads, LockManager(t)
        PROVE  TypeOK'
    <2>1. /\ pc \in [Threads -> PcValues]
          /\ target \in [Threads -> Handlers \union {NoHandler}]
          /\ log_handler_ptr \in Handlers \union {NoHandler}
      BY DEF TypeOK
    <2>2. /\ pc' \in [Threads -> PcValues]
          /\ target' \in [Threads -> Handlers \union {NoHandler}]
          /\ log_handler_ptr' \in Handlers \union {NoHandler}
      BY <1>13, <2>1 DEF LockManager, PcValues
    <2>3. QED
      BY <1>13, <2>2 DEF TypeOK, LockManager, HoldManager
  <1>14. ASSUME NEW t \in Threads, LockHandler(t)
        PROVE  TypeOK'
    <2>1. /\ pc \in [Threads -> PcValues]
          /\ handler_lock \in [Handlers -> Threads \union {NoThread}]
          /\ sinks \in [Threads -> Seq({"file", "console"})]
      BY DEF TypeOK
    <2>2. \A h, f, c : SinksOf(h, f, c) \in Seq({"file", "console"})
      BY DEF SinksOf
    <2>3. /\ pc' \in [Threads -> PcValues]
          /\ handler_lock' \in [Handlers -> Threads \union {NoThread}]
          /\ sinks' \in [Threads -> Seq({"file", "console"})]
      BY <1>14, <2>1, <2>2 DEF LockHandler, PcValues
    <2>4. QED
      BY <1>14, <2>3 DEF TypeOK, LockHandler
  <1>15. ASSUME NEW t \in Threads, WriteLeader(t)
        PROVE  TypeOK'
    <2>1. file' \in [Handlers -> Seq(Pieces)] /\ console' \in Seq(Pieces)
      BY <1>15, WritePieceTypes DEF WriteLeader
    <2>2. half \in [Threads -> BOOLEAN]
      BY DEF TypeOK
    <2>3. half' \in [Threads -> BOOLEAN]
      BY <1>15, <2>2 DEF WriteLeader
    <2>4. QED
      BY <1>15, <2>1, <2>3 DEF TypeOK, WriteLeader
  <1>16. ASSUME NEW t \in Threads, WriteText(t)
        PROVE  TypeOK'
    <2>1. file' \in [Handlers -> Seq(Pieces)] /\ console' \in Seq(Pieces)
      BY <1>16, WritePieceTypes DEF WriteText
    <2>2. half \in [Threads -> BOOLEAN] /\ sinks \in [Threads -> Seq({"file", "console"})]
      BY DEF TypeOK
    <2>3. sinks[t] # << >>
      BY <1>16 DEF CallInv, CallOK, WriteText
    <2>4. half' \in [Threads -> BOOLEAN] /\ sinks' \in [Threads -> Seq({"file", "console"})]
      BY <1>16, <2>2, <2>3 DEF WriteText
    <2>5. QED
      BY <1>16, <2>1, <2>4 DEF TypeOK, WriteText
  <1>17. ASSUME NEW t \in Threads, EmissionDone(t)
        PROVE  TypeOK'
    <2>1. /\ line_buffer' \in [Levels -> [Threads -> Seq(Nat \X Nat)]]
          /\ todo' \in [Threads -> Seq(Emissions)]
          /\ pc' \in [Threads -> PcValues]
      BY <1>17, ReturnTypes DEF EmissionDone
    <2>2. /\ handler_lock' \in [Handlers -> Threads \union {NoThread}]
          /\ manager_lock' \in Threads \union {NoThread}
          /\ target' \in [Threads -> Handlers \union {NoHandler}]
      BY <1>17, UnlockTypes DEF EmissionDone
    <2>3. QED
      BY <1>17, <2>1, <2>2 DEF TypeOK, EmissionDone
  <1>18. ASSUME NEW t \in Threads, HandlerThrows(t)
        PROVE  TypeOK'
    <2>1. /\ handler_lock' \in [Handlers -> Threads \union {NoThread}]
          /\ manager_lock' \in Threads \union {NoThread}
          /\ target' \in [Threads -> Handlers \union {NoHandler}]
      BY <1>18, UnlockTypes DEF HandlerThrows
    <2>2. /\ todo \in [Threads -> Seq(Emissions)]
          /\ pc \in [Threads -> PcValues]
          /\ sinks \in [Threads -> Seq({"file", "console"})]
          /\ bad_bit \in [Levels -> [Threads -> BOOLEAN]]
          /\ throws \in Nat
          /\ phase \in {"running", "exiting", "exited", "aborted"}
      BY DEF TypeOK
    <2>3. /\ todo' \in [Threads -> Seq(Emissions)]
          /\ pc' \in [Threads -> PcValues]
          /\ sinks' \in [Threads -> Seq({"file", "console"})]
      BY <1>18, <2>2 DEF HandlerThrows, PcValues
    <2>4. \A s, o : [bad_bit EXCEPT ![s][o] = TRUE] \in [Levels -> [Threads -> BOOLEAN]]
      BY <2>2
    <2>5. bad_bit' \in [Levels -> [Threads -> BOOLEAN]]
      BY <1>18, <2>2, <2>4 DEF HandlerThrows
    <2>6. /\ throws' \in Nat
          /\ phase' \in {"running", "exiting", "exited", "aborted"}
      BY <1>18, <2>2 DEF HandlerThrows
    <2>7. QED
      BY <1>18, <2>1, <2>3, <2>5, <2>6 DEF TypeOK, HandlerThrows
  <1>19. ASSUME NEW t \in Threads, RemoveOldHandler(t)
        PROVE  TypeOK'
    <2>1. /\ pc \in [Threads -> PcValues]
          /\ target \in [Threads -> Handlers \union {NoHandler}]
          /\ log_handler_ptr \in Handlers \union {NoHandler}
      BY DEF TypeOK
    <2>2. /\ pc' \in [Threads -> PcValues]
          /\ target' \in [Threads -> Handlers \union {NoHandler}]
          /\ log_handler_ptr' \in Handlers \union {NoHandler}
      BY <1>19, <2>1 DEF RemoveOldHandler, PcValues
    <2>3. QED
      BY <1>19, <2>2 DEF TypeOK, RemoveOldHandler
  <1>20. ASSUME NEW t \in Threads, InstallNewHandler(t)
        PROVE  TypeOK'
    <2>1. /\ pc \in [Threads -> PcValues]
          /\ target \in [Threads -> Handlers \union {NoHandler}]
          /\ log_handler_ptr \in Handlers \union {NoHandler}
      BY DEF TypeOK
    <2>2. /\ pc' \in [Threads -> PcValues]
          /\ target' \in [Threads -> Handlers \union {NoHandler}]
          /\ log_handler_ptr' \in Handlers \union {NoHandler}
      BY <1>20, <2>1 DEF InstallNewHandler, PcValues
    <2>3. QED
      BY <1>20, <2>2 DEF TypeOK, InstallNewHandler
  <1>21. ASSUME BeginExit
        PROVE  TypeOK'
    <2>1. QED
      BY <1>21 DEF TypeOK, BeginExit
  <1>22. ASSUME NEW s \in Levels, NEW o \in Threads,
               DestroyThreadStream(s, o)
        PROVE  TypeOK'
    <2> DEFINE ems == << BufferLine(s, o, "exit") >>
    <2>1. BufferLine(s, o, "exit") \in Emissions
      BY EmissionTypes DEF Sources
    <2>2. /\ ems \in Seq(Emissions)
          /\ StartEmission(Main, ems)
      BY <1>22, <2>1 DEF DestroyThreadStream
    <2>3. /\ todo' \in [Threads -> Seq(Emissions)]
          /\ pc' \in [Threads -> PcValues]
          /\ UNCHANGED <<target, sinks, half>>
      BY <2>2, StartEmissionTypes, LoggerAssumption
    <2>4. QED
      BY <1>22, <2>3 DEF TypeOK, DestroyThreadStream
  <1>23. ASSUME NEW s \in Levels, DestroyStream(s)
        PROVE  TypeOK'
    <2>1. QED
      BY <1>23 DEF TypeOK, DestroyStream
  <1>24. ASSUME DestroyManager
        PROVE  TypeOK'
    <2>1. QED
      BY <1>24 DEF TypeOK, DestroyManager
  <1>25. ASSUME UNCHANGED vars
        PROVE  TypeOK'
    <2>1. QED
      BY <1>25 DEF TypeOK, vars
  <1>26. QED
    BY <1>1, <1>2, <1>3, <1>4, <1>5, <1>6, <1>7, <1>8, <1>9, <1>10, <1>11,
       <1>12, <1>13, <1>14, <1>15, <1>16, <1>17, <1>18, <1>19, <1>20, <1>21,
       <1>22, <1>23, <1>24, <1>25
    DEF Next, ApplicationCall, InsideStep, ExitStep, Stopped

-----------------------------------------------------------------------------
(* Program counters and what a call owes.                                  *)

\* Every step of thread t leaves the call of any other thread alone.
Only(t) == \A u \in Threads \ {t} :
  /\ todo'[u] = todo[u] /\ pc'[u] = pc[u] /\ target'[u] = target[u]
  /\ sinks'[u] = sinks[u] /\ half'[u] = half[u]

CallVarTypes ==
  /\ todo \in [Threads -> Seq(Emissions)]
  /\ pc \in [Threads -> PcValues]
  /\ target \in [Threads -> Handlers \union {NoHandler}]
  /\ sinks \in [Threads -> Seq({"file", "console"})]
  /\ half \in [Threads -> BOOLEAN]

LEMMA TypedCalls == TypeOK => CallVarTypes
  BY DEF TypeOK, CallVarTypes

LEMMA CallFrame ==
  ASSUME CallInv, NEW t \in Threads, Only(t), CallOK(t)',
         phase' \in {"exiting", "exited"} => phase \in {"exiting", "exited"}
  PROVE  CallInv'
  <1>1. ASSUME NEW u \in Threads, u # t PROVE CallOK(u)'
    <2>1. CallOK(u)
      BY DEF CallInv
    <2>2. QED
      BY <1>1, <2>1 DEF Only, CallOK, Head1
  <1>2. QED
    BY <1>1 DEF CallInv

LEMMA CallInit == Init => CallInv
  BY LoggerAssumption DEF Init, CallInv, CallOK

\* A call that starts with emissions through the manager.
LEMMA StartEmissionCall ==
  ASSUME TypeOK, CallInv, NEW t \in Threads, NEW ems \in Seq(Emissions),
         StartEmission(t, ems), ems # << >>, pc[t] = "idle",
         \A i \in 1 .. Len(ems) : ems[i].src # "direct",
         phase' = phase, phase = "running" \/ t = Main
  PROVE  CallInv'
  <1>1. CallVarTypes /\ CallOK(t)
    BY TypedCalls DEF CallInv
  <1>2. Only(t)
    BY <1>1 DEF CallVarTypes, StartEmission, Only
  <1>3. todo'[t] = ems /\ pc'[t] = "emit" /\ sinks'[t] = << >> /\ ~half'[t]
    BY <1>1 DEF CallVarTypes, StartEmission, CallOK
  <1>4. CallOK(t)'
    BY <1>3 DEF CallOK, Head1
  <1>5. QED
    BY <1>2, <1>4, CallFrame

\* What is left of a call after one of its emissions.
LEMMA ReturnCall ==
  ASSUME CallVarTypes, NEW t \in Threads, CallOK(t), todo[t] # << >>, Return(t)
  PROVE  /\ todo'[t] \in Seq(Emissions)
         /\ pc'[t] = IF todo'[t] = << >> THEN "idle" ELSE "emit"
         /\ \A i \in 1 .. Len(todo'[t]) : todo'[t][i].src # "direct"
  <1>1. todo[t] \in Seq(Emissions)
    BY DEF CallVarTypes
  <1>2. /\ todo'[t] = Tail(todo[t])
        /\ pc'[t] = IF Len(todo[t]) = 1 THEN "idle" ELSE "emit"
    BY DEF CallVarTypes, Return
  <1>3. /\ Tail(todo[t]) \in Seq(Emissions)
        /\ Len(Tail(todo[t])) = Len(todo[t]) - 1
        /\ \A i \in 1 .. Len(Tail(todo[t])) : Tail(todo[t])[i] = todo[t][i + 1]
    BY <1>1
  <1>7. Tail(todo[t]) = << >> <=> Len(todo[t]) = 1
    <2>1. Tail(todo[t]) # << >> => Len(Tail(todo[t])) \in Nat \ {0}
      BY <1>3, EmptySeq, Zenon
    <2>2. Tail(todo[t]) = << >> => Len(Tail(todo[t])) = 0
      BY EmptySeq, Zenon
    <2>3. Len(todo[t]) \in Nat
      BY <1>1
    <2>4. QED
      BY <1>3, <2>1, <2>2, <2>3
  <1>4. \A i \in 2 .. Len(todo[t]) : todo[t][i].src # "direct"
    BY DEF CallOK
  <1>5. ASSUME NEW i \in 1 .. Len(Tail(todo[t]))
        PROVE  Tail(todo[t])[i].src # "direct"
    <2>1. i + 1 \in 2 .. Len(todo[t])
      BY <1>1, <1>3
    <2>2. QED
      BY <1>3, <1>4, <2>1
  <1>6. QED
    BY <1>2, <1>3, <1>5, <1>7

\* A step that returns from an emission of t, whose line is in all its sinks.
LEMMA ReturnStep ==
  ASSUME CallVarTypes, CallInv, NEW t \in Threads, Return(t),
         pc[t] \in {"emit", "write"}, sinks[t] = << >>, phase' = phase,
         UNCHANGED <<sinks, half>>,
         \A u \in Threads \ {t} : target'[u] = target[u]
  PROVE  CallInv'
  <1>1. CallOK(t) /\ todo[t] # << >>
    BY DEF CallInv, CallOK
  <1>2. Only(t)
    BY DEF CallVarTypes, Only, Return
  <1>3. sinks'[t] = << >> /\ ~half'[t] /\ (phase \in {"exiting", "exited"} => t = Main)
    BY <1>1 DEF CallVarTypes, CallOK
  <1>4. CallOK(t)'
    BY <1>1, <1>3, ReturnCall DEF CallOK, Head1
  <1>5. QED
    BY <1>2, <1>4, CallFrame

LEMMA CallStep == TypeOK /\ CallInv /\ [Next]_vars => CallInv'
  <1> SUFFICES ASSUME TypeOK, CallInv, [Next]_vars PROVE CallInv'
    OBVIOUS
  <1> USE DEF emission_vars, level_vars, output_vars, buffer_vars, lock_vars
  <1>0. CallVarTypes
    BY TypedCalls
  <1>1. ASSUME NEW t \in Threads, NEW s \in Levels, PutText(t, s)
        PROVE  CallInv'
    <2>1. QED
      BY <1>1 DEF CallInv, CallOK, Head1, StartCall, PutText
  <1>2. ASSUME NEW t \in Threads, NEW s \in Levels, PutEndOfLine(t, s)
        PROVE  CallInv'
    <2> DEFINE ems == << BufferLine(s, t, "insert") >>
    <2>1. BufferLine(s, t, "insert") \in Emissions
      BY EmissionTypes DEF Sources
    <2>2. \A i \in 1 .. Len(ems) : ems[i].src # "direct"
      BY DEF BufferLine, Fresh, Emission
    <2>3. /\ ems \in Seq(Emissions)
          /\ ems # << >>
      BY <2>1
    <2>4. /\ StartEmission(t, ems)
          /\ pc[t] = "idle" /\ phase' = phase /\ phase = "running"
      BY <1>2 DEF PutEndOfLine, StartCall
    <2>5. QED
      BY <2>2, <2>3, <2>4, StartEmissionCall
  <1>3. ASSUME NEW t \in Threads, NEW s \in Levels, Flush(t, s)
        PROVE  CallInv'
    <2> DEFINE ems == << BufferLine(s, t, "insert") >>
    <2>1. BufferLine(s, t, "insert") \in Emissions
      BY EmissionTypes DEF Sources
    <2>2. \A i \in 1 .. Len(ems) : ems[i].src # "direct"
      BY DEF BufferLine, Fresh, Emission
    <2>3. /\ ems \in Seq(Emissions)
          /\ ems # << >>
      BY <2>1
    <2>4. /\ StartEmission(t, ems)
          /\ pc[t] = "idle" /\ phase' = phase /\ phase = "running"
      BY <1>3 DEF Flush, StartCall
    <2>5. QED
      BY <2>2, <2>3, <2>4, StartEmissionCall
  <1>4. ASSUME NEW t \in Threads, NEW s \in Levels, PutLiteral(t, s)
        PROVE  CallInv'
    <2> DEFINE ems ==
          (IF line_buffer[s][t] = << >> THEN << >>
                                        ELSE << BufferLine(s, t, "sync") >>)
          \o << Fresh(s, t, "literal") >>
    <2>1. Fresh(s, t, "literal") \in Emissions /\ BufferLine(s, t, "sync") \in Emissions
      BY EmissionTypes DEF Sources
    <2>2. \A i \in 1 .. Len(ems) : ems[i].src # "direct"
      BY DEF BufferLine, Fresh, Emission
    <2>3. /\ ems \in Seq(Emissions)
          /\ ems # << >>
      BY <2>1
    <2>4. /\ StartEmission(t, ems)
          /\ pc[t] = "idle" /\ phase' = phase /\ phase = "running"
      BY <1>4 DEF PutLiteral, StartCall
    <2>5. QED
      BY <2>2, <2>3, <2>4, StartEmissionCall
  <1>5. ASSUME NEW t \in Threads, NEW s \in Levels, LogToLevel(t, s)
        PROVE  CallInv'
    <2> DEFINE ems == << Fresh(s, t, "temp") >>
    <2>1. Fresh(s, t, "temp") \in Emissions
      BY EmissionTypes DEF Sources
    <2>2. \A i \in 1 .. Len(ems) : ems[i].src # "direct"
      BY DEF BufferLine, Fresh, Emission
    <2>3. /\ ems \in Seq(Emissions)
          /\ ems # << >>
      BY <2>1
    <2>4. /\ StartEmission(t, ems)
          /\ pc[t] = "idle" /\ phase' = phase /\ phase = "running"
      BY <1>5 DEF LogToLevel, StartCall
    <2>5. QED
      BY <2>2, <2>3, <2>4, StartEmissionCall
  <1>6. ASSUME NEW t \in Threads, NEW s \in Levels \union {NoLevel}, ManagerEmit(t, s)
        PROVE  CallInv'
    <2> DEFINE ems == << Fresh(s, t, "manager") >>
    <2>1. Fresh(s, t, "manager") \in Emissions
      BY EmissionTypes DEF Sources
    <2>2. \A i \in 1 .. Len(ems) : ems[i].src # "direct"
      BY DEF BufferLine, Fresh, Emission
    <2>3. /\ ems \in Seq(Emissions)
          /\ ems # << >>
      BY <2>1
    <2>4. /\ StartEmission(t, ems)
          /\ pc[t] = "idle" /\ phase' = phase /\ phase = "running"
      BY <1>6 DEF ManagerEmit, StartCall
    <2>5. QED
      BY <2>2, <2>3, <2>4, StartEmissionCall
  <1>7. ASSUME NEW t \in Threads, NEW h \in Direct, EmitLineSpecific(t, h)
        PROVE  CallInv'
    <2>1. CallOK(t)
      BY DEF CallInv
    <2>2. Only(t)
      BY <1>7, <1>0 DEF CallVarTypes, Only, EmitLineSpecific, StartCall
    <2>3. phase' \in {"exiting", "exited"} => phase \in {"exiting", "exited"}
      BY <1>7 DEF EmitLineSpecific, StartCall
    <2>4. CallOK(t)'
      BY <1>7, <1>0, <2>1, LoggerAssumption
      DEF CallVarTypes, CallOK, Head1, EmitLineSpecific, StartCall, Fresh,
        Emission
    <2>5. QED
      BY <2>2, <2>3, <2>4, CallFrame
  <1>8. ASSUME NEW t \in Threads, NEW h \in Handlers \union {NoHandler},
               HandlerInstall(t, h)
        PROVE  CallInv'
    <2>1. CallOK(t)
      BY DEF CallInv
    <2>2. Only(t)
      BY <1>8, <1>0 DEF CallVarTypes, Only, HandlerInstall, StartCall
    <2>3. phase' \in {"exiting", "exited"} => phase \in {"exiting", "exited"}
      BY <1>8 DEF HandlerInstall, StartCall
    <2>4. CallOK(t)'
      BY <1>8, <1>0, <2>1
      DEF CallVarTypes, CallOK, Head1, HandlerInstall, StartCall
    <2>5. QED
      BY <2>2, <2>3, <2>4, CallFrame
  <1>9. ASSUME NEW t \in Threads, NEW lo \in Levels, NEW hi \in Levels,
               SetLogLevel(t, lo, hi)
        PROVE  CallInv'
    <2>1. QED
      BY <1>9 DEF CallInv, CallOK, Head1, StartCall, SetLogLevel
  <1>10. ASSUME NEW t \in Threads, NEW h \in HasFile, OpenFile(t, h)
        PROVE  CallInv'
    <2>1. QED
      BY <1>10 DEF CallInv, CallOK, Head1, StartCall, OpenFile
  <1>11. ASSUME NEW t \in Threads, ReuseThreadId(t)
        PROVE  CallInv'
    <2>1. QED
      BY <1>11 DEF CallInv, CallOK, Head1, StartCall, ReuseThreadId
  <1>12. ASSUME NEW t \in Threads, SkipEmission(t)
        PROVE  CallInv'
    <2>1. sinks[t] = << >>
      BY <1>12 DEF CallInv, CallOK, SkipEmission
    <2>2. QED
      BY <1>12, <1>0, <2>1, ReturnStep DEF SkipEmission
  <1>13. ASSUME NEW t \in Threads, LockManager(t)
        PROVE  CallInv'
    <2>1. CallOK(t) /\ log_handler_ptr \in Handlers
      BY <1>13 DEF CallInv, LockManager, TypeOK
    <2>2. Only(t)
      BY <1>13, <1>0 DEF CallVarTypes, Only, LockManager
    <2>3. phase' \in {"exiting", "exited"} => phase \in {"exiting", "exited"}
      BY <1>13 DEF LockManager
    <2>4. CallOK(t)'
      BY <1>13, <1>0, <2>1 DEF CallVarTypes, CallOK, Head1, LockManager
    <2>5. QED
      BY <2>2, <2>3, <2>4, CallFrame
  <1>14. ASSUME NEW t \in Threads, LockHandler(t)
        PROVE  CallInv'
    <2>1. CallOK(t)
      BY DEF CallInv
    <2>2. Only(t)
      BY <1>14, <1>0 DEF CallVarTypes, Only, LockHandler
    <2>3. phase' \in {"exiting", "exited"} => phase \in {"exiting", "exited"}
      BY <1>14 DEF LockHandler
    <2>4. CallOK(t)'
      BY <1>14, <1>0, <2>1, LoggerAssumption
      DEF CallVarTypes, CallOK, Head1, LockHandler, SinksOf
    <2>5. QED
      BY <2>2, <2>3, <2>4, CallFrame
  <1>15. ASSUME NEW t \in Threads, WriteLeader(t)
        PROVE  CallInv'
    <2>1. CallOK(t)
      BY DEF CallInv
    <2>2. Only(t)
      BY <1>15, <1>0 DEF CallVarTypes, Only, WriteLeader
    <2>3. phase' \in {"exiting", "exited"} => phase \in {"exiting", "exited"}
      BY <1>15 DEF WriteLeader
    <2>4. CallOK(t)'
      BY <1>15, <1>0, <2>1 DEF CallVarTypes, CallOK, Head1, WriteLeader
    <2>5. QED
      BY <2>2, <2>3, <2>4, CallFrame
  <1>16. ASSUME NEW t \in Threads, WriteText(t)
        PROVE  CallInv'
    <2>1. CallOK(t)
      BY DEF CallInv
    <2>2. Only(t)
      BY <1>16, <1>0 DEF CallVarTypes, Only, WriteText
    <2>3. phase' \in {"exiting", "exited"} => phase \in {"exiting", "exited"}
      BY <1>16 DEF WriteText
    <2>4. CallOK(t)'
      BY <1>16, <1>0, <2>1 DEF CallVarTypes, CallOK, Head1, WriteText
    <2>5. QED
      BY <2>2, <2>3, <2>4, CallFrame
  <1>17. ASSUME NEW t \in Threads, EmissionDone(t)
        PROVE  CallInv'
    <2>1. \A u \in Threads \ {t} : target'[u] = target[u]
      BY <1>17, <1>0 DEF CallVarTypes, EmissionDone, Unlock
    <2>2. QED
      BY <1>17, <1>0, <2>1, ReturnStep DEF EmissionDone
  <1>18. ASSUME NEW t \in Threads, HandlerThrows(t)
        PROVE  CallInv'
    <2>1. CallOK(t)
      BY DEF CallInv
    <2>2. Only(t)
      BY <1>18, <1>0 DEF CallVarTypes, Only, HandlerThrows, Unlock
    <2>3. phase' \in {"exiting", "exited"} => phase \in {"exiting", "exited"}
      BY <1>18 DEF HandlerThrows, Unlock
    <2>4. CallOK(t)'
      BY <1>18, <1>0, <2>1
      DEF CallVarTypes, CallOK, Head1, HandlerThrows, Unlock
    <2>5. QED
      BY <2>2, <2>3, <2>4, CallFrame
  <1>19. ASSUME NEW t \in Threads, RemoveOldHandler(t)
        PROVE  CallInv'
    <2>1. CallOK(t)
      BY DEF CallInv
    <2>2. Only(t)
      BY <1>19, <1>0 DEF CallVarTypes, Only, RemoveOldHandler
    <2>3. phase' \in {"exiting", "exited"} => phase \in {"exiting", "exited"}
      BY <1>19 DEF RemoveOldHandler
    <2>4. CallOK(t)'
      BY <1>19, <1>0, <2>1 DEF CallVarTypes, CallOK, Head1, RemoveOldHandler
    <2>5. QED
      BY <2>2, <2>3, <2>4, CallFrame
  <1>20. ASSUME NEW t \in Threads, InstallNewHandler(t)
        PROVE  CallInv'
    <2>1. CallOK(t)
      BY DEF CallInv
    <2>2. Only(t)
      BY <1>20, <1>0 DEF CallVarTypes, Only, InstallNewHandler
    <2>3. phase' \in {"exiting", "exited"} => phase \in {"exiting", "exited"}
      BY <1>20 DEF InstallNewHandler
    <2>4. CallOK(t)'
      BY <1>20, <1>0, <2>1 DEF CallVarTypes, CallOK, Head1, InstallNewHandler
    <2>5. QED
      BY <2>2, <2>3, <2>4, CallFrame
  <1>21. ASSUME BeginExit
        PROVE  CallInv'
    <2>1. QED
      BY <1>21 DEF CallInv, CallOK, Head1, StartCall, BeginExit
  <1>22. ASSUME NEW s \in Levels, NEW o \in Threads, DestroyThreadStream(s, o)
        PROVE  CallInv'
    <2> DEFINE ems == << BufferLine(s, o, "exit") >>
    <2>1. BufferLine(s, o, "exit") \in Emissions
      BY EmissionTypes DEF Sources
    <2>2. \A i \in 1 .. Len(ems) : ems[i].src # "direct"
      BY DEF BufferLine, Fresh, Emission
    <2>3. /\ ems \in Seq(Emissions)
          /\ ems # << >>
      BY <2>1
    <2>4. /\ StartEmission(Main, ems)
          /\ pc[Main] = "idle" /\ phase' = phase
      BY <1>22 DEF DestroyThreadStream
    <2>5. QED
      BY <2>2, <2>3, <2>4, StartEmissionCall, LoggerAssumption
  <1>23. ASSUME NEW s \in Levels, DestroyStream(s)
        PROVE  CallInv'
    <2>1. QED
      BY <1>23 DEF CallInv, CallOK, Head1, StartCall, DestroyStream
  <1>24. ASSUME DestroyManager
        PROVE  CallInv'
    <2>1. QED
      BY <1>24 DEF CallInv, CallOK, Head1, StartCall, DestroyManager
  <1>25. ASSUME UNCHANGED vars
        PROVE  CallInv'
    <2>1. QED
      BY <1>25 DEF CallInv, CallOK, Head1, StartCall, vars
  <1>26. QED
    BY <1>1, <1>2, <1>3, <1>4, <1>5, <1>6, <1>7, <1>8, <1>9, <1>10, <1>11,
       <1>12, <1>13, <1>14, <1>15, <1>16, <1>17, <1>18, <1>19, <1>20, <1>21,
       <1>22, <1>23, <1>24, <1>25
    DEF Next, ApplicationCall, InsideStep, ExitStep, Stopped

-----------------------------------------------------------------------------
(* Locks.                                                                  *)

\* Steps outside every section that a lock guards.
LEMMA OutsideStep ==
  ASSUME LockInv, NEW t \in Threads, Only(t),
         UNCHANGED <<manager_lock, handler_lock>>,
         pc[t] \in {"idle", "emit", "direct"}, pc'[t] \in {"idle", "emit", "direct"}
  PROVE  LockInv'
  BY DEF LockInv, ViaManager, Head1, Only

\* Steps inside a section.
LEMMA InsideSection ==
  ASSUME LockInv, UNCHANGED <<manager_lock, handler_lock, pc, todo, target>>
  PROVE  LockInv'
  BY DEF LockInv, ViaManager, Head1

\* The handler of t returns or throws, and both locks are released.
LEMMA UnlockStep ==
  ASSUME TypeOK, CallInv, LockInv, NEW t \in Threads, Only(t), Unlock(t),
         pc[t] = "write", pc'[t] \in {"idle", "emit"}
  PROVE  LockInv'
  <1>1. CallVarTypes /\ handler_lock \in [Handlers -> Threads \union {NoThread}]
    BY TypedCalls DEF TypeOK
  <1>2. target[t] \in Handlers /\ handler_lock[target[t]] = t
    BY DEF CallInv, CallOK, LockInv
  <1>3. ASSUME NEW u \in Threads
        PROVE  manager_lock' = u <=> (ViaManager(u) \/ pc[u] \in {"remove", "install"})'
    BY LoggerAssumption DEF LockInv, Unlock, ViaManager, Only, Head1
  <1>4. ASSUME NEW u \in Threads, NEW h \in Handlers
        PROVE  handler_lock'[h] = u <=> (pc[u] = "write" /\ target[u] = h)'
    BY <1>1, <1>2, LoggerAssumption DEF LockInv, Unlock, Only
  <1>5. QED
    BY <1>3, <1>4 DEF LockInv

LEMMA LockInit == Init => LockInv
  BY LoggerAssumption DEF Init, LockInv, ViaManager

LEMMA LockStep == TypeOK /\ CallInv /\ LockInv /\ [Next]_vars => LockInv'
  <1> SUFFICES ASSUME TypeOK, CallInv, LockInv, [Next]_vars PROVE LockInv'
    OBVIOUS
  <1> USE DEF emission_vars, level_vars, output_vars, buffer_vars, lock_vars
  <1>0. CallVarTypes /\ handler_lock \in [Handlers -> Threads \union {NoThread}]
    BY TypedCalls DEF TypeOK
  <1>1. ASSUME NEW t \in Threads, NEW s \in Levels, PutText(t, s)
        PROVE  LockInv'
    <2>1. Only(t)
      BY <1>1, <1>0 DEF CallVarTypes, Only, PutText, StartCall
    <2>2. /\ pc[t] \in {"idle", "emit", "direct"}
          /\ pc'[t] \in {"idle", "emit", "direct"}
          /\ UNCHANGED <<manager_lock, handler_lock>>
      BY <1>1, <1>0 DEF CallVarTypes, PutText, StartCall
    <2>3. QED
      BY <2>1, <2>2, OutsideStep
  <1>2. ASSUME NEW t \in Threads, NEW s \in Levels, PutEndOfLine(t, s)
        PROVE  LockInv'
    <2>1. Only(t)
      BY <1>2, <1>0
      DEF CallVarTypes, Only, PutEndOfLine, StartCall, StartEmission
    <2>2. /\ pc[t] \in {"idle", "emit", "direct"}
          /\ pc'[t] \in {"idle", "emit", "direct"}
          /\ UNCHANGED <<manager_lock, handler_lock>>
      BY <1>2, <1>0 DEF CallVarTypes, PutEndOfLine, StartCall, StartEmission
    <2>3. QED
      BY <2>1, <2>2, OutsideStep
  <1>3. ASSUME NEW t \in Threads, NEW s \in Levels, Flush(t, s)
        PROVE  LockInv'
    <2>1. Only(t)
      BY <1>3, <1>0 DEF CallVarTypes, Only, Flush, StartCall, StartEmission
    <2>2. /\ pc[t] \in {"idle", "emit", "direct"}
          /\ pc'[t] \in {"idle", "emit", "direct"}
          /\ UNCHANGED <<manager_lock, handler_lock>>
      BY <1>3, <1>0 DEF CallVarTypes, Flush, StartCall, StartEmission
    <2>3. QED
      BY <2>1, <2>2, OutsideStep
  <1>4. ASSUME NEW t \in Threads, NEW s \in Levels, PutLiteral(t, s)
        PROVE  LockInv'
    <2>1. Only(t)
      BY <1>4, <1>0
      DEF CallVarTypes, Only, PutLiteral, StartCall, StartEmission
    <2>2. /\ pc[t] \in {"idle", "emit", "direct"}
          /\ pc'[t] \in {"idle", "emit", "direct"}
          /\ UNCHANGED <<manager_lock, handler_lock>>
      BY <1>4, <1>0 DEF CallVarTypes, PutLiteral, StartCall, StartEmission
    <2>3. QED
      BY <2>1, <2>2, OutsideStep
  <1>5. ASSUME NEW t \in Threads, NEW s \in Levels, LogToLevel(t, s)
        PROVE  LockInv'
    <2>1. Only(t)
      BY <1>5, <1>0
      DEF CallVarTypes, Only, LogToLevel, StartCall, StartEmission
    <2>2. /\ pc[t] \in {"idle", "emit", "direct"}
          /\ pc'[t] \in {"idle", "emit", "direct"}
          /\ UNCHANGED <<manager_lock, handler_lock>>
      BY <1>5, <1>0 DEF CallVarTypes, LogToLevel, StartCall, StartEmission
    <2>3. QED
      BY <2>1, <2>2, OutsideStep
  <1>6. ASSUME NEW t \in Threads, NEW s \in Levels \union {NoLevel}, ManagerEmit(t, s)
        PROVE  LockInv'
    <2>1. Only(t)
      BY <1>6, <1>0
      DEF CallVarTypes, Only, ManagerEmit, StartCall, StartEmission
    <2>2. /\ pc[t] \in {"idle", "emit", "direct"}
          /\ pc'[t] \in {"idle", "emit", "direct"}
          /\ UNCHANGED <<manager_lock, handler_lock>>
      BY <1>6, <1>0 DEF CallVarTypes, ManagerEmit, StartCall, StartEmission
    <2>3. QED
      BY <2>1, <2>2, OutsideStep
  <1>7. ASSUME NEW t \in Threads, NEW h \in Direct, EmitLineSpecific(t, h)
        PROVE  LockInv'
    <2>1. Only(t)
      BY <1>7, <1>0 DEF CallVarTypes, Only, EmitLineSpecific, StartCall
    <2>2. /\ pc[t] \in {"idle", "emit", "direct"}
          /\ pc'[t] \in {"idle", "emit", "direct"}
          /\ UNCHANGED <<manager_lock, handler_lock>>
      BY <1>7, <1>0 DEF CallVarTypes, EmitLineSpecific, StartCall
    <2>3. QED
      BY <2>1, <2>2, OutsideStep
  <1>8. ASSUME NEW t \in Threads, NEW h \in Handlers \union {NoHandler},
               HandlerInstall(t, h)
        PROVE  LockInv'
    <2>1. Only(t)
      BY <1>8, <1>0 DEF CallVarTypes, Only, HandlerInstall, StartCall
    <2>2. CallOK(t)
      BY DEF CallInv
    <2>3. ASSUME NEW u \in Threads
          PROVE  manager_lock' = u <=> (ViaManager(u) \/ pc[u] \in {"remove", "install"})'
      BY <1>8, <1>0, <2>1, <2>2, LoggerAssumption
      DEF CallVarTypes, LockInv, ViaManager, Only, Head1, HandlerInstall,
        StartCall
    <2>4. ASSUME NEW u \in Threads, NEW g \in Handlers
          PROVE  handler_lock'[g] = u <=> (pc[u] = "write" /\ target[u] = g)'
      BY <1>8, <1>0, <2>1, <2>2, LoggerAssumption
      DEF CallVarTypes, LockInv, Only, HandlerInstall, StartCall
    <2>5. QED
      BY <2>3, <2>4 DEF LockInv
  <1>9. ASSUME NEW t \in Threads, NEW lo \in Levels, NEW hi \in Levels,
               SetLogLevel(t, lo, hi)
        PROVE  LockInv'
    <2>1. UNCHANGED <<manager_lock, handler_lock, pc, todo, target>>
      BY <1>9 DEF SetLogLevel
    <2>2. QED
      BY <2>1, InsideSection
  <1>10. ASSUME NEW t \in Threads, NEW h \in HasFile, OpenFile(t, h)
        PROVE  LockInv'
    <2>1. UNCHANGED <<manager_lock, handler_lock, pc, todo, target>>
      BY <1>10 DEF OpenFile
    <2>2. QED
      BY <2>1, InsideSection
  <1>11. ASSUME NEW t \in Threads, ReuseThreadId(t)
        PROVE  LockInv'
    <2>1. UNCHANGED <<manager_lock, handler_lock, pc, todo, target>>
      BY <1>11 DEF ReuseThreadId
    <2>2. QED
      BY <2>1, InsideSection
  <1>12. ASSUME NEW t \in Threads, SkipEmission(t)
        PROVE  LockInv'
    <2>1. Only(t)
      BY <1>12, <1>0 DEF CallVarTypes, Only, SkipEmission, Return
    <2>2. /\ pc[t] \in {"idle", "emit", "direct"}
          /\ pc'[t] \in {"idle", "emit", "direct"}
          /\ UNCHANGED <<manager_lock, handler_lock>>
      BY <1>12, <1>0 DEF CallVarTypes, SkipEmission, Return
    <2>3. QED
      BY <2>1, <2>2, OutsideStep
  <1>13. ASSUME NEW t \in Threads, LockManager(t)
        PROVE  LockInv'
    <2>1. Only(t)
      BY <1>13, <1>0 DEF CallVarTypes, Only, LockManager, HoldManager
    <2>2. Head1(t).src # "direct"
      BY <1>13 DEF CallInv, CallOK, LockManager
    <2>3. ASSUME NEW u \in Threads
          PROVE  manager_lock' = u <=> (ViaManager(u) \/ pc[u] \in {"remove", "install"})'
      BY <1>13, <1>0, <2>1, <2>2, LoggerAssumption
      DEF CallVarTypes, LockInv, ViaManager, Only, Head1, LockManager,
        HoldManager
    <2>4. ASSUME NEW u \in Threads, NEW g \in Handlers
          PROVE  handler_lock'[g] = u <=> (pc[u] = "write" /\ target[u] = g)'
      BY <1>13, <1>0, <2>1, <2>2, LoggerAssumption
      DEF CallVarTypes, LockInv, Only, LockManager, HoldManager
    <2>5. QED
      BY <2>3, <2>4 DEF LockInv
  <1>14. ASSUME NEW t \in Threads, LockHandler(t)
        PROVE  LockInv'
    <2>1. Only(t)
      BY <1>14, <1>0 DEF CallVarTypes, Only, LockHandler, HandlerFree
    <2>2. /\ target[t] \in Handlers
          /\ pc[t] = "locked" <=> Head1(t).src # "direct"
      BY <1>14 DEF CallInv, CallOK, LockHandler
    <2>3. ASSUME NEW u \in Threads
          PROVE  manager_lock' = u <=> (ViaManager(u) \/ pc[u] \in {"remove", "install"})'
      BY <1>14, <1>0, <2>1, <2>2, LoggerAssumption
      DEF CallVarTypes, LockInv, ViaManager, Only, Head1, LockHandler,
        HandlerFree
    <2>4. ASSUME NEW u \in Threads, NEW g \in Handlers
          PROVE  handler_lock'[g] = u <=> (pc[u] = "write" /\ target[u] = g)'
      BY <1>14, <1>0, <2>1, <2>2, LoggerAssumption
      DEF CallVarTypes, LockInv, Only, LockHandler, HandlerFree
    <2>5. QED
      BY <2>3, <2>4 DEF LockInv
  <1>15. ASSUME NEW t \in Threads, WriteLeader(t)
        PROVE  LockInv'
    <2>1. UNCHANGED <<manager_lock, handler_lock, pc, todo, target>>
      BY <1>15 DEF WriteLeader
    <2>2. QED
      BY <2>1, InsideSection
  <1>16. ASSUME NEW t \in Threads, WriteText(t)
        PROVE  LockInv'
    <2>1. UNCHANGED <<manager_lock, handler_lock, pc, todo, target>>
      BY <1>16 DEF WriteText
    <2>2. QED
      BY <2>1, InsideSection
  <1>17. ASSUME NEW t \in Threads, EmissionDone(t)
        PROVE  LockInv'
    <2>1. Only(t)
      BY <1>17, <1>0 DEF CallVarTypes, Only, Unlock, EmissionDone, Return
    <2>2. pc[t] = "write" /\ pc'[t] \in {"idle", "emit"} /\ Unlock(t)
      BY <1>17, <1>0 DEF CallVarTypes, EmissionDone, Return
    <2>3. QED
      BY <2>1, <2>2, UnlockStep
  <1>18. ASSUME NEW t \in Threads, HandlerThrows(t)
        PROVE  LockInv'
    <2>1. Only(t)
      BY <1>18, <1>0 DEF CallVarTypes, Only, Unlock, HandlerThrows
    <2>2. pc[t] = "write" /\ pc'[t] \in {"idle", "emit"} /\ Unlock(t)
      BY <1>18, <1>0 DEF CallVarTypes, HandlerThrows
    <2>3. QED
      BY <2>1, <2>2, UnlockStep
  <1>19. ASSUME NEW t \in Threads, RemoveOldHandler(t)
        PROVE  LockInv'
    <2>1. Only(t)
      BY <1>19, <1>0 DEF CallVarTypes, Only, RemoveOldHandler
    <2>2. CallOK(t)
      BY DEF CallInv
    <2>3. ASSUME NEW u \in Threads
          PROVE  manager_lock' = u <=> (ViaManager(u) \/ pc[u] \in {"remove", "install"})'
      BY <1>19, <1>0, <2>1, <2>2, LoggerAssumption
      DEF CallVarTypes, LockInv, ViaManager, Only, Head1, RemoveOldHandler
    <2>4. ASSUME NEW u \in Threads, NEW g \in Handlers
          PROVE  handler_lock'[g] = u <=> (pc[u] = "write" /\ target[u] = g)'
      BY <1>19, <1>0, <2>1, <2>2, LoggerAssumption
      DEF CallVarTypes, LockInv, Only, RemoveOldHandler
    <2>5. QED
      BY <2>3, <2>4 DEF LockInv
  <1>20. ASSUME NEW t \in Threads, InstallNewHandler(t)
        PROVE  LockInv'
    <2>1. Only(t)
      BY <1>20, <1>0 DEF CallVarTypes, Only, InstallNewHandler
    <2>2. CallOK(t)
      BY DEF CallInv
    <2>3. ASSUME NEW u \in Threads
          PROVE  manager_lock' = u <=> (ViaManager(u) \/ pc[u] \in {"remove", "install"})'
      BY <1>20, <1>0, <2>1, <2>2, LoggerAssumption
      DEF CallVarTypes, LockInv, ViaManager, Only, Head1, InstallNewHandler
    <2>4. ASSUME NEW u \in Threads, NEW g \in Handlers
          PROVE  handler_lock'[g] = u <=> (pc[u] = "write" /\ target[u] = g)'
      BY <1>20, <1>0, <2>1, <2>2, LoggerAssumption
      DEF CallVarTypes, LockInv, Only, InstallNewHandler
    <2>5. QED
      BY <2>3, <2>4 DEF LockInv
  <1>21. ASSUME BeginExit
        PROVE  LockInv'
    <2>1. UNCHANGED <<manager_lock, handler_lock, pc, todo, target>>
      BY <1>21 DEF BeginExit
    <2>2. QED
      BY <2>1, InsideSection
  <1>22. ASSUME NEW s \in Levels, NEW o \in Threads,
               DestroyThreadStream(s, o)
        PROVE  LockInv'
    <2>1. Only(Main) /\ Main \in Threads
      BY <1>22, <1>0, LoggerAssumption
      DEF CallVarTypes, Only, DestroyThreadStream, StartEmission
    <2>2. /\ pc[Main] = "idle" /\ pc'[Main] = "emit"
          /\ UNCHANGED <<manager_lock, handler_lock>>
      BY <1>22, <1>0, <2>1 DEF CallVarTypes, DestroyThreadStream, StartEmission
    <2>3. QED
      BY <2>1, <2>2, OutsideStep
  <1>23. ASSUME NEW s \in Levels, DestroyStream(s)
        PROVE  LockInv'
    <2>1. UNCHANGED <<manager_lock, handler_lock, pc, todo, target>>
      BY <1>23 DEF DestroyStream
    <2>2. QED
      BY <2>1, InsideSection
  <1>24. ASSUME DestroyManager
        PROVE  LockInv'
    <2>1. UNCHANGED <<manager_lock, handler_lock, pc, todo, target>>
      BY <1>24 DEF DestroyManager
    <2>2. QED
      BY <2>1, InsideSection
  <1>25. ASSUME UNCHANGED vars
        PROVE  LockInv'
    <2>1. UNCHANGED <<manager_lock, handler_lock, pc, todo, target>>
      BY <1>25 DEF vars
    <2>2. QED
      BY <2>1, InsideSection
  <1>26. QED
    BY <1>1, <1>2, <1>3, <1>4, <1>5, <1>6, <1>7, <1>8, <1>9, <1>10, <1>11,
       <1>12, <1>13, <1>14, <1>15, <1>16, <1>17, <1>18, <1>19, <1>20, <1>21,
       <1>22, <1>23, <1>24, <1>25
    DEF Next, ApplicationCall, InsideStep, ExitStep, Stopped

-----------------------------------------------------------------------------
(* The inductive invariant holds in every behaviour.                       *)

IInv == TypeOK /\ CallInv /\ LockInv

LEMMA Inductive == Spec => []IInv
  <1>1. Init => IInv
    BY TypeInit, CallInit, LockInit DEF IInv
  <1>2. IInv /\ [Next]_vars => IInv'
    BY TypeStep, CallStep, LockStep DEF IInv
  <1>3. QED
    BY <1>1, <1>2, PTL DEF Spec

\* Every variable keeps its type, and neither level mask ever becomes empty,
\* which LogManager's conversions of a mask to levels rely on.
THEOREM TypeCorrect == Spec => []TypeOK
  BY Inductive, PTL DEF IInv

\* What a thread still owes agrees with where it is in its logging call.
THEOREM CallsConsistent == Spec => []CallInv
  BY Inductive, PTL DEF IInv

\* The locks of the manager and of the handlers are held exactly by the
\* threads inside the sections they guard: emission and replacement of the
\* handler exclude each other, and so do any two calls of one handler.
THEOREM MutualExclusion == Spec => []LockInv
  BY Inductive, PTL DEF IInv

-----------------------------------------------------------------------------
(* A line goes only to the handler and the sinks selected at that moment.  *)

\* Steps that do not touch what an emission through the manager depends on.
LEMMA CurrentFrame ==
  ASSUME EmissionCurrent,
         UNCHANGED <<log_handler_ptr, log_level_screen, log_level_persistent>>,
         \A u \in Threads : ViaManager(u)' =>
           /\ ViaManager(u)
           /\ target'[u] = target[u] /\ sinks'[u] = sinks[u]
           /\ Head1(u)' = Head1(u)
  PROVE  EmissionCurrent'
  BY DEF EmissionCurrent, Enabled

LEMMA CurrentStep ==
  IInv /\ IInv' /\ EmissionCurrent /\ [Next]_vars => EmissionCurrent'
  <1> SUFFICES ASSUME IInv, IInv', EmissionCurrent, [Next]_vars
               PROVE  EmissionCurrent'
    OBVIOUS
  <1> USE DEF emission_vars, level_vars, output_vars, buffer_vars, lock_vars
  <1>0. /\ TypeOK /\ CallInv /\ LockInv /\ CallVarTypes
        /\ CallInv' /\ LockInv'
    BY TypedCalls DEF IInv
  <1>1. ASSUME NEW t \in Threads, NEW s \in Levels, PutText(t, s)
        PROVE  EmissionCurrent'
    <2>1. \A u \in Threads : ViaManager(u)' =>
           /\ ViaManager(u)
           /\ target'[u] = target[u] /\ sinks'[u] = sinks[u]
           /\ Head1(u)' = Head1(u)
      BY <1>1, <1>0 DEF CallVarTypes, ViaManager, Head1, PutText, StartCall
    <2>2. UNCHANGED <<log_handler_ptr, log_level_screen, log_level_persistent>>
      BY <1>1 DEF PutText, StartCall
    <2>3. QED
      BY <2>1, <2>2, CurrentFrame
  <1>2. ASSUME NEW t \in Threads, NEW s \in Levels, PutEndOfLine(t, s)
        PROVE  EmissionCurrent'
    <2>1. \A u \in Threads : ViaManager(u)' =>
           /\ ViaManager(u)
           /\ target'[u] = target[u] /\ sinks'[u] = sinks[u]
           /\ Head1(u)' = Head1(u)
      BY <1>2, <1>0
      DEF CallVarTypes, ViaManager, Head1, PutEndOfLine, StartCall,
        StartEmission
    <2>2. UNCHANGED <<log_handler_ptr, log_level_screen, log_level_persistent>>
      BY <1>2 DEF PutEndOfLine, StartCall, StartEmission
    <2>3. QED
      BY <2>1, <2>2, CurrentFrame
  <1>3. ASSUME NEW t \in Threads, NEW s \in Levels, Flush(t, s)
        PROVE  EmissionCurrent'
    <2>1. \A u \in Threads : ViaManager(u)' =>
           /\ ViaManager(u)
           /\ target'[u] = target[u] /\ sinks'[u] = sinks[u]
           /\ Head1(u)' = Head1(u)
      BY <1>3, <1>0
      DEF CallVarTypes, ViaManager, Head1, Flush, StartCall, StartEmission
    <2>2. UNCHANGED <<log_handler_ptr, log_level_screen, log_level_persistent>>
      BY <1>3 DEF Flush, StartCall, StartEmission
    <2>3. QED
      BY <2>1, <2>2, CurrentFrame
  <1>4. ASSUME NEW t \in Threads, NEW s \in Levels, PutLiteral(t, s)
        PROVE  EmissionCurrent'
    <2>1. \A u \in Threads : ViaManager(u)' =>
           /\ ViaManager(u)
           /\ target'[u] = target[u] /\ sinks'[u] = sinks[u]
           /\ Head1(u)' = Head1(u)
      BY <1>4, <1>0
      DEF CallVarTypes, ViaManager, Head1, PutLiteral, StartCall, StartEmission
    <2>2. UNCHANGED <<log_handler_ptr, log_level_screen, log_level_persistent>>
      BY <1>4 DEF PutLiteral, StartCall, StartEmission
    <2>3. QED
      BY <2>1, <2>2, CurrentFrame
  <1>5. ASSUME NEW t \in Threads, NEW s \in Levels, LogToLevel(t, s)
        PROVE  EmissionCurrent'
    <2>1. \A u \in Threads : ViaManager(u)' =>
           /\ ViaManager(u)
           /\ target'[u] = target[u] /\ sinks'[u] = sinks[u]
           /\ Head1(u)' = Head1(u)
      BY <1>5, <1>0
      DEF CallVarTypes, ViaManager, Head1, LogToLevel, StartCall, StartEmission
    <2>2. UNCHANGED <<log_handler_ptr, log_level_screen, log_level_persistent>>
      BY <1>5 DEF LogToLevel, StartCall, StartEmission
    <2>3. QED
      BY <2>1, <2>2, CurrentFrame
  <1>6. ASSUME NEW t \in Threads, NEW s \in Levels \union {NoLevel}, ManagerEmit(t, s)
        PROVE  EmissionCurrent'
    <2>1. \A u \in Threads : ViaManager(u)' =>
           /\ ViaManager(u)
           /\ target'[u] = target[u] /\ sinks'[u] = sinks[u]
           /\ Head1(u)' = Head1(u)
      BY <1>6, <1>0
      DEF CallVarTypes, ViaManager, Head1, ManagerEmit, StartCall,
        StartEmission
    <2>2. UNCHANGED <<log_handler_ptr, log_level_screen, log_level_persistent>>
      BY <1>6 DEF ManagerEmit, StartCall, StartEmission
    <2>3. QED
      BY <2>1, <2>2, CurrentFrame
  <1>7. ASSUME NEW t \in Threads, NEW h \in Direct, EmitLineSpecific(t, h)
        PROVE  EmissionCurrent'
    <2>1. \A u \in Threads : ViaManager(u)' =>
           /\ ViaManager(u)
           /\ target'[u] = target[u] /\ sinks'[u] = sinks[u]
           /\ Head1(u)' = Head1(u)
      BY <1>7, <1>0
      DEF CallVarTypes, ViaManager, Head1, EmitLineSpecific, StartCall
    <2>2. UNCHANGED <<log_handler_ptr, log_level_screen, log_level_persistent>>
      BY <1>7 DEF EmitLineSpecific, StartCall
    <2>3. QED
      BY <2>1, <2>2, CurrentFrame
  <1>8. ASSUME NEW t \in Threads, NEW h \in Handlers \union {NoHandler},
               HandlerInstall(t, h)
        PROVE  EmissionCurrent'
    <2>1. \A u \in Threads : ViaManager(u)' =>
           /\ ViaManager(u)
           /\ target'[u] = target[u] /\ sinks'[u] = sinks[u]
           /\ Head1(u)' = Head1(u)
      BY <1>8, <1>0
      DEF CallVarTypes, ViaManager, Head1, HandlerInstall, StartCall
    <2>2. UNCHANGED <<log_handler_ptr, log_level_screen, log_level_persistent>>
      BY <1>8 DEF HandlerInstall, StartCall
    <2>3. QED
      BY <2>1, <2>2, CurrentFrame
  <1>9. ASSUME NEW t \in Threads, NEW lo \in Levels, NEW hi \in Levels,
               SetLogLevel(t, lo, hi)
        PROVE  EmissionCurrent'
    <2>1. \A u \in Threads : ~ViaManager(u)'
      BY <1>9, <1>0, LoggerAssumption
      DEF CallVarTypes, LockInv, ViaManager, Head1, SetLogLevel
    <2>2. QED
      BY <2>1 DEF EmissionCurrent
  <1>10. ASSUME NEW t \in Threads, NEW h \in HasFile, OpenFile(t, h)
        PROVE  EmissionCurrent'
    <2>1. \A u \in Threads : ViaManager(u)' =>
           /\ ViaManager(u)
           /\ target'[u] = target[u] /\ sinks'[u] = sinks[u]
           /\ Head1(u)' = Head1(u)
      BY <1>10, <1>0 DEF CallVarTypes, ViaManager, Head1, OpenFile
    <2>2. UNCHANGED <<log_handler_ptr, log_level_screen, log_level_persistent>>
      BY <1>10 DEF OpenFile
    <2>3. QED
      BY <2>1, <2>2, CurrentFrame
  <1>11. ASSUME NEW t \in Threads, ReuseThreadId(t)
        PROVE  EmissionCurrent'
    <2>1. \A u \in Threads : ViaManager(u)' =>
           /\ ViaManager(u)
           /\ target'[u] = target[u] /\ sinks'[u] = sinks[u]
           /\ Head1(u)' = Head1(u)
      BY <1>11, <1>0 DEF CallVarTypes, ViaManager, Head1, ReuseThreadId
    <2>2. UNCHANGED <<log_handler_ptr, log_level_screen, log_level_persistent>>
      BY <1>11 DEF ReuseThreadId
    <2>3. QED
      BY <2>1, <2>2, CurrentFrame
  <1>12. ASSUME NEW t \in Threads, SkipEmission(t)
        PROVE  EmissionCurrent'
    <2>1. \A u \in Threads : ViaManager(u)' =>
           /\ ViaManager(u)
           /\ target'[u] = target[u] /\ sinks'[u] = sinks[u]
           /\ Head1(u)' = Head1(u)
      BY <1>12, <1>0 DEF CallVarTypes, ViaManager, Head1, SkipEmission, Return
    <2>2. UNCHANGED <<log_handler_ptr, log_level_screen, log_level_persistent>>
      BY <1>12 DEF SkipEmission, Return
    <2>3. QED
      BY <2>1, <2>2, CurrentFrame
  <1>13. ASSUME NEW t \in Threads, LockManager(t)
        PROVE  EmissionCurrent'
    <2>1. sinks'[t] = << >> /\ target'[t] = log_handler_ptr'
      BY <1>13, <1>0 DEF CallVarTypes, CallInv, CallOK, LockManager
    <2>2. ASSUME NEW u \in Threads, u # t, ViaManager(u)' PROVE FALSE
      BY <1>13, <1>0, <2>2, LoggerAssumption
      DEF LockInv, LockManager, HoldManager
    <2>3. Len(sinks'[t]) = 0
      BY <2>1
    <2>4. QED
      BY <2>1, <2>2, <2>3 DEF EmissionCurrent
  <1>14. ASSUME NEW t \in Threads, LockHandler(t)
        PROVE  EmissionCurrent'
    <2>1. ASSUME NEW u \in Threads, u # t, ViaManager(u)'
          PROVE  /\ ViaManager(u)
                 /\ target'[u] = target[u] /\ sinks'[u] = sinks[u]
                 /\ Head1(u)' = Head1(u)
      BY <1>14, <1>0, <2>1 DEF CallVarTypes, ViaManager, Head1, LockHandler
    <2>2. ASSUME NEW u \in Threads, u # t, ViaManager(u)'
          PROVE  (/\ target[u] = log_handler_ptr
                  /\ \A i \in 1 .. Len(sinks[u]) :
                       Enabled(Head1(u).level, IF sinks[u][i] = "file"
                                 THEN log_level_persistent ELSE log_level_screen))'
      BY <1>14, <2>1, <2>2 DEF EmissionCurrent, LockHandler, Enabled
    <2>3. ASSUME ViaManager(t)'
          PROVE  ViaManager(t) /\ target'[t] = log_handler_ptr'
      BY <1>14, <1>0, <2>3
      DEF CallVarTypes, CallInv, CallOK, ViaManager, Head1, EmissionCurrent,
        LockHandler
    <2>4. sinks'[t] = SinksOf(target[t], Enabled(Head1(t).level, log_level_persistent),
                                Enabled(Head1(t).level, log_level_screen))
      BY <1>14, <1>0 DEF CallVarTypes, LockHandler
    <2>5. ASSUME NEW i \in 1 .. Len(sinks'[t])
          PROVE  Enabled(Head1(t).level, IF sinks'[t][i] = "file"
                           THEN log_level_persistent ELSE log_level_screen)
      BY <2>4 DEF SinksOf
    <2>6. /\ Head1(t)' = Head1(t)
          /\ UNCHANGED <<log_level_screen, log_level_persistent>>
      BY <1>14 DEF Head1, LockHandler
    <2>7. QED
      BY <2>2, <2>3, <2>5, <2>6 DEF EmissionCurrent, Enabled
  <1>15. ASSUME NEW t \in Threads, WriteLeader(t)
        PROVE  EmissionCurrent'
    <2>1. \A u \in Threads : ViaManager(u)' =>
           /\ ViaManager(u)
           /\ target'[u] = target[u] /\ sinks'[u] = sinks[u]
           /\ Head1(u)' = Head1(u)
      BY <1>15, <1>0 DEF CallVarTypes, ViaManager, Head1, WriteLeader
    <2>2. UNCHANGED <<log_handler_ptr, log_level_screen, log_level_persistent>>
      BY <1>15 DEF WriteLeader
    <2>3. QED
      BY <2>1, <2>2, CurrentFrame
  <1>16. ASSUME NEW t \in Threads, WriteText(t)
        PROVE  EmissionCurrent'
    <2>1. \A u \in Threads : ViaManager(u)' =>
           /\ ViaManager(u) /\ target'[u] = target[u]
           /\ Head1(u)' = Head1(u)
      BY <1>16, <1>0 DEF CallVarTypes, ViaManager, Head1, WriteText
    <2>2. /\ sinks[t] \in Seq({"file", "console"}) /\ sinks[t] # << >>
          /\ sinks'[t] = Tail(sinks[t])
      BY <1>16, <1>0 DEF CallVarTypes, CallInv, CallOK, WriteText
    <2>3. \A i \in 1 .. Len(sinks'[t]) : i + 1 \in 1 .. Len(sinks[t])
                                      /\ sinks'[t][i] = sinks[t][i + 1]
      BY <2>2
    <2>4. \A u \in Threads : u # t => sinks'[u] = sinks[u]
      BY <1>16, <1>0 DEF CallVarTypes, WriteText
    <2>5. UNCHANGED <<log_handler_ptr, log_level_screen, log_level_persistent>>
      BY <1>16 DEF WriteText
    <2>6. QED
      BY <2>1, <2>3, <2>4, <2>5 DEF EmissionCurrent, Enabled
  <1>17. ASSUME NEW t \in Threads, EmissionDone(t)
        PROVE  EmissionCurrent'
    <2>1. \A u \in Threads : ViaManager(u)' =>
           /\ ViaManager(u)
           /\ target'[u] = target[u] /\ sinks'[u] = sinks[u]
           /\ Head1(u)' = Head1(u)
      BY <1>17, <1>0
      DEF CallVarTypes, ViaManager, Head1, EmissionDone, Return, Unlock
    <2>2. UNCHANGED <<log_handler_ptr, log_level_screen, log_level_persistent>>
      BY <1>17 DEF EmissionDone, Return, Unlock
    <2>3. QED
      BY <2>1, <2>2, CurrentFrame
  <1>18. ASSUME NEW t \in Threads, HandlerThrows(t)
        PROVE  EmissionCurrent'
    <2>1. \A u \in Threads : ViaManager(u)' =>
           /\ ViaManager(u)
           /\ target'[u] = target[u] /\ sinks'[u] = sinks[u]
           /\ Head1(u)' = Head1(u)
      BY <1>18, <1>0 DEF CallVarTypes, ViaManager, Head1, HandlerThrows, Unlock
    <2>2. UNCHANGED <<log_handler_ptr, log_level_screen, log_level_persistent>>
      BY <1>18 DEF HandlerThrows, Unlock
    <2>3. QED
      BY <2>1, <2>2, CurrentFrame
  <1>19. ASSUME NEW t \in Threads, RemoveOldHandler(t)
        PROVE  EmissionCurrent'
    <2>1. \A u \in Threads : ~ViaManager(u)'
      BY <1>19, <1>0, LoggerAssumption
      DEF CallVarTypes, LockInv, ViaManager, Head1, RemoveOldHandler
    <2>2. QED
      BY <2>1 DEF EmissionCurrent
  <1>20. ASSUME NEW t \in Threads, InstallNewHandler(t)
        PROVE  EmissionCurrent'
    <2>1. \A u \in Threads : ~ViaManager(u)'
      BY <1>20, <1>0, LoggerAssumption
      DEF CallVarTypes, LockInv, ViaManager, Head1, InstallNewHandler
    <2>2. QED
      BY <2>1 DEF EmissionCurrent
  <1>21. ASSUME BeginExit
        PROVE  EmissionCurrent'
    <2>1. \A u \in Threads : ViaManager(u)' =>
           /\ ViaManager(u)
           /\ target'[u] = target[u] /\ sinks'[u] = sinks[u]
           /\ Head1(u)' = Head1(u)
      BY <1>21, <1>0 DEF CallVarTypes, ViaManager, Head1, BeginExit
    <2>2. UNCHANGED <<log_handler_ptr, log_level_screen, log_level_persistent>>
      BY <1>21 DEF BeginExit
    <2>3. QED
      BY <2>1, <2>2, CurrentFrame
  <1>22. ASSUME NEW s \in Levels, NEW o \in Threads,
               DestroyThreadStream(s, o)
        PROVE  EmissionCurrent'
    <2>1. \A u \in Threads : ViaManager(u)' =>
           /\ ViaManager(u)
           /\ target'[u] = target[u] /\ sinks'[u] = sinks[u]
           /\ Head1(u)' = Head1(u)
      BY <1>22, <1>0
      DEF CallVarTypes, ViaManager, Head1, DestroyThreadStream, StartEmission
    <2>2. UNCHANGED <<log_handler_ptr, log_level_screen, log_level_persistent>>
      BY <1>22 DEF DestroyThreadStream, StartEmission
    <2>3. QED
      BY <2>1, <2>2, CurrentFrame
  <1>23. ASSUME NEW s \in Levels, DestroyStream(s)
        PROVE  EmissionCurrent'
    <2>1. \A u \in Threads : ViaManager(u)' =>
           /\ ViaManager(u)
           /\ target'[u] = target[u] /\ sinks'[u] = sinks[u]
           /\ Head1(u)' = Head1(u)
      BY <1>23, <1>0 DEF CallVarTypes, ViaManager, Head1, DestroyStream
    <2>2. UNCHANGED <<log_handler_ptr, log_level_screen, log_level_persistent>>
      BY <1>23 DEF DestroyStream
    <2>3. QED
      BY <2>1, <2>2, CurrentFrame
  <1>24. ASSUME DestroyManager
        PROVE  EmissionCurrent'
    <2>1. \A u \in Threads : ~ViaManager(u)'
      BY <1>24, <1>0, LoggerAssumption
      DEF CallVarTypes, LockInv, ViaManager, Head1, DestroyManager, CallInv,
        CallOK
    <2>2. QED
      BY <2>1 DEF EmissionCurrent
  <1>25. ASSUME UNCHANGED vars
        PROVE  EmissionCurrent'
    <2>1. \A u \in Threads : ViaManager(u)' =>
           /\ ViaManager(u)
           /\ target'[u] = target[u] /\ sinks'[u] = sinks[u]
           /\ Head1(u)' = Head1(u)
      BY <1>25, <1>0 DEF CallVarTypes, ViaManager, Head1, vars
    <2>2. UNCHANGED <<log_handler_ptr, log_level_screen, log_level_persistent>>
      BY <1>25 DEF vars
    <2>3. QED
      BY <2>1, <2>2, CurrentFrame
  <1>26. QED
    BY <1>1, <1>2, <1>3, <1>4, <1>5, <1>6, <1>7, <1>8, <1>9, <1>10, <1>11,
       <1>12, <1>13, <1>14, <1>15, <1>16, <1>17, <1>18, <1>19, <1>20, <1>21,
       <1>22, <1>23, <1>24, <1>25
    DEF Next, ApplicationCall, InsideStep, ExitStep, Stopped

\* A line through the manager is written only to the handler installed at
\* that moment, and only to sinks whose mask selects its level: once
\* HandlerInstall or SetLogLevel* has returned, no line follows the old choice.
THEOREM EmissionsCurrent == Spec => []EmissionCurrent
  <1>1. Init => EmissionCurrent
    BY DEF Init, EmissionCurrent, ViaManager
  <1>2. QED
    BY <1>1, Inductive, CurrentStep, PTL DEF Spec

-----------------------------------------------------------------------------
(* Lines stay whole.                                                       *)

Last(s) == s[Len(s)]

\* Leaders and texts alternate in s, but for a leader at the end.
Shape(s) == \A i \in 1 .. Len(s) :
  /\ s[i].part = "text" => i > 1 /\ s[i - 1] = [s[i] EXCEPT !.part = "leader"]
  /\ s[i].part = "leader" /\ i < Len(s) => s[i + 1] = [s[i] EXCEPT !.part = "text"]

\* t is between the leader and the text of a line in that sink of the hs.
Writing(t, hs, sink) == half[t] /\ target[t] \in hs /\ sinks[t][1] = sink

\* The inductive form of WholeLines(s, hs, sink): the sink ends with a leader
\* exactly when a thread has written that leader and owes the text.
Whole(s, hs, sink) ==
  /\ s \in Seq(Pieces)
  /\ Shape(s)
  /\ s # << >> /\ Last(s).part = "leader" =>
       \E t \in Threads : Writing(t, hs, sink)
  /\ \A t \in Threads : Writing(t, hs, sink) =>
       s # << >> /\ Last(s) = Piece(t, Head1(t), "leader")

\* At most one thread at a time is inside the handlers hs.
Exclusive(hs) == \A t, u \in Threads :
  pc[t] = "write" /\ pc[u] = "write" /\ target[t] \in hs /\ target[u] \in hs
    => t = u

LEMMA WholeMeans ==
  ASSUME NEW s, NEW hs, NEW sink, Whole(s, hs, sink)
  PROVE  WholeLines(s, hs, sink)
  <1>1. s \in Seq(Pieces) /\ Shape(s)
    BY DEF Whole
  <1>2. ASSUME NEW i \in 1 .. Len(s), s[i].part = "leader", ~(i < Len(s))
        PROVE  Owes(s[i], hs, sink)
    <2>1. i = Len(s) /\ s # << >>
      BY <1>1, <1>2
    <2>2. QED
      BY <1>2, <2>1 DEF Whole, Last, Writing, Owes
  <1>3. QED
    BY <1>1, <1>2 DEF Shape, WholeLines

LEMMA ShapeAppend ==
  ASSUME NEW s \in Seq(Pieces), NEW p \in Pieces, Shape(s),
         p.part = "text" =>
           s # << >> /\ Last(s) = [p EXCEPT !.part = "leader"],
         s # << >> /\ Last(s).part = "leader" =>
           p = [Last(s) EXCEPT !.part = "text"]
  PROVE  Append(s, p) \in Seq(Pieces) /\ Shape(Append(s, p))
  <1> DEFINE q == Append(s, p)
  <1>1. /\ q \in Seq(Pieces) /\ Len(q) = Len(s) + 1 /\ Len(s) \in Nat
        /\ q[Len(q)] = p
        /\ \A i \in 1 .. Len(s) : q[i] = s[i]
    OBVIOUS
  <1>2. s # << >> => Len(s) > 0
    BY EmptySeq, <1>1
  <1>3. Len(s) > 0 => s # << >>
    OBVIOUS
  <1> HIDE DEF q
  <1>4. ASSUME NEW i \in 1 .. Len(q), q[i].part = "text"
        PROVE  i > 1 /\ q[i - 1] = [q[i] EXCEPT !.part = "leader"]
    <2>1. CASE i = Len(q)
      BY <1>1, <1>2, <1>4, <2>1 DEF Last
    <2>2. CASE i \in 1 .. Len(s)
      <3>1. i > 1 /\ s[i - 1] = [s[i] EXCEPT !.part = "leader"]
        BY <1>1, <1>4, <2>2 DEF Shape
      <3>2. i - 1 \in 1 .. Len(s)
        BY <1>1, <2>2, <3>1
      <3>3. QED
        BY <1>1, <2>2, <3>1, <3>2
    <2>3. QED
      BY <1>1, <2>1, <2>2
  <1>5. ASSUME NEW i \in 1 .. Len(q), q[i].part = "leader", i < Len(q)
        PROVE  q[i + 1] = [q[i] EXCEPT !.part = "text"]
    <2>1. i \in 1 .. Len(s)
      BY <1>1, <1>5
    <2>2. CASE i = Len(s)
      BY <1>1, <1>3, <1>5, <2>1, <2>2 DEF Last
    <2>3. CASE i < Len(s)
      <3>1. s[i + 1] = [s[i] EXCEPT !.part = "text"]
        BY <1>1, <1>5, <2>1, <2>3 DEF Shape
      <3>2. i + 1 \in 1 .. Len(s)
        BY <1>1, <2>1, <2>3
      <3>3. QED
        BY <1>1, <2>1, <3>1, <3>2
    <2>4. QED
      BY <1>1, <2>1, <2>2, <2>3
  <1>6. Shape(q)
    BY <1>4, <1>5 DEF Shape
  <1>7. QED
    BY <1>1, <1>6 DEF q

LEMMA LastAppend ==
  ASSUME NEW s \in Seq(Pieces), NEW p \in Pieces
  PROVE  Append(s, p) # << >> /\ Last(Append(s, p)) = p
  <1>1. Len(Append(s, p)) = Len(s) + 1 /\ Len(s) \in Nat
    OBVIOUS
  <1>2. Append(s, p) # << >>
    BY <1>1, EmptySeq
  <1>3. QED
    BY <1>1, <1>2 DEF Last

-----------------------------------------------------------------------------
(* The three kinds of steps that matter to a sink, and the others.         *)

\* t writes the leader of its line to the sink.
LEMMA WholeLeader ==
  ASSUME IInv, NEW hs, NEW sink, NEW s, Whole(s, hs, sink), Exclusive(hs),
         NEW t \in Threads, Only(t), pc[t] = "write", ~half[t], half'[t],
         target[t] \in hs, sinks[t][1] = sink,
         UNCHANGED <<todo, target, sinks>>,
         NEW p, p = Piece(t, Head1(t), "leader")
  PROVE  Whole(Append(s, p), hs, sink)'
  <1>1. p \in Pieces /\ p.part = "leader"
    BY HeadTypes, PieceTypes DEF IInv, Piece
  <1>2. ASSUME NEW u \in Threads PROVE ~Writing(u, hs, sink)
    BY DEF IInv, CallInv, CallOK, Exclusive, Writing
  <1>3. s \in Seq(Pieces) /\ Shape(s) /\ ~(s # << >> /\ Last(s).part = "leader")
    BY <1>2 DEF Whole
  <1>4. /\ Append(s, p) \in Seq(Pieces) /\ Shape(Append(s, p))
        /\ Append(s, p) # << >> /\ Last(Append(s, p)) = p
    BY <1>1, <1>3, ShapeAppend, LastAppend
  <1>5. Writing(t, hs, sink)' /\ p = Piece(t, Head1(t)', "leader")
    BY DEF Writing, Head1
  <1>6. ASSUME NEW u \in Threads, Writing(u, hs, sink)' PROVE u = t
    BY <1>2, <1>6 DEF Writing, Only
  <1>7. QED
    BY <1>4, <1>5, <1>6 DEF Whole

\* t writes the text of its line to the sink.
LEMMA WholeText ==
  ASSUME IInv, NEW hs, NEW sink, NEW s, Whole(s, hs, sink), Exclusive(hs),
         NEW t \in Threads, Only(t), Writing(t, hs, sink), ~half'[t],
         NEW p, p = Piece(t, Head1(t), "text")
  PROVE  Whole(Append(s, p), hs, sink)'
  <1>1. pc[t] = "write" /\ Head1(t) \in Emissions
    BY HeadTypes DEF IInv, CallInv, CallOK, Writing
  <1>2. p \in Pieces /\ p.part = "text"
    BY <1>1, PieceTypes DEF Piece
  <1>3. s \in Seq(Pieces) /\ Shape(s) /\ s # << >> /\ Last(s) = Piece(t, Head1(t), "leader")
    BY DEF Whole
  <1>4. Last(s) = [p EXCEPT !.part = "leader"] /\ p = [Last(s) EXCEPT !.part = "text"]
    BY <1>3 DEF Piece
  <1>5. /\ Append(s, p) \in Seq(Pieces) /\ Shape(Append(s, p))
        /\ Append(s, p) # << >> /\ Last(Append(s, p)) = p
    BY <1>2, <1>3, <1>4, ShapeAppend, LastAppend
  <1>6. ASSUME NEW u \in Threads, Writing(u, hs, sink)' PROVE FALSE
    <2>1. u # t
      BY <1>6 DEF Writing
    <2>2. Writing(u, hs, sink)
      BY <1>6, <2>1 DEF Writing, Only
    <2>3. QED
      BY <1>1, <2>1, <2>2 DEF IInv, CallInv, CallOK, Exclusive, Writing
  <1>7. QED
    BY <1>2, <1>5, <1>6 DEF Whole

\* The file is replaced while no thread is inside the handler.
LEMMA WholeOpen ==
  ASSUME IInv, NEW hs, NEW sink, NEW s, Whole(s, hs, sink),
         \A u \in Threads : ~(pc[u] = "write" /\ target[u] \in hs),
         UNCHANGED <<todo, target, sinks, half>>,
         NEW p \in Pieces, p.part = "open"
  PROVE  Whole(Append(s, p), hs, sink)'
  <1>1. \A u \in Threads : ~Writing(u, hs, sink) /\ ~Writing(u, hs, sink)'
    BY DEF IInv, CallInv, CallOK, Writing
  <1>2. s \in Seq(Pieces) /\ Shape(s) /\ ~(s # << >> /\ Last(s).part = "leader")
    BY <1>1 DEF Whole
  <1>3. /\ Append(s, p) \in Seq(Pieces) /\ Shape(Append(s, p))
        /\ Append(s, p) # << >> /\ Last(Append(s, p)) = p
    BY <1>2, ShapeAppend, LastAppend
  <1>4. QED
    BY <1>1, <1>3 DEF Whole

\* Nothing is written to the sink, and who writes to it does not change.
LEMMA WholeSame ==
  ASSUME NEW hs, NEW sink, NEW s, Whole(s, hs, sink),
         \A u \in Threads : Writing(u, hs, sink)' <=> Writing(u, hs, sink),
         \A u \in Threads : Writing(u, hs, sink) => Head1(u)' = Head1(u)
  PROVE  Whole(s, hs, sink)'
  BY DEF Whole

\* No step but WriteLeader and WriteText starts or ends the writing of a line
\* or changes what a writing thread is working on, and only these and OpenFile
\* change a sink.
Quiet == \A u \in Threads :
  /\ half'[u] = half[u]
  /\ half[u] => target'[u] = target[u] /\ sinks'[u] = sinks[u] /\ todo'[u] = todo[u]

LEMMA StepKinds ==
  ASSUME IInv, [Next]_vars
  PROVE  \/ \E t \in Threads : InsideStep(t) /\ (WriteLeader(t) \/ WriteText(t))
         \/ \E t \in Threads, h \in HasFile : OpenFile(t, h)
         \/ UNCHANGED output_vars /\ Quiet
  <1> USE DEF emission_vars, level_vars, output_vars, buffer_vars, lock_vars
  <1>0. CallInv /\ CallVarTypes
    BY TypedCalls DEF IInv
  <1>1. ASSUME NEW t \in Threads, ApplicationCall(t),
               ~\E h \in HasFile : OpenFile(t, h)
        PROVE  UNCHANGED output_vars /\ Quiet
    BY <1>0, <1>1 DEF CallVarTypes, CallInv, CallOK, Quiet, ApplicationCall,
       PutText, PutEndOfLine, Flush, PutLiteral, LogToLevel, ManagerEmit,
       EmitLineSpecific, HandlerInstall, SetLogLevel, ReuseThreadId, StartCall,
       StartEmission
  <1>2. ASSUME NEW t \in Threads, InsideStep(t), ~WriteLeader(t), ~WriteText(t)
        PROVE  UNCHANGED output_vars /\ Quiet
    <2>1. CASE SkipEmission(t)
      BY <1>0, <2>1
      DEF CallVarTypes, CallInv, CallOK, Quiet, SkipEmission, Return
    <2>2. CASE LockManager(t)
      BY <1>0, <2>2 DEF CallVarTypes, CallInv, CallOK, Quiet, LockManager
    <2>3. CASE LockHandler(t)
      BY <1>0, <2>3 DEF CallVarTypes, CallInv, CallOK, Quiet, LockHandler
    <2>4. CASE EmissionDone(t)
      BY <1>0, <2>4 DEF CallVarTypes, CallInv, CallOK, Quiet, EmissionDone,
         Return, Unlock
    <2>5. CASE HandlerThrows(t)
      BY <1>0, <2>5
      DEF CallVarTypes, CallInv, CallOK, Quiet, HandlerThrows, Unlock
    <2>6. CASE RemoveOldHandler(t)
      BY <1>0, <2>6 DEF CallVarTypes, CallInv, CallOK, Quiet, RemoveOldHandler
    <2>7. CASE InstallNewHandler(t)
      BY <1>0, <2>7 DEF CallVarTypes, CallInv, CallOK, Quiet, InstallNewHandler
    <2>8. QED
      BY <1>2, <2>1, <2>2, <2>3, <2>4, <2>5, <2>6, <2>7 DEF InsideStep
  <1>3. ASSUME ExitStep \/ BeginExit \/ Stopped \/ UNCHANGED vars
        PROVE  UNCHANGED output_vars /\ Quiet
    BY <1>0, <1>3, LoggerAssumption
    DEF CallVarTypes, CallInv, CallOK, Quiet, ExitStep,
       BeginExit, Stopped, vars, DestroyThreadStream, DestroyStream,
       DestroyManager, StartEmission
  <1>4. QED
    BY <1>1, <1>2, <1>3 DEF Next

-----------------------------------------------------------------------------
(* The log files.                                                          *)

FilesWhole == \A h \in Handlers : Whole(file[h], {h}, "file")

\* A handler's lock admits one thread.
LEMMA FileExclusive == ASSUME IInv, NEW h \in Handlers PROVE Exclusive({h})
  BY DEF IInv, LockInv, Exclusive

LEMMA FilesStep == IInv /\ FilesWhole /\ [Next]_vars => FilesWhole'
  <1> SUFFICES ASSUME IInv, FilesWhole, [Next]_vars, NEW h \in Handlers
               PROVE  Whole(file[h], {h}, "file")'
    BY DEF FilesWhole
  <1> USE DEF emission_vars, level_vars, output_vars, buffer_vars, lock_vars
  <1>0. CallInv /\ CallVarTypes /\ file \in [Handlers -> Seq(Pieces)]
    BY TypedCalls DEF IInv, TypeOK
  <1>1. Whole(file[h], {h}, "file") /\ Exclusive({h})
    BY FileExclusive DEF FilesWhole
  <1>2. ASSUME NEW t \in Threads, WriteLeader(t)
        PROVE  Whole(file[h], {h}, "file")'
    <2>1. /\ Only(t) /\ pc[t] = "write" /\ ~half[t] /\ half'[t]
          /\ UNCHANGED <<todo, target, sinks>>
      BY <1>0, <1>2 DEF CallVarTypes, Only, WriteLeader
    <2>2. CASE target[t] = h /\ sinks[t][1] = "file"
      <3>1. file'[h] = Append(file[h], Piece(t, Head1(t), "leader"))
        BY <1>0, <1>2, <2>2 DEF WriteLeader, WritePiece
      <3>2. QED
        BY <1>1, <2>1, <2>2, <3>1, WholeLeader
    <2>3. CASE ~(target[t] = h /\ sinks[t][1] = "file")
      <3>1. file'[h] = file[h]
        BY <1>0, <1>2, <2>3 DEF WriteLeader, WritePiece
      <3>2. \A u \in Threads : /\ Writing(u, {h}, "file")' <=> Writing(u, {h}, "file")
                               /\ Head1(u)' = Head1(u)
        BY <2>1, <2>3 DEF Writing, Only, Head1
      <3>3. QED
        BY <1>1, <3>1, <3>2, WholeSame
    <2>4. QED
      BY <2>2, <2>3
  <1>3. ASSUME NEW t \in Threads, WriteText(t)
        PROVE  Whole(file[h], {h}, "file")'
    <2>1. /\ Only(t) /\ half[t] /\ ~half'[t] /\ UNCHANGED <<todo, target>>
      BY <1>0, <1>3 DEF CallVarTypes, Only, WriteText
    <2>2. CASE target[t] = h /\ sinks[t][1] = "file"
      <3>1. file'[h] = Append(file[h], Piece(t, Head1(t), "text"))
        BY <1>0, <1>3, <2>2 DEF WriteText, WritePiece
      <3>2. Writing(t, {h}, "file")
        BY <2>1, <2>2 DEF Writing
      <3>3. QED
        BY <1>1, <2>1, <3>1, <3>2, WholeText
    <2>3. CASE ~(target[t] = h /\ sinks[t][1] = "file")
      <3>1. file'[h] = file[h]
        BY <1>0, <1>3, <2>3 DEF WriteText, WritePiece
      <3>2. \A u \in Threads : /\ Writing(u, {h}, "file")' <=> Writing(u, {h}, "file")
                               /\ Head1(u)' = Head1(u)
        BY <2>1, <2>3 DEF Writing, Only, Head1
      <3>3. QED
        BY <1>1, <3>1, <3>2, WholeSame
    <2>4. QED
      BY <2>2, <2>3
  <1>4. ASSUME NEW t \in Threads, NEW g \in HasFile, OpenFile(t, g)
        PROVE  Whole(file[h], {h}, "file")'
    <2>1. g \in Handlers /\ UNCHANGED <<todo, target, sinks, half>>
      BY <1>4, LoggerAssumption DEF OpenFile
    <2>2. CASE g = h
      <3>1. \A u \in Threads : ~(pc[u] = "write" /\ target[u] \in {h})
        BY <1>4, <2>1, <2>2, LoggerAssumption
        DEF OpenFile, HandlerFree, IInv, LockInv
      <3>2. Piece(t, Fresh(NoLevel, t, "direct"), "open") \in Pieces
        BY EmissionTypes, PieceTypes DEF IInv, Sources
      <3>3. Piece(t, Fresh(NoLevel, t, "direct"), "open").part = "open"
        BY DEF Piece
      <3>4. file'[h] = Append(file[h], Piece(t, Fresh(NoLevel, t, "direct"), "open"))
        BY <1>0, <1>4, <2>2 DEF OpenFile
      <3>5. QED
        BY <1>1, <2>1, <3>1, <3>2, <3>3, <3>4, WholeOpen
    <2>3. CASE g # h
      <3>1. file'[h] = file[h]
        BY <1>0, <1>4, <2>3 DEF OpenFile
      <3>2. \A u \in Threads : /\ Writing(u, {h}, "file")' <=> Writing(u, {h}, "file")
                               /\ Head1(u)' = Head1(u)
        BY <2>1 DEF Writing, Head1
      <3>3. QED
        BY <1>1, <3>1, <3>2, WholeSame
    <2>4. QED
      BY <2>2, <2>3
  <1>5. ASSUME UNCHANGED output_vars, Quiet
        PROVE  Whole(file[h], {h}, "file")'
    <2>1. \A u \in Threads : /\ Writing(u, {h}, "file")' <=> Writing(u, {h}, "file")
                             /\ Writing(u, {h}, "file") => Head1(u)' = Head1(u)
      BY <1>5 DEF Quiet, Writing, Head1
    <2>2. QED
      BY <1>1, <1>5, <2>1, WholeSame
  <1>6. QED
    BY <1>2, <1>3, <1>4, <1>5, StepKinds

\* For any number of threads, handlers and levels: in a log file every leader
\* is followed by its own text; lines never run into each other, OpenFile
\* splits none, and a throwing handler leaves none without its text.
THEOREM FilesHaveWholeLines == Spec => []FileLinesWhole
  <1>1. Init => FilesWhole
    BY DEF Init, FilesWhole, Whole, Shape, Writing
  <1>2. FilesWhole => FileLinesWhole
    BY WholeMeans DEF FilesWhole, FileLinesWhole
  <1>3. QED
    BY <1>1, <1>2, Inductive, FilesStep, PTL DEF Spec

-----------------------------------------------------------------------------
(* The console.                                                            *)

ConsoleWhole == Whole(console, HasConsole, "console")

\* The manager's lock admits one thread, and every call of a handler that
\* writes std::cout goes through the manager.
LEMMA ConsoleExclusive ==
  ASSUME IInv, HasConsole \intersect Direct = {} PROVE Exclusive(HasConsole)
  BY DEF IInv, CallInv, CallOK, LockInv, ViaManager, Exclusive

LEMMA ConsoleStep ==
  HasConsole \intersect Direct = {} =>
    (IInv /\ ConsoleWhole /\ [Next]_vars => ConsoleWhole')
  <1> SUFFICES ASSUME HasConsole \intersect Direct = {}, IInv, ConsoleWhole, [Next]_vars
               PROVE  Whole(console, HasConsole, "console")'
    BY DEF ConsoleWhole
  <1> USE DEF emission_vars, level_vars, output_vars, buffer_vars, lock_vars
  <1>0. CallInv /\ CallVarTypes
    BY TypedCalls DEF IInv
  <1>1. Whole(console, HasConsole, "console") /\ Exclusive(HasConsole)
    BY ConsoleExclusive DEF ConsoleWhole
  <1>2. ASSUME NEW t \in Threads, WriteLeader(t) \/ WriteText(t)
        PROVE  /\ sinks[t] # << >>
               /\ sinks[t] \in Seq({"file", "console"})
               /\ sinks[t][1] # "file" =>
                    sinks[t][1] = "console" /\ target[t] \in HasConsole
    <2>1. sinks[t] # << >> /\ sinks[t] \in Seq({"file", "console"})
      BY <1>0, <1>2 DEF CallVarTypes, CallInv, CallOK, WriteLeader, WriteText
    <2>2. 1 \in 1 .. Len(sinks[t])
      BY <2>1, EmptySeq
    <2>3. QED
      BY <1>0, <2>1, <2>2 DEF CallInv, CallOK
  <1>3. ASSUME NEW t \in Threads, WriteLeader(t)
        PROVE  Whole(console, HasConsole, "console")'
    <2>1. /\ Only(t) /\ pc[t] = "write" /\ ~half[t] /\ half'[t]
          /\ UNCHANGED <<todo, target, sinks>>
      BY <1>0, <1>3 DEF CallVarTypes, Only, WriteLeader
    <2>2. CASE sinks[t][1] # "file"
      <3>1. console' = Append(console, Piece(t, Head1(t), "leader"))
        BY <1>3, <2>2 DEF WriteLeader, WritePiece
      <3>2. sinks[t][1] = "console" /\ target[t] \in HasConsole
        BY <1>2, <1>3, <2>2
      <3>3. QED
        BY <1>1, <2>1, <3>1, <3>2, WholeLeader
    <2>3. CASE sinks[t][1] = "file"
      <3>1. console' = console
        BY <1>3, <2>3 DEF WriteLeader, WritePiece
      <3>2. \A u \in Threads :
              /\ Writing(u, HasConsole, "console")' <=> Writing(u, HasConsole, "console")
              /\ Head1(u)' = Head1(u)
        BY <2>1, <2>3 DEF Writing, Only, Head1
      <3>3. QED
        BY <1>1, <3>1, <3>2, WholeSame
    <2>4. QED
      BY <2>2, <2>3
  <1>4. ASSUME NEW t \in Threads, WriteText(t)
        PROVE  Whole(console, HasConsole, "console")'
    <2>1. /\ Only(t) /\ half[t] /\ ~half'[t] /\ UNCHANGED <<todo, target>>
      BY <1>0, <1>4 DEF CallVarTypes, Only, WriteText
    <2>2. CASE sinks[t][1] # "file"
      <3>1. console' = Append(console, Piece(t, Head1(t), "text"))
        BY <1>4, <2>2 DEF WriteText, WritePiece
      <3>2. Writing(t, HasConsole, "console")
        BY <1>2, <1>4, <2>1, <2>2 DEF Writing
      <3>3. QED
        BY <1>1, <2>1, <3>1, <3>2, WholeText
    <2>3. CASE sinks[t][1] = "file"
      <3>1. console' = console
        BY <1>4, <2>3 DEF WriteText, WritePiece
      <3>2. \A u \in Threads :
              /\ Writing(u, HasConsole, "console")' <=> Writing(u, HasConsole, "console")
              /\ Head1(u)' = Head1(u)
        BY <2>1, <2>3 DEF Writing, Only, Head1
      <3>3. QED
        BY <1>1, <3>1, <3>2, WholeSame
    <2>4. QED
      BY <2>2, <2>3
  <1>5. ASSUME NEW t \in Threads, NEW g \in HasFile, OpenFile(t, g)
        PROVE  Whole(console, HasConsole, "console")'
    <2>1. UNCHANGED <<console, todo, target, sinks, half>>
      BY <1>5 DEF OpenFile
    <2>2. QED
      BY <1>1, <2>1, WholeSame DEF Writing, Head1
  <1>6. ASSUME UNCHANGED output_vars, Quiet
        PROVE  Whole(console, HasConsole, "console")'
    <2>1. \A u \in Threads :
            /\ Writing(u, HasConsole, "console")' <=> Writing(u, HasConsole, "console")
            /\ Writing(u, HasConsole, "console") => Head1(u)' = Head1(u)
      BY <1>6 DEF Quiet, Writing, Head1
    <2>2. QED
      BY <1>1, <1>6, <2>1, WholeSame
  <1>7. QED
    BY <1>3, <1>4, <1>5, <1>6, StepKinds

\* The same of std::cout, which the handlers share without a lock of its own,
\* provided no handler that writes it is called past the manager.
THEOREM ConsoleHasWholeLines == Spec => []ConsoleLinesWhole
  <1>1. CASE HasConsole \intersect Direct = {}
    <2>1. Init => ConsoleWhole
      BY DEF Init, ConsoleWhole, Whole, Shape, Writing
    <2>2. ConsoleWhole => ConsoleLinesWhole
      BY WholeMeans DEF ConsoleWhole, ConsoleLinesWhole
    <2>3. IInv /\ ConsoleWhole /\ [Next]_vars => ConsoleWhole'
      BY <1>1, ConsoleStep
    <2>4. QED
      BY <2>1, <2>2, <2>3, Inductive, PTL DEF Spec
  <1>2. CASE ~(HasConsole \intersect Direct = {})
    <2>1. ConsoleLinesWhole
      BY <1>2 DEF ConsoleLinesWhole
    <2>2. QED
      BY <2>1, PTL
  <1>3. QED
    BY <1>1, <1>2
=============================================================================
