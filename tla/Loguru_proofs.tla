----------------------------- MODULE Loguru_proofs -----------------------------
(***************************************************************************)
(* Theorems about the logging library, for any number of threads, sinks    *)
(* and calls, and any number of signals.                                   *)
(***************************************************************************)
EXTENDS Loguru, Sums_proofs, FiniteSetTheorems, SequenceTheorems, WellFoundedInduction, TLAPS

MessageType == [by : Threads, kind : Kinds, verbosity : Int]

LineType == [by : Threads, kind : Kinds, verbosity : Int, indentation : Nat]

SinkType == [verbosity : Int, indentation : Nat, lines : Seq(LineType), flushed : Nat]

SinksType ==
  /\ sinks \in Seq(SinkType) /\ sinks # << >>
  /\ \A k \in DOMAIN sinks : sinks[k].flushed <= Len(sinks[k].lines)

(* The calls that have the mutex, once each, and those that have not. *)
Holding == {"trace", "write", "flush", "open indent", "close end"}

PCs == Holding \cup {"format", "lock", "open", "close", "caught", "flush and kill", "kill"}

LibcStates == {"no", "allocator", "clock"}

FrameType == [pc : PCs, msg : MessageType, sink : Nat \ {0}, in_libc : LibcStates]

StackType == mutex \in [owner : Threads \cup {NoThread}, depth : Nat] /\ stack \in [Threads -> Seq(FrameType)]

ControlType ==
  /\ stage \in {"init", "loglevel", "files", "running"}
  /\ files \in Seq(Fatal .. 9)
  /\ max_out \in Off .. 9
  /\ scopes \in [Threads -> Seq(Int)]
  /\ dead \in {"no", "abort", "signal", "exit"}

TypeInv == ControlType /\ SinksType /\ StackType

-----------------------------------------------------------------------------
(* Stacks *)

LEMMA PushFacts ==
  ASSUME NEW F, NEW s \in Seq(F), NEW f \in F
  PROVE  /\ <<f>> \o s \in Seq(F)
         /\ Len(<<f>> \o s) = Len(s) + 1 /\ Len(s) \in Nat
         /\ (<<f>> \o s)[1] = f
         /\ \A j \in 2 .. Len(s) + 1 : (<<f>> \o s)[j] = s[j - 1]
OBVIOUS

LEMMA TwoAreOneByOne ==
  ASSUME NEW F, NEW s \in Seq(F), NEW f \in F, NEW g \in F
  PROVE  <<f, g>> \o s = <<f>> \o (<<g>> \o s)
<1> DEFINE u == <<g>> \o s
           v == <<f>> \o u
           w == <<f, g>> \o s
           n == Len(s)
<1>1. /\ u \in Seq(F) /\ Len(u) = n + 1 /\ n \in Nat
      /\ u[1] = g /\ \A j \in 2 .. n + 1 : u[j] = s[j - 1]
  BY PushFacts
<1>2. w \in Seq(F) /\ Len(w) = n + 2 /\ w[1] = f /\ w[2] = g /\ \A j \in 3 .. n + 2 : w[j] = s[j - 2]
  OBVIOUS
<1> HIDE DEF u, w, n
<1>3. /\ v \in Seq(F) /\ Len(v) = n + 2
      /\ v[1] = f /\ \A j \in 2 .. n + 2 : v[j] = u[j - 1]
  BY <1>1, PushFacts
<1> HIDE DEF v
<1>4. ASSUME NEW j \in 1 .. n + 2
      PROVE  v[j] = w[j]
  <2>1. CASE j = 1
    BY <1>2, <1>3, <2>1
  <2>2. CASE j = 2
    BY <1>1, <1>2, <1>3, <2>2
  <2>3. CASE j \in 3 .. n + 2
    <3>1. j - 1 \in 2 .. n + 1 /\ (j - 1) - 1 = j - 2 /\ j \in 2 .. n + 2
      BY <1>1, <2>3
    <3> QED
      BY <1>1, <1>2, <1>3, <2>3, <3>1
  <2> QED
    BY <1>1, <2>1, <2>2, <2>3
<1>5. v = w
  BY <1>1, <1>2, <1>3, <1>4, SeqEqual
<1> QED
  BY <1>5 DEF v, w, u

LEMMA TailFacts ==
  ASSUME NEW F, NEW s \in Seq(F), s # << >>
  PROVE  /\ Tail(s) \in Seq(F)
         /\ Len(Tail(s)) = Len(s) - 1 /\ Len(s) \in Nat \ {0}
         /\ \A j \in 1 .. Len(s) - 1 : Tail(s)[j] = s[j + 1]
OBVIOUS

LEMMA CallFacts ==
  ASSUME NEW F, NEW s \in Seq(F), s # << >>, NEW f \in F, NEW g \in F
  PROVE  /\ <<f, g>> \o Tail(s) \in Seq(F)
         /\ Len(<<f, g>> \o Tail(s)) = Len(s) + 1 /\ Len(s) \in Nat \ {0}
         /\ (<<f, g>> \o Tail(s))[1] = f /\ (<<f, g>> \o Tail(s))[2] = g
         /\ \A j \in 3 .. Len(s) + 1 : (<<f, g>> \o Tail(s))[j] = s[j - 1]
OBVIOUS

LEMMA TopFacts ==
  ASSUME NEW F, NEW s \in Seq(F), s # << >>, NEW g \in F
  PROVE  /\ [s EXCEPT ![1] = g] \in Seq(F)
         /\ Len([s EXCEPT ![1] = g]) = Len(s) /\ Len(s) \in Nat \ {0}
         /\ [s EXCEPT ![1] = g][1] = g
         /\ \A j \in 2 .. Len(s) : [s EXCEPT ![1] = g][j] = s[j]
OBVIOUS

(* Which calls have the mutex, counted from the outermost. *)
HeldBy(s) == {j \in 1 .. Len(s) : s[Len(s) + 1 - j].pc \in Holding}

LEMMA HeldFinite ==
  ASSUME NEW s \in Seq(FrameType)
  PROVE  IsFiniteSet(HeldBy(s)) /\ Cardinality(HeldBy(s)) \in Nat
<1>1. IsFiniteSet(1 .. Len(s))
  BY FS_Interval
<1>2. IsFiniteSet(HeldBy(s))
  BY <1>1, FS_Subset DEF HeldBy
<1> QED
  BY <1>2, FS_CardinalityType

LEMMA HeldPush ==
  ASSUME NEW s \in Seq(FrameType), NEW f \in FrameType
  PROVE  HeldBy(<<f>> \o s) = HeldBy(s) \cup (IF f.pc \in Holding THEN {Len(s) + 1} ELSE {})
<1> DEFINE u == <<f>> \o s
           n == Len(s)
<1>1. /\ Len(u) = n + 1 /\ n \in Nat /\ u[1] = f
      /\ \A j \in 2 .. n + 1 : u[j] = s[j - 1]
  BY PushFacts
<1> HIDE DEF u
<1>2. \A j \in 1 .. n : u[n + 2 - j] = s[n + 1 - j]
  <2> SUFFICES ASSUME NEW j \in 1 .. n
               PROVE  u[n + 2 - j] = s[n + 1 - j]
    OBVIOUS
  <2>1. n + 2 - j \in 2 .. n + 1 /\ (n + 2 - j) - 1 = n + 1 - j
    BY <1>1
  <2> QED
    BY <1>1, <2>1
<1>3. u[n + 2 - (n + 1)] = f
  BY <1>1
<1>4. HeldBy(u) = {j \in 1 .. n + 1 : u[n + 2 - j].pc \in Holding}
  BY <1>1 DEF HeldBy
<1>5. 1 .. n + 1 = 1 .. n \cup {n + 1}
  BY <1>1
<1>6. HeldBy(s) = {j \in 1 .. n : s[n + 1 - j].pc \in Holding}
  BY DEF HeldBy
<1> HIDE DEF n
<1>7. HeldBy(u) = HeldBy(s) \cup (IF f.pc \in Holding THEN {n + 1} ELSE {})
  BY <1>2, <1>3, <1>4, <1>5, <1>6
<1> QED
  BY <1>7 DEF u, n

LEMMA TopNotCounted ==
  ASSUME NEW s \in Seq(FrameType), s # << >>
  PROVE  /\ Len(s) \notin HeldBy(Tail(s))
         /\ HeldBy(s) = HeldBy(Tail(s)) \cup (IF Head(s).pc \in Holding THEN {Len(s)} ELSE {})
<1>1. /\ Tail(s) \in Seq(FrameType) /\ Len(Tail(s)) = Len(s) - 1 /\ Len(s) \in Nat \ {0}
      /\ Head(s) \in FrameType
  OBVIOUS
<1>2. s = <<Head(s)>> \o Tail(s)
  OBVIOUS
<1>3. HeldBy(<<Head(s)>> \o Tail(s))
        = HeldBy(Tail(s)) \cup (IF Head(s).pc \in Holding THEN {Len(Tail(s)) + 1} ELSE {})
  BY <1>1, HeldPush
<1>4. Len(s) \notin HeldBy(Tail(s))
  BY <1>1 DEF HeldBy
<1>5. HeldBy(s) = HeldBy(<<Head(s)>> \o Tail(s))
  BY <1>2, Zenon
<1>6. Len(Tail(s)) + 1 = Len(s)
  BY <1>1
<1> QED
  BY <1>3, <1>4, <1>5, <1>6, Zenon

LEMMA HeldTop ==
  ASSUME NEW s \in Seq(FrameType), s # << >>, NEW g \in FrameType
  PROVE  HeldBy([s EXCEPT ![1] = g]) = HeldBy(Tail(s)) \cup (IF g.pc \in Holding THEN {Len(s)} ELSE {})
<1>1. Tail(s) \in Seq(FrameType) /\ Len(Tail(s)) + 1 = Len(s)
  OBVIOUS
<1>2. [s EXCEPT ![1] = g] = <<g>> \o Tail(s)
  OBVIOUS
<1> QED
  BY <1>1, <1>2, HeldPush

LEMMA HeldCall ==
  ASSUME NEW s \in Seq(FrameType), s # << >>, NEW f \in FrameType, NEW g \in FrameType,
         f.pc \notin Holding
  PROVE  HeldBy(<<f, g>> \o Tail(s)) = HeldBy(Tail(s)) \cup (IF g.pc \in Holding THEN {Len(s)} ELSE {})
<1>1. Tail(s) \in Seq(FrameType) /\ Len(Tail(s)) + 1 = Len(s)
  OBVIOUS
<1>2. <<g>> \o Tail(s) \in Seq(FrameType)
  BY <1>1
<1>5. <<f, g>> \o Tail(s) = <<f>> \o (<<g>> \o Tail(s))
  BY <1>1, TwoAreOneByOne
<1>3. HeldBy(<<f, g>> \o Tail(s)) = HeldBy(<<g>> \o Tail(s))
  BY <1>2, <1>5, HeldPush
<1> QED
  BY <1>1, <1>3, HeldPush

-----------------------------------------------------------------------------
(* The mutex belongs to the one thread that has calls with the mutex, as   *)
(* often as there are such calls.                                          *)
MutexInv ==
  /\ mutex.owner = NoThread <=> mutex.depth = 0
  /\ \A t \in Threads :
       IF t = mutex.owner THEN mutex.depth = Cardinality(HeldBy(stack[t])) ELSE HeldBy(stack[t]) = {}

LEMMA KeepMutex ==
  ASSUME StackType, MutexInv, NEW t \in Threads, NEW u \in Seq(FrameType),
         stack' = [stack EXCEPT ![t] = u], UNCHANGED mutex, HeldBy(u) = HeldBy(stack[t])
  PROVE  StackType' /\ MutexInv'
<1>1. stack'[t] = u /\ \A o \in Threads \ {t} : stack'[o] = stack[o]
  BY DEF StackType
<1>2. \A o \in Threads : HeldBy(stack'[o]) = HeldBy(stack[o])
  BY <1>1
<1>3. StackType'
  BY DEF StackType
<1> QED
  BY <1>2, <1>3 DEF MutexInv

LEMMA TakeMutex ==
  ASSUME StackType, MutexInv, NEW t \in Threads, NEW u \in Seq(FrameType), NEW n,
         stack' = [stack EXCEPT ![t] = u], Lock(t),
         n \notin HeldBy(stack[t]), HeldBy(u) = HeldBy(stack[t]) \cup {n}
  PROVE  StackType' /\ MutexInv'
<1>1. stack'[t] = u /\ \A o \in Threads \ {t} : stack'[o] = stack[o]
  BY DEF StackType
<1>2. /\ mutex.owner \in {t, NoThread}
      /\ mutex' = [owner |-> t, depth |-> mutex.depth + 1]
      /\ mutex'.owner = t /\ mutex'.depth = mutex.depth + 1 /\ mutex.depth \in Nat
  BY DEF Lock, StackType
<1>3. t # NoThread
  BY LoguruAssumption
<1>4. mutex.depth = Cardinality(HeldBy(stack[t]))
  <2>1. CASE mutex.owner = t
    BY <2>1 DEF MutexInv
  <2>2. CASE mutex.owner = NoThread
    <3>1. HeldBy(stack[t]) = {} /\ mutex.depth = 0
      BY <1>3, <2>2 DEF MutexInv
    <3> QED
      BY <3>1, FS_EmptySet
  <2> QED
    BY <1>2, <2>1, <2>2
<1>5. IsFiniteSet(HeldBy(stack[t])) /\ stack[t] \in Seq(FrameType)
  BY HeldFinite DEF StackType
<1>6. Cardinality(HeldBy(u)) = mutex.depth + 1
  BY <1>4, <1>5, FS_AddElement
<1>7. \A o \in Threads \ {t} : HeldBy(stack'[o]) = {}
  BY <1>1, <1>2, LoguruAssumption DEF MutexInv
<1>8. StackType'
  BY <1>2 DEF StackType
<1>9. mutex'.owner # NoThread /\ mutex'.depth # 0
  BY <1>2, <1>3
<1>10. ASSUME NEW o \in Threads
       PROVE  IF o = mutex'.owner THEN mutex'.depth = Cardinality(HeldBy(stack'[o])) ELSE HeldBy(stack'[o]) = {}
  BY <1>1, <1>2, <1>6, <1>7
<1> QED
  BY <1>8, <1>9, <1>10 DEF MutexInv

LEMMA FreeMutex ==
  ASSUME StackType, MutexInv, NEW t \in Threads, NEW u \in Seq(FrameType), NEW n,
         stack' = [stack EXCEPT ![t] = u], Unlock,
         n \notin HeldBy(u), HeldBy(stack[t]) = HeldBy(u) \cup {n}
  PROVE  StackType' /\ MutexInv'
<1>1. stack'[t] = u /\ \A o \in Threads \ {t} : stack'[o] = stack[o]
  BY DEF StackType
<1>2. mutex.owner = t /\ mutex.depth = Cardinality(HeldBy(stack[t])) /\ t # NoThread
  BY LoguruAssumption DEF MutexInv
<1>3. IsFiniteSet(HeldBy(u)) /\ Cardinality(HeldBy(u)) \in Nat
  BY HeldFinite
<1>4. mutex.depth = Cardinality(HeldBy(u)) + 1
  BY <1>2, <1>3, FS_AddElement
<1>5. mutex'.owner = (IF mutex.depth = 1 THEN NoThread ELSE t) /\ mutex'.depth = Cardinality(HeldBy(u))
  BY <1>2, <1>3, <1>4 DEF Unlock
<1>6. mutex' \in [owner : Threads \cup {NoThread}, depth : Nat]
  BY <1>2, <1>3, <1>4 DEF Unlock
<1>7. \A o \in Threads \ {t} : HeldBy(stack'[o]) = {}
  BY <1>1, <1>2 DEF MutexInv
<1>8. mutex.depth = 1 => HeldBy(u) = {}
  BY <1>3, <1>4, FS_EmptySet
<1>9. StackType'
  BY <1>6 DEF StackType
<1>10. mutex'.owner = NoThread <=> mutex'.depth = 0
  BY <1>2, <1>3, <1>4, <1>5
<1>11. ASSUME NEW o \in Threads
       PROVE  IF o = mutex'.owner THEN mutex'.depth = Cardinality(HeldBy(stack'[o])) ELSE HeldBy(stack'[o]) = {}
  <2>1. CASE o # t
    BY <1>2, <1>5, <1>7, <2>1, LoguruAssumption
  <2>2. CASE o = t /\ mutex.depth = 1
    BY <1>1, <1>2, <1>5, <1>8, <2>2
  <2>3. CASE o = t /\ mutex.depth # 1
    BY <1>1, <1>5, <2>3
  <2> QED
    BY <2>1, <2>2, <2>3
<1> QED
  BY <1>9, <1>10, <1>11 DEF MutexInv

-----------------------------------------------------------------------------
(* What a call does to its thread's stack and the mutex *)

LEMMA TopIsFrame ==
  ASSUME StackType, NEW t \in Threads, stack[t] # << >>
  PROVE  Top(t) \in FrameType /\ stack[t] \in Seq(FrameType) /\ Top(t) = stack[t][1] /\ Tail(stack[t]) \in Seq(FrameType)
BY DEF StackType, Top

LEMMA PushKeeps ==
  ASSUME StackType, MutexInv, NEW t \in Threads, NEW f \in FrameType, f.pc \notin Holding,
         Push(t, f), UNCHANGED mutex
  PROVE  StackType' /\ MutexInv'
<1> DEFINE u == <<f>> \o stack[t]
<1>1. stack[t] \in Seq(FrameType)
  BY DEF StackType
<1>2. u \in Seq(FrameType) /\ HeldBy(u) = HeldBy(stack[t])
  BY <1>1, PushFacts, HeldPush
<1>3. stack' = [stack EXCEPT ![t] = u]
  BY DEF Push
<1> HIDE DEF u
<1> QED
  BY <1>2, <1>3, KeepMutex

(* The frame on top is g afterwards. *)
Turns(t, g) == stack' = [stack EXCEPT ![t] = [stack[t] EXCEPT ![1] = g]]

LEMMA TurnKeeps ==
  ASSUME StackType, MutexInv, NEW t \in Threads, stack[t] # << >>, NEW g \in FrameType,
         g.pc \in Holding <=> Top(t).pc \in Holding, Turns(t, g), UNCHANGED mutex
  PROVE  StackType' /\ MutexInv'
<1> DEFINE u == [stack[t] EXCEPT ![1] = g]
<1>1. stack[t] \in Seq(FrameType)
  BY DEF StackType
<1>2. u \in Seq(FrameType) /\ HeldBy(u) = HeldBy(stack[t])
  BY <1>1, TopFacts, HeldTop, TopNotCounted DEF Top
<1>3. stack' = [stack EXCEPT ![t] = u]
  BY DEF Turns
<1> HIDE DEF u
<1> QED
  BY <1>2, <1>3, KeepMutex

LEMMA TurnLocks ==
  ASSUME StackType, MutexInv, NEW t \in Threads, stack[t] # << >>, NEW g \in FrameType,
         g.pc \in Holding, Top(t).pc \notin Holding, Turns(t, g), Lock(t)
  PROVE  StackType' /\ MutexInv'
<1> DEFINE u == [stack[t] EXCEPT ![1] = g]
           n == Len(stack[t])
<1>1. stack[t] \in Seq(FrameType)
  BY DEF StackType
<1>5. n \notin HeldBy(Tail(stack[t]))
  BY <1>1, TopNotCounted
<1>6. HeldBy(stack[t]) = HeldBy(Tail(stack[t])) \cup (IF Top(t).pc \in Holding THEN {n} ELSE {})
  BY <1>1, TopNotCounted DEF Top
<1>2. n \notin HeldBy(stack[t]) /\ HeldBy(stack[t]) = HeldBy(Tail(stack[t]))
  BY <1>5, <1>6
<1>3. u \in Seq(FrameType) /\ HeldBy(u) = HeldBy(stack[t]) \cup {n}
  BY <1>1, <1>2, TopFacts, HeldTop
<1>4. stack' = [stack EXCEPT ![t] = u]
  BY DEF Turns
<1> HIDE DEF u, n
<1> QED
  BY <1>2, <1>3, <1>4, TakeMutex

(* The frame on top is g afterwards and has called f. *)
Invokes(t, f, g) == stack' = [stack EXCEPT ![t] = <<f, g>> \o Tail(stack[t])]

LEMMA InvokeKeeps ==
  ASSUME StackType, MutexInv, NEW t \in Threads, stack[t] # << >>, NEW f \in FrameType, NEW g \in FrameType,
         f.pc \notin Holding, g.pc \in Holding <=> Top(t).pc \in Holding,
         Invokes(t, f, g), UNCHANGED mutex
  PROVE  StackType' /\ MutexInv'
<1> DEFINE u == <<f, g>> \o Tail(stack[t])
<1>1. stack[t] \in Seq(FrameType)
  BY DEF StackType
<1>4. u \in Seq(FrameType)
  BY <1>1, CallFacts
<1>5. HeldBy(u) = HeldBy(Tail(stack[t])) \cup (IF g.pc \in Holding THEN {Len(stack[t])} ELSE {})
  BY <1>1, HeldCall
<1>6. HeldBy(stack[t]) = HeldBy(Tail(stack[t])) \cup (IF Top(t).pc \in Holding THEN {Len(stack[t])} ELSE {})
  BY <1>1, TopNotCounted DEF Top
<1>2. u \in Seq(FrameType) /\ HeldBy(u) = HeldBy(stack[t])
  BY <1>4, <1>5, <1>6, Zenon
<1>3. stack' = [stack EXCEPT ![t] = u]
  BY DEF Invokes
<1> HIDE DEF u
<1> QED
  BY <1>2, <1>3, KeepMutex

LEMMA InvokeLocks ==
  ASSUME StackType, MutexInv, NEW t \in Threads, stack[t] # << >>, NEW f \in FrameType, NEW g \in FrameType,
         f.pc \notin Holding, g.pc \in Holding, Top(t).pc \notin Holding, Invokes(t, f, g), Lock(t)
  PROVE  StackType' /\ MutexInv'
<1> DEFINE u == <<f, g>> \o Tail(stack[t])
           n == Len(stack[t])
<1>1. stack[t] \in Seq(FrameType)
  BY DEF StackType
<1>5. n \notin HeldBy(Tail(stack[t]))
  BY <1>1, TopNotCounted
<1>6. HeldBy(stack[t]) = HeldBy(Tail(stack[t])) \cup (IF Top(t).pc \in Holding THEN {n} ELSE {})
  BY <1>1, TopNotCounted DEF Top
<1>2. n \notin HeldBy(stack[t]) /\ HeldBy(stack[t]) = HeldBy(Tail(stack[t]))
  BY <1>5, <1>6
<1>3. u \in Seq(FrameType) /\ HeldBy(u) = HeldBy(stack[t]) \cup {n}
  BY <1>1, <1>2, CallFacts, HeldCall
<1>4. stack' = [stack EXCEPT ![t] = u]
  BY DEF Invokes
<1> HIDE DEF u, n
<1> QED
  BY <1>2, <1>3, <1>4, TakeMutex

LEMMA ReturnUnlocks ==
  ASSUME StackType, MutexInv, NEW t \in Threads, stack[t] # << >>,
         Top(t).pc \in Holding, Return(t), Unlock
  PROVE  StackType' /\ MutexInv'
<1> DEFINE u == Tail(stack[t])
           n == Len(stack[t])
<1>1. stack[t] \in Seq(FrameType)
  BY DEF StackType
<1>4. n \notin HeldBy(u) /\ u \in Seq(FrameType)
  BY <1>1, TopNotCounted, TailFacts
<1>5. HeldBy(stack[t]) = HeldBy(u) \cup (IF Top(t).pc \in Holding THEN {n} ELSE {})
  BY <1>1, TopNotCounted DEF Top
<1>2. n \notin HeldBy(u) /\ HeldBy(stack[t]) = HeldBy(u) \cup {n} /\ u \in Seq(FrameType)
  BY <1>4, <1>5
<1>3. stack' = [stack EXCEPT ![t] = u]
  BY DEF Return
<1> HIDE DEF u, n
<1> QED
  BY <1>2, <1>3, FreeMutex

-----------------------------------------------------------------------------
(* Sinks *)

LEMMA Least ==
  ASSUME NEW T, T \subseteq Nat, T # {}
  PROVE  \E i \in T : \A j \in T : i <= j
<1>1. PICK i \in T : \A j \in T : ~ (<<j, i>> \in OpToRel(<, Nat))
  BY NatLessThanWellFounded, WFMin
<1>2. \A j \in T : ~ (j < i)
  BY <1>1 DEF OpToRel
<1> QED
  BY <1>2

(* The sinks between the one of the frame and the next one do not accept   *)
(* its message.                                                            *)
LEMMA NextSinkFacts ==
  ASSUME SinksType, NEW f \in FrameType
  PROVE  /\ NextSink(f) \in Nat \ {0}
         /\ NextSink(f) <= Len(sinks) =>
              NextSink(f) \in DOMAIN sinks /\ NextSink(f) >= f.sink /\ Accepts(sinks[NextSink(f)], f.msg)
         /\ \A i \in DOMAIN sinks : i >= f.sink /\ i < NextSink(f) => ~ Accepts(sinks[i], f.msg)
<1> DEFINE rest == {i \in DOMAIN sinks : i >= f.sink /\ Accepts(sinks[i], f.msg)}
<1>1. DOMAIN sinks = 1 .. Len(sinks) /\ Len(sinks) \in Nat
  BY DEF SinksType
<1>2. NextSink(f) = IF rest = {} THEN Len(sinks) + 1 ELSE CHOOSE i \in rest : \A j \in rest : i <= j
  BY DEF NextSink
<1>3. CASE rest = {}
  BY <1>1, <1>2, <1>3
<1>4. CASE rest # {}
  <2>1. rest \subseteq Nat
    BY <1>1
  <2>2. \E i \in rest : \A j \in rest : i <= j
    BY <1>4, <2>1, Least
  <2>3. NextSink(f) \in rest /\ \A j \in rest : NextSink(f) <= j
    BY <1>2, <1>4, <2>2
  <2> QED
    BY <1>1, <2>3
<1> QED
  BY <1>3, <1>4

LEMMA LineIsLine ==
  ASSUME NEW s \in SinkType, NEW m \in MessageType
  PROVE  Line(s, m) \in LineType
<1>1. Indentation(s.indentation) \in Nat
  BY DEF Indentation, SinkType
<1> QED
  BY <1>1 DEF Line, LineType, MessageType

LEMMA EachSinkType ==
  ASSUME SinksType, DOMAIN sinks' = DOMAIN sinks, sinks' = [i \in DOMAIN sinks |-> sinks'[i]],
         \A i \in DOMAIN sinks : sinks'[i] \in SinkType /\ sinks'[i].flushed <= Len(sinks'[i].lines)
  PROVE  SinksType'
<1>1. DOMAIN sinks = 1 .. Len(sinks) /\ Len(sinks) \in Nat /\ Len(sinks) # 0
  BY DEF SinksType
<1>2. sinks' \in Seq(SinkType) /\ Len(sinks') = Len(sinks)
  <2>1. sinks' \in [1 .. Len(sinks) -> SinkType]
    BY <1>1
  <2> QED
    BY <1>1, <2>1
<1> QED
  BY <1>1, <1>2 DEF SinksType

LEMMA OneSinkType ==
  ASSUME SinksType, NEW k, NEW s \in SinkType, s.flushed <= Len(s.lines),
         sinks' = [sinks EXCEPT ![k] = s]
  PROVE  /\ SinksType' /\ DOMAIN sinks' = DOMAIN sinks
         /\ \A i \in DOMAIN sinks : sinks'[i] = IF i = k THEN s ELSE sinks[i]
<1>1. sinks \in Seq(SinkType)
  BY DEF SinksType
<1>2. DOMAIN sinks' = DOMAIN sinks
  BY Zenon
<1>3. \A i \in DOMAIN sinks : sinks'[i] = IF i = k THEN s ELSE sinks[i]
  BY <1>1
<1>4. sinks' = [i \in DOMAIN sinks |-> sinks'[i]]
  BY <1>2
<1>5. \A i \in DOMAIN sinks : sinks'[i] \in SinkType /\ sinks'[i].flushed <= Len(sinks'[i].lines)
  BY <1>3 DEF SinksType
<1> QED
  BY <1>2, <1>3, <1>4, <1>5, EachSinkType

LEMMA FlushedFacts ==
  ASSUME NEW s \in SinkType
  PROVE  /\ Flushed(s) \in SinkType /\ Flushed(s).flushed = Len(s.lines)
         /\ Flushed(s).lines = s.lines /\ Flushed(s).verbosity = s.verbosity
         /\ Flushed(s).indentation = s.indentation
BY DEF Flushed, SinkType

LEMMA FlushAllType ==
  ASSUME SinksType, FlushAll
  PROVE  SinksType'
<1>1. DOMAIN sinks' = DOMAIN sinks /\ \A i \in DOMAIN sinks : sinks'[i] = Flushed(sinks[i])
  BY DEF FlushAll
<1>2. \A i \in DOMAIN sinks : sinks[i] \in SinkType
  BY DEF SinksType
<1>3. \A i \in DOMAIN sinks : sinks'[i] \in SinkType /\ sinks'[i].flushed <= Len(sinks'[i].lines)
  <2> SUFFICES ASSUME NEW i \in DOMAIN sinks
               PROVE  sinks'[i] \in SinkType /\ sinks'[i].flushed <= Len(sinks'[i].lines)
    OBVIOUS
  <2>1. sinks[i].lines \in Seq(LineType)
    BY <1>2 DEF SinkType
  <2> QED
    BY <1>1, <1>2, <2>1, FlushedFacts
<1>4. sinks' = [i \in DOMAIN sinks |-> sinks'[i]]
  BY <1>1 DEF FlushAll
<1> QED
  BY <1>1, <1>3, <1>4, EachSinkType

LEMMA IndentType ==
  ASSUME SinksType, NEW m \in MessageType, NEW d \in {-1, 1}, Indent(m, d)
  PROVE  SinksType'
<1>1. DOMAIN sinks' = DOMAIN sinks
  BY DEF Indent
<1>2. \A i \in DOMAIN sinks : sinks'[i] \in SinkType /\ sinks'[i].flushed <= Len(sinks'[i].lines)
  <2> SUFFICES ASSUME NEW i \in DOMAIN sinks
               PROVE  sinks'[i] \in SinkType /\ sinks'[i].flushed <= Len(sinks'[i].lines)
    OBVIOUS
  <2>1. sinks[i] \in SinkType /\ sinks[i].flushed <= Len(sinks[i].lines)
    BY DEF SinksType
  <2>2. sinks'[i] = IF Accepts(sinks[i], m) /\ sinks[i].indentation + d >= 0
                    THEN [sinks[i] EXCEPT !.indentation = sinks[i].indentation + d] ELSE sinks[i]
    BY DEF Indent
  <2>3. CASE Accepts(sinks[i], m) /\ sinks[i].indentation + d >= 0
    <3>1. sinks'[i] = [sinks[i] EXCEPT !.indentation = sinks[i].indentation + d]
      BY <2>2, <2>3
    <3>2. sinks[i].indentation + d \in Nat
      BY <2>1, <2>3 DEF SinkType
    <3> QED
      BY <2>1, <3>1, <3>2 DEF SinkType
  <2>4. CASE ~ (Accepts(sinks[i], m) /\ sinks[i].indentation + d >= 0)
    BY <2>1, <2>2, <2>4
  <2> QED
    BY <2>3, <2>4
<1>3. sinks' = [i \in DOMAIN sinks |-> sinks'[i]]
  BY <1>1 DEF Indent
<1> QED
  BY <1>1, <1>2, <1>3, EachSinkType

-----------------------------------------------------------------------------
(* The actions in those terms *)

LEMMA GotoTurns ==
  ASSUME StackType, NEW t \in Threads, stack[t] # << >>, NEW p \in PCs, Goto(t, p)
  PROVE  [Top(t) EXCEPT !.pc = p] \in FrameType /\ Turns(t, [Top(t) EXCEPT !.pc = p])
<1>1. Top(t) \in FrameType /\ stack[t] \in Seq(FrameType) /\ Top(t) = stack[t][1]
  BY TopIsFrame
<1>2. [Top(t) EXCEPT !.pc = p] \in FrameType
  BY <1>1 DEF FrameType
<1>3. stack' = [stack EXCEPT ![t] = [stack[t] EXCEPT ![1] = [stack[t][1] EXCEPT !.pc = p]]]
  BY DEF Goto
<1> QED
  BY <1>1, <1>2, <1>3 DEF Turns

(* The frame on top goes on at p with sink n. *)
LEMMA GoingTurns ==
  ASSUME StackType, NEW t \in Threads, stack[t] # << >>, NEW p \in PCs, NEW n \in Nat \ {0},
         stack' = [stack EXCEPT ![t][1].pc = p, ![t][1].sink = n]
  PROVE  /\ [Top(t) EXCEPT !.pc = p, !.sink = n] \in FrameType
         /\ Turns(t, [Top(t) EXCEPT !.pc = p, !.sink = n])
<1>1. Top(t) \in FrameType /\ stack[t] \in Seq(FrameType) /\ Top(t) = stack[t][1]
  BY TopIsFrame
<1>2. [Top(t) EXCEPT !.pc = p, !.sink = n] \in FrameType
  BY <1>1 DEF FrameType
<1> DEFINE mid == [stack EXCEPT ![t][1].pc = p]
           f   == [stack[t][1] EXCEPT !.pc = p]
<1>3. mid \in [Threads -> Seq(FrameType)] /\ mid[t] = [stack[t] EXCEPT ![1] = f]
      /\ \A o \in Threads \ {t} : mid[o] = stack[o]
  <2>1. f \in FrameType
    BY <1>1 DEF FrameType
  <2>2. mid = [stack EXCEPT ![t] = [stack[t] EXCEPT ![1] = f]]
    OBVIOUS
  <2>3. [stack[t] EXCEPT ![1] = f] \in Seq(FrameType)
    BY <1>1, <2>1, TopFacts
  <2> HIDE DEF f, mid
  <2> QED
    BY <2>2, <2>3 DEF StackType
<1>4. mid[t][1] = f
  BY <1>1, <1>3
<1>5. stack' = [mid EXCEPT ![t] = [mid[t] EXCEPT ![1] = [mid[t][1] EXCEPT !.sink = n]]]
  OBVIOUS
<1>6. [f EXCEPT !.sink = n] = [Top(t) EXCEPT !.pc = p, !.sink = n]
  BY <1>1
<1> DEFINE g == [Top(t) EXCEPT !.pc = p, !.sink = n]
<1>7. [mid[t] EXCEPT ![1] = g] = [stack[t] EXCEPT ![1] = g]
  BY <1>1, <1>3
<1>8. stack' = [mid EXCEPT ![t] = [stack[t] EXCEPT ![1] = g]]
  BY <1>4, <1>5, <1>6, <1>7
<1> HIDE DEF mid, g
<1>9. stack' = [stack EXCEPT ![t] = [stack[t] EXCEPT ![1] = g]]
  BY <1>3, <1>8 DEF StackType
<1> QED
  BY <1>2, <1>9 DEF Turns, g

LEMMA CallThenInvokes ==
  ASSUME StackType, NEW t \in Threads, stack[t] # << >>, NEW p \in PCs, NEW f, CallThen(t, f, p)
  PROVE  [Top(t) EXCEPT !.pc = p] \in FrameType /\ Invokes(t, f, [Top(t) EXCEPT !.pc = p])
<1>1. Top(t) \in FrameType
  BY TopIsFrame
<1>2. [Top(t) EXCEPT !.pc = p] \in FrameType
  BY <1>1 DEF FrameType
<1> QED
  BY <1>2 DEF CallThen, Invokes, Top

LEMMA FrameIsFrame ==
  ASSUME NEW p \in PCs, NEW m \in MessageType
  PROVE  /\ Frame(p, m) \in FrameType
         /\ Frame(p, m).pc = p /\ Frame(p, m).msg = m /\ Frame(p, m).sink = 1
BY DEF Frame, FrameType, LibcStates

LEMMA MessageIsMessage ==
  ASSUME NEW t \in Threads, NEW k \in Kinds, NEW v \in Int
  PROVE  /\ Message(t, k, v) \in MessageType
         /\ Message(t, k, v).by = t /\ Message(t, k, v).kind = k /\ Message(t, k, v).verbosity = v
BY DEF Message, MessageType

-----------------------------------------------------------------------------
(* Types and the mutex, for each action *)

LEMMA SignalPushes ==
  ASSUME NEW t \in Threads, Signal(t)
  PROVE  \E b \in LibcStates : Push(t, [Frame("caught", Message(t, "signal", Fatal)) EXCEPT !.in_libc = b])
BY DEF Signal, LibcLocks, LibcStates


LEMMA AtTop ==
  ASSUME TypeInv, NEW t \in Threads, NEW p, At(t, p)
  PROVE  /\ dead = "no" /\ stack[t] # << >> /\ Top(t).pc = p
         /\ Top(t) \in FrameType /\ Top(t).msg \in MessageType /\ Top(t).sink \in Nat \ {0}
         /\ Top(t).msg.kind \in Kinds /\ Top(t).msg.verbosity \in Int
<1>1. dead = "no" /\ stack[t] # << >> /\ Top(t).pc = p
  BY DEF At, Top
<1>2. Top(t) \in FrameType
  BY <1>1, TopIsFrame DEF TypeInv
<1> QED
  BY <1>1, <1>2 DEF FrameType, MessageType

LEMMA FormatType ==
  ASSUME TypeInv, MutexInv, NEW t \in Threads, Format(t)
  PROVE  TypeInv' /\ MutexInv'
<1>1. /\ stack[t] # << >> /\ Top(t).pc = "format" /\ Goto(t, "lock") /\ UNCHANGED mutex
  BY AtTop DEF Format
<1>2. "lock" \in PCs /\ StackType
  BY DEF PCs, TypeInv
<1>3. [Top(t) EXCEPT !.pc = "lock"].pc = "lock"
  BY <1>1, <1>2, TopIsFrame DEF FrameType
<1>4. StackType' /\ MutexInv'
  BY <1>1, <1>2, <1>3, GotoTurns, TurnKeeps DEF Holding
<1> QED
  BY <1>4 DEF Format, TypeInv, ControlType, SinksType, output, thread

LEMMA LockMessageType ==
  ASSUME TypeInv, MutexInv, NEW t \in Threads, LockMessage(t)
  PROVE  TypeInv' /\ MutexInv'
<1> DEFINE p == IF Top(t).msg.verbosity = Fatal THEN "trace" ELSE "write"
<1>1. stack[t] # << >> /\ Top(t).pc = "lock" /\ Goto(t, p) /\ Lock(t) /\ StackType
  BY AtTop DEF LockMessage, TypeInv
<1>2. p \in PCs /\ p \in Holding
  BY DEF PCs, Holding
<1> HIDE DEF p
<1>3. [Top(t) EXCEPT !.pc = p].pc = p
  BY <1>1, <1>2, TopIsFrame DEF FrameType
<1>4. "lock" \notin Holding
  BY DEF Holding
<1>5. StackType' /\ MutexInv'
  BY <1>1, <1>2, <1>3, <1>4, GotoTurns, TurnLocks
<1> QED
  BY <1>5 DEF LockMessage, TypeInv, ControlType, SinksType, output, thread

LEMMA RawLogFacts ==
  ASSUME NEW t \in Threads
  PROVE  /\ RawLog(t) \in FrameType /\ RawLog(t).pc = "lock" /\ RawLog(t).sink = 1
         /\ RawLog(t).msg = Message(t, "trace", Error)
         /\ RawLog(t).msg.kind = "trace" /\ RawLog(t).msg.verbosity = Error /\ RawLog(t).msg.by = t
<1>1. "trace" \in Kinds /\ "lock" \in PCs /\ Error \in Int
  BY DEF Kinds, PCs, Error
<1> QED
  BY <1>1, FrameIsFrame, MessageIsMessage DEF RawLog

LEMMA TraceType ==
  ASSUME TypeInv, MutexInv, NEW t \in Threads, Trace(t)
  PROVE  TypeInv' /\ MutexInv'
<1>1. stack[t] # << >> /\ Top(t).pc = "trace" /\ UNCHANGED mutex /\ StackType
  BY AtTop DEF Trace, TypeInv
<1>2. "write" \in PCs /\ "write" \in Holding /\ "trace" \in Holding /\ "lock" \notin Holding
  BY DEF PCs, Holding
<1>3. [Top(t) EXCEPT !.pc = "write"].pc = "write"
  BY <1>1, TopIsFrame DEF FrameType
<1>4. StackType' /\ MutexInv'
  <2>1. CASE Goto(t, "write")
    BY <1>1, <1>2, <1>3, <2>1, GotoTurns, TurnKeeps
  <2>2. CASE CallThen(t, RawLog(t), "write")
    <3>1. RawLog(t) \in FrameType /\ RawLog(t).pc = "lock"
      BY RawLogFacts
    <3>2. /\ [Top(t) EXCEPT !.pc = "write"] \in FrameType
          /\ Invokes(t, RawLog(t), [Top(t) EXCEPT !.pc = "write"])
      BY <1>1, <1>2, <2>2, CallThenInvokes
    <3> QED
      BY <1>1, <1>2, <1>3, <3>1, <3>2, InvokeKeeps
  <2> QED
    BY <2>1, <2>2 DEF Trace
<1> QED
  BY <1>4 DEF Trace, TypeInv, ControlType, SinksType, output, thread

LEMMA WriteForm ==
  ASSUME TypeInv, NEW t \in Threads, Write(t), NEW k, k = NextSink(Top(t))
  PROVE  /\ stack[t] # << >> /\ Top(t).pc = "write" /\ Top(t) \in FrameType /\ UNCHANGED <<mutex, dead>>
         /\ k \in DOMAIN sinks /\ k >= Top(t).sink /\ Accepts(sinks[k], Top(t).msg)
         /\ \A i \in DOMAIN sinks : i >= Top(t).sink /\ i < k => ~ Accepts(sinks[i], Top(t).msg)
         /\ [Top(t) EXCEPT !.pc = "flush", !.sink = k] \in FrameType
         /\ Turns(t, [Top(t) EXCEPT !.pc = "flush", !.sink = k])
         /\ sinks' = [sinks EXCEPT ![k] = [sinks[k] EXCEPT !.lines = Append(sinks[k].lines, Line(sinks[k], Top(t).msg))]]
<1>1. /\ stack[t] # << >> /\ Top(t).pc = "write" /\ Top(t) \in FrameType /\ UNCHANGED <<mutex, dead>>
      /\ StackType /\ SinksType /\ k <= Len(sinks)
      /\ sinks' = [sinks EXCEPT ![k].lines = Append(@, Line(sinks[k], Top(t).msg))]
      /\ stack' = [stack EXCEPT ![t][1].pc = "flush", ![t][1].sink = k]
  BY AtTop DEF Write, TypeInv
<1>2. /\ k \in Nat \ {0} /\ k \in DOMAIN sinks /\ k >= Top(t).sink /\ Accepts(sinks[k], Top(t).msg)
      /\ \A i \in DOMAIN sinks : i >= Top(t).sink /\ i < k => ~ Accepts(sinks[i], Top(t).msg)
  BY <1>1, NextSinkFacts
<1>3. "flush" \in PCs
  BY DEF PCs, Holding
<1>4. /\ [Top(t) EXCEPT !.pc = "flush", !.sink = k] \in FrameType
      /\ Turns(t, [Top(t) EXCEPT !.pc = "flush", !.sink = k])
  BY <1>1, <1>2, <1>3, GoingTurns
<1> QED
  BY <1>1, <1>2, <1>4

LEMMA LongerSink ==
  ASSUME NEW s \in SinkType, s.flushed <= Len(s.lines), NEW l \in LineType
  PROVE  /\ [s EXCEPT !.lines = Append(s.lines, l)] \in SinkType
         /\ [s EXCEPT !.lines = Append(s.lines, l)].lines = Append(s.lines, l)
         /\ [s EXCEPT !.lines = Append(s.lines, l)].verbosity = s.verbosity
         /\ [s EXCEPT !.lines = Append(s.lines, l)].indentation = s.indentation
         /\ [s EXCEPT !.lines = Append(s.lines, l)].flushed = s.flushed
         /\ s.flushed <= Len(Append(s.lines, l))
<1>1. s.lines \in Seq(LineType) /\ s.flushed \in Nat
  BY DEF SinkType
<1>2. Append(s.lines, l) \in Seq(LineType) /\ Len(Append(s.lines, l)) = Len(s.lines) + 1
  BY <1>1
<1>3. s.flushed <= Len(Append(s.lines, l))
  BY <1>1, <1>2
<1> DEFINE ls == Append(s.lines, l)
<1> HIDE DEF ls
<1>4. ls \in Seq(LineType) => [s EXCEPT !.lines = ls] \in SinkType
  BY DEF SinkType
<1>5. /\ [s EXCEPT !.lines = ls].lines = ls /\ [s EXCEPT !.lines = ls].verbosity = s.verbosity
      /\ [s EXCEPT !.lines = ls].indentation = s.indentation /\ [s EXCEPT !.lines = ls].flushed = s.flushed
  BY DEF SinkType
<1> QED
  BY <1>2, <1>3, <1>4, <1>5 DEF ls

LEMMA WriteType ==
  ASSUME TypeInv, MutexInv, NEW t \in Threads, Write(t)
  PROVE  TypeInv' /\ MutexInv'
<1> DEFINE k == NextSink(Top(t))
           g == [Top(t) EXCEPT !.pc = "flush", !.sink = k]
           l == Line(sinks[k], Top(t).msg)
<1>1. /\ stack[t] # << >> /\ Top(t).pc = "write" /\ Top(t) \in FrameType /\ mutex' = mutex
      /\ k \in DOMAIN sinks /\ g \in FrameType /\ Turns(t, g)
      /\ sinks' = [sinks EXCEPT ![k] = [sinks[k] EXCEPT !.lines = Append(sinks[k].lines, l)]]
  BY WriteForm
<1>2. g.pc = "flush"
  BY <1>1 DEF FrameType
<1>3. sinks[k] \in SinkType /\ sinks[k].flushed <= Len(sinks[k].lines) /\ l \in LineType
  BY <1>1, LineIsLine DEF TypeInv, SinksType, FrameType
<1> HIDE DEF k, g, l
<1>4. StackType' /\ MutexInv'
  BY <1>1, <1>2, TurnKeeps DEF TypeInv, Holding
<1>5. SinksType'
  BY <1>1, <1>3, LongerSink, OneSinkType DEF TypeInv
<1> QED
  BY <1>4, <1>5 DEF Write, TypeInv, ControlType, thread

LEMMA FlushForm ==
  ASSUME TypeInv, NEW t \in Threads, Flush(t)
  PROVE  /\ stack[t] # << >> /\ Top(t).pc = "flush" /\ Top(t) \in FrameType /\ UNCHANGED <<mutex, dead>>
         /\ [Top(t) EXCEPT !.pc = "write", !.sink = Top(t).sink + 1] \in FrameType
         /\ Turns(t, [Top(t) EXCEPT !.pc = "write", !.sink = Top(t).sink + 1])
         /\ sinks' = [sinks EXCEPT ![Top(t).sink] = Flushed(sinks[Top(t).sink])]
<1>1. /\ stack[t] # << >> /\ Top(t).pc = "flush" /\ Top(t) \in FrameType /\ UNCHANGED <<mutex, dead>>
      /\ StackType /\ Top(t).sink + 1 \in Nat \ {0}
      /\ sinks' = [sinks EXCEPT ![Top(t).sink] = Flushed(sinks[Top(t).sink])]
      /\ stack' = [stack EXCEPT ![t][1].pc = "write", ![t][1].sink = @ + 1]
  BY AtTop DEF Flush, TypeInv
<1>2. "write" \in PCs
  BY DEF PCs, Holding
<1>3. stack' = [stack EXCEPT ![t][1].pc = "write", ![t][1].sink = Top(t).sink + 1]
  <2> DEFINE mid == [stack EXCEPT ![t][1].pc = "write"]
  <2>1. stack' = [mid EXCEPT ![t] = [mid[t] EXCEPT ![1] = [mid[t][1] EXCEPT !.sink = mid[t][1].sink + 1]]]
    BY <1>1
  <2>2. mid[t][1].sink = Top(t).sink
    <3>1. stack[t] \in Seq(FrameType) /\ Top(t) = stack[t][1] /\ 1 \in DOMAIN stack[t]
      BY <1>1, TopIsFrame
    <3>2. mid[t] = [stack[t] EXCEPT ![1] = [stack[t][1] EXCEPT !.pc = "write"]]
      BY <1>1 DEF StackType
    <3>3. mid[t][1] = [stack[t][1] EXCEPT !.pc = "write"]
      BY <3>1, <3>2
    <3> QED
      BY <1>1, <3>1, <3>3 DEF FrameType
  <2>3. stack' = [mid EXCEPT ![t] = [mid[t] EXCEPT ![1] = [mid[t][1] EXCEPT !.sink = Top(t).sink + 1]]]
    BY <2>1, <2>2
  <2> QED
    BY <2>3
<1> QED
  BY <1>1, <1>2, <1>3, GoingTurns

LEMMA FlushType ==
  ASSUME TypeInv, MutexInv, NEW t \in Threads, Flush(t)
  PROVE  TypeInv' /\ MutexInv'
<1> DEFINE k == Top(t).sink
           g == [Top(t) EXCEPT !.pc = "write", !.sink = k + 1]
<1>1. /\ stack[t] # << >> /\ Top(t).pc = "flush" /\ Top(t) \in FrameType /\ mutex' = mutex
      /\ g \in FrameType /\ Turns(t, g) /\ sinks' = [sinks EXCEPT ![k] = Flushed(sinks[k])]
  BY FlushForm
<1>2. g.pc = "write"
  BY <1>1 DEF FrameType
<1> HIDE DEF k, g
<1>3. StackType' /\ MutexInv'
  BY <1>1, <1>2, TurnKeeps DEF TypeInv, Holding
<1>4. SinksType'
  <2>1. CASE k \in DOMAIN sinks
    <3>1. sinks[k] \in SinkType
      BY <2>1 DEF TypeInv, SinksType
    <3>2. Len(sinks[k].lines) \in Nat
      BY <3>1 DEF SinkType
    <3>3. Flushed(sinks[k]) \in SinkType /\ Flushed(sinks[k]).flushed <= Len(Flushed(sinks[k]).lines)
      BY <3>1, <3>2, FlushedFacts
    <3> QED
      BY <1>1, <3>3, OneSinkType DEF TypeInv
  <2>2. CASE k \notin DOMAIN sinks
    <3>1. sinks' = sinks
      BY <1>1, <2>2 DEF TypeInv, SinksType
    <3> QED
      BY <3>1 DEF TypeInv, SinksType
  <2> QED
    BY <2>1, <2>2
<1> QED
  BY <1>3, <1>4 DEF Flush, TypeInv, ControlType, thread

LEMMA LogReturnsType ==
  ASSUME TypeInv, MutexInv, NEW t \in Threads, LogReturns(t)
  PROVE  TypeInv' /\ MutexInv'
<1>1. stack[t] # << >> /\ Top(t).pc = "write" /\ Unlock /\ Return(t) /\ StackType
  BY AtTop DEF LogReturns, Written, TypeInv
<1>2. StackType' /\ MutexInv'
  BY <1>1, ReturnUnlocks DEF Holding
<1> QED
  BY <1>2 DEF LogReturns, TypeInv, ControlType, SinksType, output

LEMMA FatalEndsType ==
  ASSUME TypeInv, MutexInv, NEW t \in Threads, FatalEnds(t)
  PROVE  TypeInv' /\ MutexInv'
<1>1. stack[t] # << >> /\ Top(t).pc = "write" /\ FlushAll /\ StackType
  BY AtTop DEF FatalEnds, Written, TypeInv
<1>2. StackType' /\ MutexInv' /\ dead' \in {dead, "abort"}
  <2>1. CASE Top(t).msg.kind = "signal"
    BY <1>1, <2>1, ReturnUnlocks DEF Holding, FatalEnds
  <2>2. CASE Top(t).msg.kind # "signal"
    BY <1>1, <2>2 DEF FatalEnds, StackType, MutexInv
  <2> QED
    BY <2>1, <2>2
<1>3. SinksType'
  BY <1>1, FlushAllType DEF TypeInv
<1> QED
  BY <1>2, <1>3 DEF FatalEnds, TypeInv, ControlType, thread

LEMMA ScopeForm ==
  ASSUME TypeInv, NEW t \in Threads, NEW p \in {"open", "close"}, NEW q \in {"open indent", "close end"},
         At(t, p), CallThen(t, Frame("format", Top(t).msg), q)
  PROVE  /\ stack[t] # << >> /\ Top(t).pc = p /\ Top(t) \in FrameType /\ Top(t).msg \in MessageType
         /\ Frame("format", Top(t).msg) \in FrameType
         /\ Frame("format", Top(t).msg).pc = "format" /\ Frame("format", Top(t).msg).sink = 1
         /\ Frame("format", Top(t).msg).msg = Top(t).msg
         /\ [Top(t) EXCEPT !.pc = q] \in FrameType /\ [Top(t) EXCEPT !.pc = q].pc = q
         /\ [Top(t) EXCEPT !.pc = q].msg = Top(t).msg
         /\ Invokes(t, Frame("format", Top(t).msg), [Top(t) EXCEPT !.pc = q])
<1>1. stack[t] # << >> /\ Top(t).pc = p /\ Top(t) \in FrameType /\ Top(t).msg \in MessageType /\ StackType
  BY AtTop DEF TypeInv
<1>2. q \in PCs /\ "format" \in PCs
  BY DEF PCs, Holding
<1>3. /\ Frame("format", Top(t).msg) \in FrameType
      /\ Frame("format", Top(t).msg).pc = "format" /\ Frame("format", Top(t).msg).sink = 1
      /\ Frame("format", Top(t).msg).msg = Top(t).msg
  BY <1>1, <1>2, FrameIsFrame
<1>4. /\ [Top(t) EXCEPT !.pc = q] \in FrameType
      /\ Invokes(t, Frame("format", Top(t).msg), [Top(t) EXCEPT !.pc = q])
  BY <1>1, <1>2, CallThenInvokes
<1>5. [Top(t) EXCEPT !.pc = q].pc = q /\ [Top(t) EXCEPT !.pc = q].msg = Top(t).msg
  BY <1>1 DEF FrameType
<1> QED
  BY <1>1, <1>3, <1>4, <1>5

LEMMA OpenBraceType ==
  ASSUME TypeInv, MutexInv, NEW t \in Threads, OpenBrace(t)
  PROVE  TypeInv' /\ MutexInv'
<1> DEFINE f == Frame("format", Top(t).msg)
           g == [Top(t) EXCEPT !.pc = "open indent"]
<1>1. At(t, "open") /\ CallThen(t, f, "open indent") /\ Lock(t) /\ StackType
  BY DEF OpenBrace, TypeInv
<1>2. /\ stack[t] # << >> /\ Top(t).pc = "open" /\ Top(t).msg \in MessageType /\ f \in FrameType /\ f.pc = "format"
      /\ g \in FrameType /\ g.pc = "open indent" /\ Invokes(t, f, g)
  BY <1>1, ScopeForm
<1> HIDE DEF f, g
<1>3. StackType' /\ MutexInv'
  BY <1>1, <1>2, InvokeLocks DEF Holding
<1> QED
  BY <1>3 DEF OpenBrace, TypeInv, ControlType, SinksType, output, thread

LEMMA CloseIndentType ==
  ASSUME TypeInv, MutexInv, NEW t \in Threads, CloseIndent(t)
  PROVE  TypeInv' /\ MutexInv'
<1> DEFINE f == Frame("format", Top(t).msg)
           g == [Top(t) EXCEPT !.pc = "close end"]
<1>1. At(t, "close") /\ CallThen(t, f, "close end") /\ Lock(t) /\ StackType
  BY DEF CloseIndent, TypeInv
<1>2. /\ stack[t] # << >> /\ Top(t).pc = "close" /\ Top(t).msg \in MessageType /\ f \in FrameType /\ f.pc = "format"
      /\ g \in FrameType /\ g.pc = "close end" /\ Invokes(t, f, g)
  BY <1>1, ScopeForm
<1> HIDE DEF f, g
<1>3. StackType' /\ MutexInv'
  BY <1>1, <1>2, InvokeLocks DEF Holding
<1>4. SinksType'
  BY <1>2, IndentType DEF CloseIndent, TypeInv
<1> QED
  BY <1>3, <1>4 DEF CloseIndent, TypeInv, ControlType, thread

LEMMA OpenIndentType ==
  ASSUME TypeInv, MutexInv, NEW t \in Threads, OpenIndent(t)
  PROVE  TypeInv' /\ MutexInv'
<1>1. /\ stack[t] # << >> /\ Top(t).pc = "open indent" /\ Unlock /\ Return(t) /\ StackType
      /\ Indent(Top(t).msg, 1) /\ Top(t).msg \in MessageType /\ Top(t).msg.verbosity \in Int
  BY AtTop DEF OpenIndent, TypeInv
<1>2. StackType' /\ MutexInv'
  BY <1>1, ReturnUnlocks DEF Holding
<1>3. SinksType'
  BY <1>1, IndentType DEF TypeInv
<1>4. scopes' \in [Threads -> Seq(Int)]
  <2>1. scopes[t] \in Seq(Int)
    BY DEF TypeInv, ControlType
  <2>2. <<Top(t).msg.verbosity>> \o scopes[t] \in Seq(Int)
    BY <1>1, <2>1, PushFacts
  <2> QED
    BY <2>2 DEF OpenIndent, TypeInv, ControlType
<1> QED
  BY <1>2, <1>3, <1>4 DEF OpenIndent, TypeInv, ControlType

LEMMA CloseReturnsType ==
  ASSUME TypeInv, MutexInv, NEW t \in Threads, CloseReturns(t)
  PROVE  TypeInv' /\ MutexInv'
<1>1. stack[t] # << >> /\ Top(t).pc = "close end" /\ Unlock /\ Return(t) /\ StackType
  BY AtTop DEF CloseReturns, TypeInv
<1>2. StackType' /\ MutexInv'
  BY <1>1, ReturnUnlocks DEF Holding
<1> QED
  BY <1>2 DEF CloseReturns, TypeInv, ControlType, SinksType, output, thread

LEMMA HandlerForm ==
  ASSUME TypeInv, NEW t \in Threads, HandlerFlushes(t)
  PROVE  /\ stack[t] # << >> /\ Top(t).pc = "caught" /\ Top(t) \in FrameType
         /\ Frame("format", Top(t).msg) \in FrameType
         /\ Frame("format", Top(t).msg).pc = "format" /\ Frame("format", Top(t).msg).sink = 1
         /\ Frame("format", Top(t).msg).msg = Top(t).msg
         /\ [Top(t) EXCEPT !.pc = "flush and kill"] \in FrameType
         /\ [Top(t) EXCEPT !.pc = "flush and kill"].msg = Top(t).msg
         /\ [Top(t) EXCEPT !.pc = "flush and kill"].pc = "flush and kill"
         /\ Invokes(t, Frame("format", Top(t).msg), [Top(t) EXCEPT !.pc = "flush and kill"])
<1>1. /\ stack[t] # << >> /\ Top(t).pc = "caught" /\ Top(t) \in FrameType /\ StackType
      /\ CallThen(t, Frame("format", Top(t).msg), "flush and kill")
  BY AtTop DEF HandlerFlushes, TypeInv
<1>2. "format" \in PCs /\ "flush and kill" \in PCs
  BY DEF PCs
<1>3. /\ [Top(t) EXCEPT !.pc = "flush and kill"] \in FrameType
      /\ Invokes(t, Frame("format", Top(t).msg), [Top(t) EXCEPT !.pc = "flush and kill"])
  BY <1>1, <1>2, CallThenInvokes
<1>4. /\ [Top(t) EXCEPT !.pc = "flush and kill"].pc = "flush and kill"
      /\ [Top(t) EXCEPT !.pc = "flush and kill"].msg = Top(t).msg
  BY <1>1, <1>2 DEF FrameType
<1>5. Top(t).msg \in MessageType
  BY <1>1 DEF FrameType
<1>6. /\ Frame("format", Top(t).msg) \in FrameType
      /\ Frame("format", Top(t).msg).pc = "format" /\ Frame("format", Top(t).msg).sink = 1
      /\ Frame("format", Top(t).msg).msg = Top(t).msg
  BY <1>2, <1>5, FrameIsFrame
<1> QED
  BY <1>1, <1>3, <1>4, <1>6

LEMMA HandlerFlushesType ==
  ASSUME TypeInv, MutexInv, NEW t \in Threads, HandlerFlushes(t)
  PROVE  TypeInv' /\ MutexInv'
<1> DEFINE f == Frame("format", Top(t).msg)
           g == [Top(t) EXCEPT !.pc = "flush and kill"]
<1>1. /\ stack[t] # << >> /\ Top(t).pc = "caught" /\ f \in FrameType /\ f.pc = "format"
      /\ g \in FrameType /\ g.pc = "flush and kill" /\ Invokes(t, f, g)
  BY HandlerForm
<1> HIDE DEF f, g
<1>2. StackType' /\ MutexInv'
  BY <1>1, InvokeKeeps DEF Holding, HandlerFlushes, TypeInv
<1>3. SinksType'
  BY FlushAllType DEF TypeInv, HandlerFlushes
<1> QED
  BY <1>2, <1>3 DEF HandlerFlushes, TypeInv, ControlType, thread

LEMMA HandlerFlushesAgainType ==
  ASSUME TypeInv, MutexInv, NEW t \in Threads, HandlerFlushesAgain(t)
  PROVE  TypeInv' /\ MutexInv'
<1>1. stack[t] # << >> /\ Top(t).pc = "flush and kill" /\ Goto(t, "kill") /\ UNCHANGED mutex
  BY AtTop DEF HandlerFlushesAgain
<1>2. "kill" \in PCs /\ StackType
  BY DEF PCs, TypeInv
<1>3. [Top(t) EXCEPT !.pc = "kill"].pc = "kill"
  BY <1>1, <1>2, TopIsFrame DEF FrameType
<1>4. StackType' /\ MutexInv'
  BY <1>1, <1>2, <1>3, GotoTurns, TurnKeeps DEF Holding
<1>5. SinksType'
  BY FlushAllType DEF TypeInv, HandlerFlushesAgain
<1> QED
  BY <1>4, <1>5 DEF HandlerFlushesAgain, TypeInv, ControlType, thread

(* A call, a scope, a signal: a new frame without the mutex. *)
LEMMA NewCallType ==
  ASSUME TypeInv, MutexInv, NEW t \in Threads, NEW p \in PCs \ Holding, NEW m \in MessageType,
         NEW f, f = Frame(p, m) \/ \E b \in LibcStates : f = [Frame(p, m) EXCEPT !.in_libc = b],
         Push(t, f), UNCHANGED mutex
  PROVE  f \in FrameType /\ f.pc = p /\ f.msg = m /\ f.sink = 1 /\ StackType' /\ MutexInv'
<1>1. Frame(p, m) \in FrameType
  BY FrameIsFrame
<1>2. f \in FrameType /\ f.pc = p /\ f.msg = m /\ f.sink = 1
  <2>1. CASE f = Frame(p, m)
    BY <2>1, FrameIsFrame
  <2>2. CASE \E b \in LibcStates : f = [Frame(p, m) EXCEPT !.in_libc = b]
    BY <1>1, <2>2 DEF FrameType, Frame
  <2> QED
    BY <2>1, <2>2
<1> QED
  BY <1>2, PushKeeps DEF TypeInv

LEMMA LogFType ==
  ASSUME TypeInv, MutexInv, NEW t \in Threads, NEW v \in Messages, LogF(t, v)
  PROVE  TypeInv' /\ MutexInv'
<1> DEFINE m == Message(t, "msg", v)
<1>3. v \in Int /\ "msg" \in Kinds
  BY LoguruAssumption DEF Kinds, Error
<1>1. m \in MessageType /\ "format" \in PCs \ Holding
  BY <1>3, MessageIsMessage DEF PCs, Holding
<1> HIDE DEF m
<1>2. StackType' /\ MutexInv'
  <2>1. CASE Push(t, Frame("format", m))
    <3>1. UNCHANGED mutex
      BY DEF LogF
    <3> QED
      BY <1>1, <2>1, <3>1, NewCallType
  <2>2. CASE UNCHANGED stack
    BY <2>2 DEF LogF, TypeInv, StackType, MutexInv
  <2> QED
    BY <2>1, <2>2 DEF LogF, LogAndAbort, m
<1> QED
  BY <1>2 DEF LogF, TypeInv, ControlType, SinksType, output, Calls

LEMMA AbortFType ==
  ASSUME TypeInv, MutexInv, NEW t \in Threads, AbortF(t)
  PROVE  TypeInv' /\ MutexInv'
<1> DEFINE m == Message(t, "fatal", Fatal)
<1>3. Fatal \in Int /\ "fatal" \in Kinds
  BY DEF Kinds, Fatal
<1>1. m \in MessageType /\ "format" \in PCs \ Holding
  BY <1>3, MessageIsMessage DEF PCs, Holding
<1> HIDE DEF m
<1>2. StackType' /\ MutexInv'
  <2>1. CASE Push(t, Frame("format", m))
    <3>1. UNCHANGED mutex
      BY DEF AbortF
    <3> QED
      BY <1>1, <2>1, <3>1, NewCallType
  <2>2. CASE UNCHANGED stack
    BY <2>2 DEF AbortF, TypeInv, StackType, MutexInv
  <2> QED
    BY <2>1, <2>2 DEF AbortF, LogAndAbort, m
<1> QED
  BY <1>2 DEF AbortF, TypeInv, ControlType, SinksType, output, Calls

LEMMA OpenScopeType ==
  ASSUME TypeInv, MutexInv, NEW t \in Threads, NEW v \in Scopes, OpenScope(t, v)
  PROVE  TypeInv' /\ MutexInv'
<1> DEFINE m == Message(t, "{", v)
<1>3. v \in Int /\ "{" \in Kinds
  BY LoguruAssumption DEF Kinds, Info
<1>1. m \in MessageType /\ "open" \in PCs \ Holding
  BY <1>3, MessageIsMessage DEF PCs, Holding
<1> HIDE DEF m
<1>2. StackType' /\ MutexInv'
  <2>1. CASE Push(t, Frame("open", m))
    <3>1. UNCHANGED mutex
      BY DEF OpenScope
    <3> QED
      BY <1>1, <2>1, <3>1, NewCallType
  <2>2. CASE UNCHANGED stack
    BY <2>2 DEF OpenScope, TypeInv, StackType, MutexInv
  <2> QED
    BY <2>1, <2>2 DEF OpenScope, LogAndAbort, m
<1> QED
  BY <1>2 DEF OpenScope, TypeInv, ControlType, SinksType, output, Calls

LEMMA CloseScopeType ==
  ASSUME TypeInv, MutexInv, NEW t \in Threads, CloseScope(t)
  PROVE  TypeInv' /\ MutexInv'
<1> DEFINE m == Message(t, "}", Head(scopes[t]))
<1>1. /\ Push(t, Frame("close", m)) /\ UNCHANGED mutex
      /\ scopes' = [scopes EXCEPT ![t] = Tail(scopes[t])]
      /\ scopes[t] \in Seq(Int) /\ scopes[t] # << >>
  BY DEF CloseScope, TypeInv, ControlType
<1>2. Head(scopes[t]) \in Int /\ Tail(scopes[t]) \in Seq(Int)
  BY <1>1, HeadTailProperties
<1>3. m \in MessageType /\ "close" \in PCs \ Holding
  BY <1>2, MessageIsMessage DEF Kinds, PCs, Holding
<1> HIDE DEF m
<1>4. StackType' /\ MutexInv'
  BY <1>1, <1>3, NewCallType
<1>5. scopes' \in [Threads -> Seq(Int)]
  BY <1>1, <1>2 DEF TypeInv, ControlType
<1> QED
  BY <1>4, <1>5 DEF CloseScope, TypeInv, ControlType, SinksType, output

LEMMA SignalType ==
  ASSUME TypeInv, MutexInv, NEW t \in Threads, Signal(t)
  PROVE  TypeInv' /\ MutexInv'
<1> DEFINE m == Message(t, "signal", Fatal)
<1>1. PICK b \in LibcStates : Push(t, [Frame("caught", m) EXCEPT !.in_libc = b])
  BY SignalPushes
<1>4. Fatal \in Int /\ "signal" \in Kinds
  BY DEF Kinds, Fatal
<1>2. m \in MessageType /\ "caught" \in PCs \ Holding
  BY <1>4, MessageIsMessage DEF PCs, Holding
<1> HIDE DEF m
<1>3. StackType' /\ MutexInv'
  BY <1>1, <1>2, NewCallType DEF Signal
<1> QED
  BY <1>3 DEF Signal, TypeInv, ControlType, SinksType, output, thread

LEMMA KillType ==
  ASSUME TypeInv, MutexInv, NEW t \in Threads, CallDefaultHandler(t)
  PROVE  TypeInv' /\ MutexInv'
BY DEF CallDefaultHandler, TypeInv, ControlType, SinksType, StackType, MutexInv, output, thread

LEMMA MainMessage ==
  ASSUME TypeInv, MutexInv, NEW v \in Int, Push(Main, Setup(v)), UNCHANGED mutex
  PROVE  StackType' /\ MutexInv'
<1>1. "setup" \in Kinds /\ "format" \in PCs \ Holding /\ Main \in Threads
  BY DEF Kinds, PCs, Holding, Threads
<1>2. Message(Main, "setup", v) \in MessageType
  BY <1>1, MessageIsMessage
<1> QED
  BY <1>1, <1>2, NewCallType DEF Setup

LEMMA NewSink ==
  ASSUME SinksType, NEW v \in Int, sinks' = Append(sinks, Sink(v))
  PROVE  SinksType'
<1>1. Sink(v) \in SinkType /\ Sink(v).flushed = 0 /\ Sink(v).lines = << >>
  BY DEF Sink, SinkType
<1>2. /\ sinks' \in Seq(SinkType) /\ sinks' # << >> /\ DOMAIN sinks' = DOMAIN sinks \cup {Len(sinks) + 1}
      /\ \A k \in DOMAIN sinks : sinks'[k] = sinks[k]
      /\ sinks'[Len(sinks) + 1] = Sink(v)
  BY <1>1, AppendProperties DEF SinksType
<1> QED
  BY <1>1, <1>2 DEF SinksType

LEMMA MainType ==
  ASSUME TypeInv, MutexInv, InitLoguru \/ SetLoglevel \/ AddFile \/ StartThreads \/ Exit
  PROVE  TypeInv' /\ MutexInv'
<1>1. Info \in Int /\ Error \in Int
  BY DEF Info, Error
<1>2. CASE InitLoguru
  <2>1. StackType' /\ MutexInv'
    BY <1>1, <1>2, MainMessage DEF InitLoguru
  <2> QED
    BY <1>2, <2>1 DEF InitLoguru, TypeInv, ControlType, SinksType, output, thread
<1>3. CASE SetLoglevel
  <2>1. Loglevel \in Int
    BY LoguruAssumption DEF Off
  <2>2. sinks' = [sinks EXCEPT ![1] = [sinks[1] EXCEPT !.verbosity = Loglevel]]
    BY <1>3 DEF SetLoglevel
  <2>3. /\ [sinks[1] EXCEPT !.verbosity = Loglevel] \in SinkType
        /\ [sinks[1] EXCEPT !.verbosity = Loglevel].flushed <= Len([sinks[1] EXCEPT !.verbosity = Loglevel].lines)
    <3>1. sinks[1] \in SinkType /\ sinks[1].flushed <= Len(sinks[1].lines)
      BY DEF TypeInv, SinksType
    <3> QED
      BY <2>1, <3>1 DEF SinkType
  <2>4. SinksType'
    BY <2>2, <2>3, OneSinkType DEF TypeInv
  <2> QED
    BY <1>3, <2>4 DEF SetLoglevel, TypeInv, ControlType, StackType, MutexInv, thread
<1>4. CASE AddFile
  <2>1. Head(files) \in Fatal .. 9 /\ Tail(files) \in Seq(Fatal .. 9)
    BY <1>4, HeadTailProperties DEF AddFile, TypeInv, ControlType
  <2>2. StackType' /\ MutexInv'
    BY <1>1, <1>4, MainMessage DEF AddFile
  <2>3. SinksType' /\ max_out' \in Off .. 9
    <3>1. CASE AddCallback(Head(files))
      <4>1. Head(files) \in Int /\ Head(files) \in Off .. 9
        BY <2>1 DEF Off, Fatal
      <4> QED
        BY <3>1, <4>1, NewSink DEF AddCallback, TypeInv, ControlType
    <3>2. CASE UNCHANGED output
      BY <3>2 DEF output, TypeInv, ControlType, SinksType
    <3> QED
      BY <1>4, <3>1, <3>2 DEF AddFile
  <2> QED
    BY <1>4, <2>1, <2>2, <2>3 DEF AddFile, TypeInv, ControlType, thread
<1>5. CASE StartThreads
  BY <1>5 DEF StartThreads, TypeInv, ControlType, SinksType, StackType, MutexInv, output, thread
<1>6. CASE Exit
  BY <1>6, FlushAllType DEF Exit, TypeInv, ControlType, StackType, MutexInv, thread
<1> QED
  BY <1>2, <1>3, <1>4, <1>5, <1>6

LEMMA InitType == Init => TypeInv /\ MutexInv
<1> SUFFICES ASSUME Init
             PROVE  TypeInv /\ MutexInv
  OBVIOUS
<1>1. ControlType
  BY LoguruAssumption DEF Init, ControlType, Off
<1>2. SinksType
  <2>1. Sink(Info) \in SinkType /\ Sink(Info).flushed = 0 /\ Sink(Info).lines = << >>
    BY DEF Sink, SinkType, Info
  <2>2. sinks = <<Sink(Info)>>
    BY DEF Init
  <2> QED
    BY <2>1, <2>2 DEF SinksType
<1>3. StackType
  BY DEF Init, StackType
<1>4. \A t \in Threads : HeldBy(stack[t]) = {}
  <2>1. HeldBy(<< >>) = {}
    BY DEF HeldBy
  <2> QED
    BY <2>1 DEF Init
<1>5. mutex.owner = NoThread /\ mutex.depth = 0
  BY DEF Init
<1> QED
  BY <1>1, <1>2, <1>3, <1>4, <1>5, LoguruAssumption DEF TypeInv, MutexInv

LEMMA StepType == TypeInv /\ MutexInv /\ [Next]_vars => TypeInv' /\ MutexInv'
<1> SUFFICES ASSUME TypeInv, MutexInv, [Next]_vars
             PROVE  TypeInv' /\ MutexInv'
  OBVIOUS
<1>1. CASE InitLoguru \/ SetLoglevel \/ AddFile \/ StartThreads \/ Exit
  BY <1>1, MainType
<1>2. ASSUME NEW t \in Threads, InCall(t)
      PROVE  TypeInv' /\ MutexInv'
  BY <1>2, FormatType, LockMessageType, TraceType, WriteType, FlushType, LogReturnsType, FatalEndsType,
     OpenBraceType, OpenIndentType, CloseIndentType, CloseReturnsType,
     HandlerFlushesType, HandlerFlushesAgainType, KillType DEF InCall
<1>3. ASSUME NEW t \in Threads, AbortF(t) \/ CloseScope(t) \/ Signal(t)
      PROVE  TypeInv' /\ MutexInv'
  BY <1>3, AbortFType, CloseScopeType, SignalType
<1>4. ASSUME NEW t \in Threads, NEW v \in Messages, LogF(t, v)
      PROVE  TypeInv' /\ MutexInv'
  BY <1>4, LogFType
<1>5. ASSUME NEW t \in Threads, NEW v \in Scopes, OpenScope(t, v)
      PROVE  TypeInv' /\ MutexInv'
  BY <1>5, OpenScopeType
<1>6. CASE UNCHANGED vars
  BY <1>6 DEF vars, output, thread, TypeInv, ControlType, SinksType, StackType, MutexInv
<1> QED
  BY <1>1, <1>2, <1>3, <1>4, <1>5, <1>6 DEF Next

LEMMA InvIsTypeOK ==
  ASSUME TypeInv, MutexInv
  PROVE  TypeOK
<1>1. \A s \in Range(sinks) : s \in SinkType /\ s.flushed <= Len(s.lines)
  BY DEF TypeInv, SinksType, Range
<1>2. \A s \in Range(sinks) : s.indentation \in Nat /\ s.flushed \in 0 .. Len(s.lines)
  BY <1>1 DEF SinkType
<1>3. \A s \in Range(sinks) : \A l \in Range(s.lines) : l.by \in Threads /\ l.kind \in Kinds
  <2> SUFFICES ASSUME NEW s \in Range(sinks), NEW l \in Range(s.lines)
               PROVE  l \in LineType
    BY DEF LineType
  <2>1. s.lines \in Seq(LineType)
    BY <1>1 DEF SinkType
  <2> QED
    BY <2>1 DEF Range
<1>4. ASSUME NEW t \in Threads, stack[t] = << >>
      PROVE  mutex.owner # t
  <2>1. HeldBy(stack[t]) = {}
    BY <1>4 DEF HeldBy
  <2> QED
    BY <2>1, FS_EmptySet, LoguruAssumption DEF MutexInv
<1> QED
  BY <1>2, <1>3, <1>4 DEF TypeOK, TypeInv, ControlType, MutexInv

(* Everything keeps its type, no counter falls below zero and no line is   *)
(* flushed that was not written.  The recursive mutex is free exactly when *)
(* its depth is zero, and a thread that is in no call never has it: each   *)
(* call that locks it unlocks it, with scopes, stack traces and signal     *)
(* handlers nested in each other.                                          *)
THEOREM TypeCorrect == Spec => []TypeOK
<1>1. TypeInv /\ MutexInv => TypeOK
  BY InvIsTypeOK
<1> QED
  BY <1>1, InitType, StepType, PTL DEF Spec

-----------------------------------------------------------------------------
(* Which call stands on which.  A signal interrupts anything, and after it *)
(* nothing below goes on; apart from that a message is logged for its own  *)
(* sake by the outermost call only, or it is the stack trace of a fatal    *)
(* one or the brace of a scope.                                            *)

InLog == {"format", "lock", "trace", "write", "flush"}

InHandler == {"caught", "flush and kill", "kill"}

FrameOK(t, f) ==
  /\ f.msg.by = t
  /\ f.msg.verbosity = Fatal <=> f.msg.kind \in {"fatal", "signal"}
  /\ f.msg.kind \in {"{", "}"} => f.msg.verbosity \in Info .. 9
  /\ f.msg.kind = "trace" => f.msg.verbosity = Error
  /\ f.pc = "format" => f.msg.kind # "trace"
  /\ f.pc \in {"open", "open indent"} => f.msg.kind = "{"
  /\ f.pc \in {"close", "close end"} => f.msg.kind = "}"
  /\ f.pc \in InHandler => f.msg.kind = "signal"
  /\ f.pc = "trace" => f.msg.verbosity = Fatal
  /\ f.pc \in {"format", "caught", "lock", "trace"} => f.sink = 1

OnTopOf(f, g) ==
  \/ f.pc \in InHandler
  \/ /\ f.pc \in InLog
     /\ \/ f.msg.kind = "signal" /\ g.pc = "flush and kill"
        \/ f.msg.kind = "trace" /\ g.pc = "write" /\ g.sink = 1 /\ g.msg.verbosity = Fatal
        \/ f.msg.kind = "{" /\ g.pc = "open indent" /\ g.msg = f.msg
        \/ f.msg.kind = "}" /\ g.pc = "close end" /\ g.msg = f.msg

StackOK(t, s) ==
  /\ \A j \in 1 .. Len(s) : FrameOK(t, s[j])
  /\ \A j \in 1 .. Len(s) - 1 : OnTopOf(s[j], s[j + 1])

StacksInv == \A t \in Threads : StackOK(t, stack[t])

ScopesInv == \A t \in Threads : scopes[t] \in Seq(Info .. 9)

PoolInv == stage # "running" => \A t \in Threads \ {Main} : stack[t] = << >> /\ scopes[t] = << >>

LevelInv == \A k \in DOMAIN sinks : k # 1 => sinks[k].verbosity <= max_out

LEMMA PushOK ==
  ASSUME NEW t, NEW s \in Seq(FrameType), StackOK(t, s), NEW f \in FrameType, FrameOK(t, f),
         s # << >> => OnTopOf(f, s[1])
  PROVE  StackOK(t, <<f>> \o s)
<1> DEFINE u == <<f>> \o s
           n == Len(s)
<1>1. Len(u) = n + 1 /\ n \in Nat /\ u[1] = f /\ \A j \in 2 .. n + 1 : u[j] = s[j - 1]
  BY PushFacts
<1>2. n # 0 => s # << >>
  OBVIOUS
<1>3. /\ \A j \in 1 .. n : FrameOK(t, s[j])
      /\ \A j \in 1 .. n - 1 : OnTopOf(s[j], s[j + 1])
  BY DEF StackOK
<1> HIDE DEF u, n
<1>4. ASSUME NEW j \in 1 .. n + 1
      PROVE  FrameOK(t, u[j])
  <2>1. CASE j = 1
    BY <1>1, <2>1
  <2>2. CASE j # 1
    <3>1. j \in 2 .. n + 1 /\ j - 1 \in 1 .. n
      BY <1>1, <2>2
    <3> QED
      BY <1>1, <1>3, <3>1
  <2> QED
    BY <2>1, <2>2
<1>5. ASSUME NEW j \in 1 .. n
      PROVE  OnTopOf(u[j], u[j + 1])
  <2>1. CASE j = 1
    <3>1. u[2] = s[1] /\ s # << >>
      BY <1>1, <1>2, <2>1
    <3> QED
      BY <1>1, <2>1, <3>1
  <2>2. CASE j # 1
    <3>1. j \in 2 .. n + 1 /\ j + 1 \in 2 .. n + 1 /\ j - 1 \in 1 .. n - 1 /\ (j + 1) - 1 = j /\ (j - 1) + 1 = j
      BY <1>1, <2>2
    <3>2. u[j] = s[j - 1] /\ u[j + 1] = s[j]
      BY <1>1, <3>1
    <3>3. OnTopOf(s[j - 1], s[j])
      BY <1>3, <3>1
    <3> QED
      BY <3>2, <3>3
  <2> QED
    BY <2>1, <2>2
<1>6. Len(u) - 1 = n
  BY <1>1
<1>7. StackOK(t, u)
  BY <1>1, <1>4, <1>5, <1>6 DEF StackOK
<1> QED
  BY <1>7 DEF u

LEMMA TailOK ==
  ASSUME NEW t, NEW s \in Seq(FrameType), s # << >>, StackOK(t, s)
  PROVE  /\ StackOK(t, Tail(s)) /\ FrameOK(t, s[1])
         /\ Tail(s) # << >> => OnTopOf(s[1], Tail(s)[1])
<1> DEFINE u == Tail(s)
           n == Len(s)
<1>1. Len(u) = n - 1 /\ n \in Nat \ {0} /\ \A j \in 1 .. n - 1 : u[j] = s[j + 1]
  BY TailFacts
<1>2. u # << >> => n - 1 # 0
  BY <1>1
<1>3. /\ \A j \in 1 .. n : FrameOK(t, s[j])
      /\ \A j \in 1 .. n - 1 : OnTopOf(s[j], s[j + 1])
  BY DEF StackOK
<1> HIDE DEF u, n
<1>4. ASSUME NEW j \in 1 .. n - 1
      PROVE  FrameOK(t, u[j])
  <2>1. j + 1 \in 1 .. n
    BY <1>1
  <2> QED
    BY <1>1, <1>3, <2>1
<1>5. ASSUME NEW j \in 1 .. (n - 1) - 1
      PROVE  OnTopOf(u[j], u[j + 1])
  <2>1. j \in 1 .. n - 1 /\ j + 1 \in 1 .. n - 1
    BY <1>1
  <2>2. u[j] = s[j + 1] /\ u[j + 1] = s[(j + 1) + 1] /\ OnTopOf(s[j + 1], s[(j + 1) + 1])
    BY <1>1, <1>3, <2>1
  <2> QED
    BY <2>2
<1>6. u # << >> => OnTopOf(s[1], u[1])
  <2> SUFFICES ASSUME u # << >>
               PROVE  OnTopOf(s[1], u[1])
    OBVIOUS
  <2>1. 1 \in 1 .. n - 1 /\ 1 + 1 = 2
    BY <1>1, <1>2
  <2>2. u[1] = s[1 + 1]
    BY <1>1, <2>1
  <2> QED
    BY <1>3, <2>1, <2>2
<1>7. FrameOK(t, s[1])
  BY <1>1, <1>3
<1>8. StackOK(t, u)
  BY <1>1, <1>4, <1>5 DEF StackOK
<1> QED
  BY <1>6, <1>7, <1>8 DEF u

LEMMA TurnOK ==
  ASSUME NEW t, NEW s \in Seq(FrameType), s # << >>, StackOK(t, s), NEW g \in FrameType, FrameOK(t, g),
         \A h : OnTopOf(s[1], h) => OnTopOf(g, h)
  PROVE  StackOK(t, [s EXCEPT ![1] = g])
<1>1. Tail(s) \in Seq(FrameType) /\ [s EXCEPT ![1] = g] = <<g>> \o Tail(s)
  OBVIOUS
<1>2. StackOK(t, <<g>> \o Tail(s))
  BY <1>1, TailOK, PushOK
<1> QED
  BY <1>1, <1>2, Zenon

LEMMA InvokeOK ==
  ASSUME NEW t, NEW s \in Seq(FrameType), s # << >>, StackOK(t, s),
         NEW f \in FrameType, FrameOK(t, f), NEW g \in FrameType, FrameOK(t, g), OnTopOf(f, g),
         \A h : OnTopOf(s[1], h) => OnTopOf(g, h)
  PROVE  StackOK(t, <<f, g>> \o Tail(s))
<1>1. Tail(s) \in Seq(FrameType)
  OBVIOUS
<1>2. <<f, g>> \o Tail(s) = <<f>> \o (<<g>> \o Tail(s))
  BY <1>1, TwoAreOneByOne
<1>3. StackOK(t, <<g>> \o Tail(s))
  BY <1>1, TailOK, PushOK
<1>4. <<g>> \o Tail(s) \in Seq(FrameType) /\ (<<g>> \o Tail(s))[1] = g
  BY <1>1, PushFacts
<1> QED
  BY <1>2, <1>3, <1>4, PushOK

LEMMA MoveStacks ==
  ASSUME StackType, StacksInv, NEW t \in Threads, NEW u,
         stack' = [stack EXCEPT ![t] = u], StackOK(t, u)
  PROVE  StacksInv'
<1>1. stack'[t] = u /\ \A o \in Threads \ {t} : stack'[o] = stack[o]
  BY DEF StackType
<1> QED
  BY <1>1 DEF StacksInv

LEMMA TopOK ==
  ASSUME TypeInv, StacksInv, NEW t \in Threads, stack[t] # << >>
  PROVE  FrameOK(t, Top(t)) /\ StackOK(t, stack[t]) /\ stack[t] \in Seq(FrameType)
         /\ Top(t) = stack[t][1] /\ Top(t) \in FrameType
<1>1. StackOK(t, stack[t]) /\ stack[t] \in Seq(FrameType) /\ Top(t) = stack[t][1] /\ Top(t) \in FrameType
  BY TopIsFrame DEF StacksInv, TypeInv
<1>2. FrameOK(t, stack[t][1])
  BY <1>1, TailOK
<1> QED
  BY <1>1, <1>2

LEMMA TurnStacks ==
  ASSUME TypeInv, StacksInv, NEW t \in Threads, stack[t] # << >>, NEW g \in FrameType, Turns(t, g),
         FrameOK(t, g), \A h : OnTopOf(Top(t), h) => OnTopOf(g, h)
  PROVE  StacksInv'
<1>1. StackOK(t, stack[t]) /\ stack[t] \in Seq(FrameType) /\ Top(t) = stack[t][1]
  BY TopOK
<1>2. StackOK(t, [stack[t] EXCEPT ![1] = g])
  BY <1>1, TurnOK
<1> QED
  BY <1>2, MoveStacks DEF Turns, TypeInv

LEMMA InvokeStacks ==
  ASSUME TypeInv, StacksInv, NEW t \in Threads, stack[t] # << >>, NEW f \in FrameType, NEW g \in FrameType,
         Invokes(t, f, g), FrameOK(t, f), FrameOK(t, g), OnTopOf(f, g),
         \A h : OnTopOf(Top(t), h) => OnTopOf(g, h)
  PROVE  StacksInv'
<1>1. StackOK(t, stack[t]) /\ stack[t] \in Seq(FrameType) /\ Top(t) = stack[t][1]
  BY TopOK
<1>2. StackOK(t, <<f, g>> \o Tail(stack[t]))
  BY <1>1, InvokeOK
<1> QED
  BY <1>2, MoveStacks DEF Invokes, TypeInv

LEMMA ReturnStacks ==
  ASSUME TypeInv, StacksInv, NEW t \in Threads, stack[t] # << >>, Return(t)
  PROVE  /\ StacksInv' /\ stack'[t] = Tail(stack[t])
         /\ Tail(stack[t]) # << >> => OnTopOf(Top(t), Top(t)')
<1>1. StackOK(t, stack[t]) /\ stack[t] \in Seq(FrameType) /\ Top(t) = stack[t][1]
  BY TopOK
<1>2. StackOK(t, Tail(stack[t])) /\ (Tail(stack[t]) # << >> => OnTopOf(stack[t][1], Tail(stack[t])[1]))
  BY <1>1, TailOK
<1>3. StacksInv'
  BY <1>2, MoveStacks DEF Return, TypeInv
<1>4. stack'[t] = Tail(stack[t])
  BY DEF Return, TypeInv, StackType
<1>5. Tail(stack[t]) # << >> => Top(t)' = Tail(stack[t])[1]
  BY <1>1, <1>4 DEF Top
<1> QED
  BY <1>1, <1>2, <1>3, <1>4, <1>5

LEMMA PushStacks ==
  ASSUME TypeInv, StacksInv, NEW t \in Threads, NEW f \in FrameType, Push(t, f), FrameOK(t, f),
         stack[t] = << >> \/ f.pc \in InHandler
  PROVE  StacksInv'
<1>1. StackOK(t, stack[t]) /\ stack[t] \in Seq(FrameType)
  BY DEF StacksInv, TypeInv, StackType
<1>2. stack[t] # << >> => OnTopOf(f, stack[t][1])
  BY DEF OnTopOf
<1>3. StackOK(t, <<f>> \o stack[t])
  BY <1>1, <1>2, PushOK
<1> QED
  BY <1>3, MoveStacks DEF Push, TypeInv

LEMMA FormatStacks ==
  ASSUME TypeInv, StacksInv, ScopesInv, NEW t \in Threads, Format(t)
  PROVE  StacksInv'
<1> DEFINE f == Top(t)
           g == [f EXCEPT !.pc = "lock"]
<1>1. stack[t] # << >> /\ f.pc = "format" /\ Goto(t, "lock") /\ "lock" \in PCs /\ StackType
  BY AtTop DEF Format, PCs, Holding, TypeInv
<1>2. g \in FrameType /\ Turns(t, g)
  BY <1>1, GotoTurns
<1>3. FrameOK(t, f) /\ f \in FrameType
  BY <1>1, TopOK
<1>4. g.pc = "lock" /\ g.msg = f.msg /\ g.sink = f.sink
  BY <1>1, <1>3 DEF FrameType
<1> HIDE DEF f, g
<1>5. \A h : OnTopOf(f, h) => OnTopOf(g, h)
  BY <1>1, <1>4 DEF OnTopOf, InHandler, InLog
<1>6. FrameOK(t, g)
  BY <1>1, <1>3, <1>4 DEF FrameOK, InHandler
<1> QED
  BY <1>1, <1>2, <1>5, <1>6, TurnStacks DEF f

LEMMA LockMessageStacks ==
  ASSUME TypeInv, StacksInv, ScopesInv, NEW t \in Threads, LockMessage(t)
  PROVE  StacksInv'
<1> DEFINE f == Top(t)
           p == IF f.msg.verbosity = Fatal THEN "trace" ELSE "write"
           g == [f EXCEPT !.pc = p]
<1>1. stack[t] # << >> /\ f.pc = "lock" /\ Goto(t, p) /\ p \in PCs /\ StackType
      /\ p = IF f.msg.verbosity = Fatal THEN "trace" ELSE "write"
  BY AtTop DEF LockMessage, PCs, Holding, TypeInv
<1> HIDE DEF p
<1>2. g \in FrameType /\ Turns(t, g)
  BY <1>1, GotoTurns
<1>3. FrameOK(t, f) /\ f \in FrameType
  BY <1>1, TopOK
<1>4. g.pc = p /\ g.msg = f.msg /\ g.sink = f.sink
  BY <1>1, <1>3 DEF FrameType
<1> HIDE DEF f, g
<1>5. \A h : OnTopOf(f, h) => OnTopOf(g, h)
  BY <1>1, <1>4 DEF OnTopOf, InHandler, InLog
<1>6. FrameOK(t, g)
  BY <1>1, <1>3, <1>4 DEF FrameOK, InHandler
<1> QED
  BY <1>1, <1>2, <1>5, <1>6, TurnStacks DEF f

LEMMA TraceStacks ==
  ASSUME TypeInv, StacksInv, ScopesInv, NEW t \in Threads, Trace(t)
  PROVE  StacksInv'
<1> DEFINE f == Top(t)
           g == [f EXCEPT !.pc = "write"]
           r == RawLog(t)
<1>1. /\ stack[t] # << >> /\ f.pc = "trace" /\ "write" \in PCs /\ StackType
      /\ Goto(t, "write") \/ CallThen(t, r, "write")
  BY AtTop DEF Trace, PCs, Holding, TypeInv
<1>2. g \in FrameType /\ (Turns(t, g) \/ Invokes(t, r, g))
  BY <1>1, GotoTurns, CallThenInvokes
<1>3. FrameOK(t, f) /\ f \in FrameType
  BY <1>1, TopOK
<1>4. g.pc = "write" /\ g.msg = f.msg /\ g.sink = f.sink
  BY <1>1, <1>3 DEF FrameType
<1>5. r \in FrameType /\ r.pc = "lock" /\ r.sink = 1 /\ r.msg.kind = "trace" /\ r.msg.verbosity = Error /\ r.msg.by = t
  BY RawLogFacts
<1> HIDE DEF f, g, r
<1>6. \A h : OnTopOf(f, h) => OnTopOf(g, h)
  BY <1>1, <1>4 DEF OnTopOf, InHandler, InLog
<1>7. FrameOK(t, g)
  BY <1>1, <1>3, <1>4 DEF FrameOK, InHandler
<1>8. FrameOK(t, r)
  BY <1>5 DEF FrameOK, InHandler, Fatal, Error
<1>9. OnTopOf(r, g)
  BY <1>1, <1>3, <1>4, <1>5 DEF OnTopOf, FrameOK, InLog
<1> QED
  BY <1>1, <1>2, <1>5, <1>6, <1>7, <1>8, <1>9, TurnStacks, InvokeStacks DEF f

LEMMA WriteStacks ==
  ASSUME TypeInv, StacksInv, ScopesInv, NEW t \in Threads, Write(t)
  PROVE  StacksInv'
<1> DEFINE f == Top(t)
           g == [f EXCEPT !.pc = "flush", !.sink = NextSink(f)]
<1>1. stack[t] # << >> /\ f.pc = "write" /\ NextSink(f) = NextSink(Top(t))
  BY AtTop DEF Write
<1>2. g \in FrameType /\ Turns(t, g)
  BY <1>1, WriteForm
<1>3. FrameOK(t, f) /\ f \in FrameType
  BY <1>1, TopOK
<1>4. g.pc = "flush" /\ g.msg = f.msg
  BY <1>1, <1>3 DEF FrameType
<1> HIDE DEF f, g
<1>5. \A h : OnTopOf(f, h) => OnTopOf(g, h)
  BY <1>1, <1>4 DEF OnTopOf, InHandler, InLog
<1>6. FrameOK(t, g)
  BY <1>1, <1>3, <1>4 DEF FrameOK, InHandler
<1> QED
  BY <1>1, <1>2, <1>5, <1>6, TurnStacks DEF f

LEMMA FlushStacks ==
  ASSUME TypeInv, StacksInv, ScopesInv, NEW t \in Threads, Flush(t)
  PROVE  StacksInv'
<1> DEFINE f == Top(t)
           g == [f EXCEPT !.pc = "write", !.sink = f.sink + 1]
<1>1. stack[t] # << >> /\ f.pc = "flush"
  BY AtTop DEF Flush
<1>2. g \in FrameType /\ Turns(t, g)
  BY <1>1, FlushForm
<1>3. FrameOK(t, f) /\ f \in FrameType
  BY <1>1, TopOK
<1>4. g.pc = "write" /\ g.msg = f.msg
  BY <1>1, <1>3 DEF FrameType
<1> HIDE DEF f, g
<1>5. \A h : OnTopOf(f, h) => OnTopOf(g, h)
  BY <1>1, <1>4 DEF OnTopOf, InHandler, InLog
<1>6. FrameOK(t, g)
  BY <1>1, <1>3, <1>4 DEF FrameOK, InHandler
<1> QED
  BY <1>1, <1>2, <1>5, <1>6, TurnStacks DEF f

LEMMA LogReturnsStacks ==
  ASSUME TypeInv, StacksInv, ScopesInv, NEW t \in Threads, LogReturns(t)
  PROVE  StacksInv'
<1>1. stack[t] # << >> /\ Return(t)
  BY AtTop DEF LogReturns, Written
<1> QED
  BY <1>1, ReturnStacks

LEMMA OpenIndentStacks ==
  ASSUME TypeInv, StacksInv, ScopesInv, NEW t \in Threads, OpenIndent(t)
  PROVE  StacksInv'
<1>1. stack[t] # << >> /\ Return(t)
  BY AtTop DEF OpenIndent, Written
<1> QED
  BY <1>1, ReturnStacks

LEMMA CloseReturnsStacks ==
  ASSUME TypeInv, StacksInv, ScopesInv, NEW t \in Threads, CloseReturns(t)
  PROVE  StacksInv'
<1>1. stack[t] # << >> /\ Return(t)
  BY AtTop DEF CloseReturns, Written
<1> QED
  BY <1>1, ReturnStacks

LEMMA FatalEndsStacks ==
  ASSUME TypeInv, StacksInv, ScopesInv, NEW t \in Threads, FatalEnds(t)
  PROVE  StacksInv'
<1>1. stack[t] # << >> /\ (Return(t) \/ UNCHANGED stack)
  BY AtTop DEF FatalEnds, Written
<1> QED
  BY <1>1, ReturnStacks DEF StacksInv

LEMMA OpenBraceStacks ==
  ASSUME TypeInv, StacksInv, ScopesInv, NEW t \in Threads, OpenBrace(t)
  PROVE  StacksInv'
<1> DEFINE f == Top(t)
           h == Frame("format", f.msg)
           g == [f EXCEPT !.pc = "open indent"]
<1>1. /\ stack[t] # << >> /\ f.pc = "open" /\ f \in FrameType
      /\ h \in FrameType /\ h.pc = "format" /\ h.sink = 1 /\ h.msg = f.msg
      /\ g \in FrameType /\ g.pc = "open indent" /\ g.msg = f.msg /\ Invokes(t, h, g)
  BY ScopeForm DEF OpenBrace
<1>2. FrameOK(t, f)
  BY <1>1, TopOK
<1> HIDE DEF f, g, h
<1>3. f.msg.kind = "{" /\ f.msg.by = t /\ f.msg.verbosity \in Info .. 9 /\ f.msg.verbosity # Fatal
  BY <1>1, <1>2 DEF FrameOK
<1>4. FrameOK(t, h)
  BY <1>1, <1>3 DEF FrameOK, InHandler
<1>5. FrameOK(t, g)
  BY <1>1, <1>3 DEF FrameOK, InHandler
<1>6. OnTopOf(h, g)
  BY <1>1, <1>3 DEF OnTopOf, InLog
<1>7. \A o : ~ OnTopOf(f, o)
  BY <1>1 DEF OnTopOf, InHandler, InLog
<1> QED
  BY <1>1, <1>4, <1>5, <1>6, <1>7, InvokeStacks DEF f

LEMMA CloseIndentStacks ==
  ASSUME TypeInv, StacksInv, ScopesInv, NEW t \in Threads, CloseIndent(t)
  PROVE  StacksInv'
<1> DEFINE f == Top(t)
           h == Frame("format", f.msg)
           g == [f EXCEPT !.pc = "close end"]
<1>1. /\ stack[t] # << >> /\ f.pc = "close" /\ f \in FrameType
      /\ h \in FrameType /\ h.pc = "format" /\ h.sink = 1 /\ h.msg = f.msg
      /\ g \in FrameType /\ g.pc = "close end" /\ g.msg = f.msg /\ Invokes(t, h, g)
  BY ScopeForm DEF CloseIndent
<1>2. FrameOK(t, f)
  BY <1>1, TopOK
<1> HIDE DEF f, g, h
<1>3. f.msg.kind = "}" /\ f.msg.by = t /\ f.msg.verbosity \in Info .. 9 /\ f.msg.verbosity # Fatal
  BY <1>1, <1>2 DEF FrameOK
<1>4. FrameOK(t, h)
  BY <1>1, <1>3 DEF FrameOK, InHandler
<1>5. FrameOK(t, g)
  BY <1>1, <1>3 DEF FrameOK, InHandler
<1>6. OnTopOf(h, g)
  BY <1>1, <1>3 DEF OnTopOf, InLog
<1>7. \A o : ~ OnTopOf(f, o)
  BY <1>1 DEF OnTopOf, InHandler, InLog
<1> QED
  BY <1>1, <1>4, <1>5, <1>6, <1>7, InvokeStacks DEF f

LEMMA HandlerFlushesStacks ==
  ASSUME TypeInv, StacksInv, ScopesInv, NEW t \in Threads, HandlerFlushes(t)
  PROVE  StacksInv'
<1> DEFINE f == Top(t)
           h == Frame("format", f.msg)
           g == [f EXCEPT !.pc = "flush and kill"]
<1>1. /\ stack[t] # << >> /\ f.pc = "caught" /\ f \in FrameType
      /\ h \in FrameType /\ h.pc = "format" /\ g \in FrameType /\ g.pc = "flush and kill" /\ Invokes(t, h, g)
  BY HandlerForm
<1>2. FrameOK(t, f)
  BY <1>1, TopOK
<1>3. h.msg = f.msg /\ h.sink = 1 /\ g.msg = f.msg
  BY HandlerForm
<1> HIDE DEF f, g, h
<1>4. FrameOK(t, h)
  BY <1>1, <1>2, <1>3 DEF FrameOK, InHandler
<1>5. FrameOK(t, g)
  BY <1>1, <1>2, <1>3 DEF FrameOK, InHandler
<1>6. OnTopOf(h, g) /\ \A o : OnTopOf(g, o)
  BY <1>1, <1>2, <1>3 DEF OnTopOf, FrameOK, InLog, InHandler
<1> QED
  BY <1>1, <1>4, <1>5, <1>6, InvokeStacks DEF f

LEMMA HandlerFlushesAgainStacks ==
  ASSUME TypeInv, StacksInv, ScopesInv, NEW t \in Threads, HandlerFlushesAgain(t)
  PROVE  StacksInv'
<1> DEFINE f == Top(t)
           g == [f EXCEPT !.pc = "kill"]
<1>1. stack[t] # << >> /\ f.pc = "flush and kill" /\ Goto(t, "kill") /\ "kill" \in PCs /\ StackType
  BY AtTop DEF HandlerFlushesAgain, PCs, Holding, TypeInv
<1>2. g \in FrameType /\ Turns(t, g)
  BY <1>1, GotoTurns
<1>3. FrameOK(t, f) /\ f \in FrameType
  BY <1>1, TopOK
<1>4. g.pc = "kill" /\ g.msg = f.msg /\ g.sink = f.sink
  BY <1>1, <1>3 DEF FrameType
<1> HIDE DEF f, g
<1>5. \A h : OnTopOf(f, h) => OnTopOf(g, h)
  BY <1>1, <1>4 DEF OnTopOf, InHandler, InLog
<1>6. FrameOK(t, g)
  BY <1>1, <1>3, <1>4 DEF FrameOK, InHandler
<1> QED
  BY <1>1, <1>2, <1>5, <1>6, TurnStacks DEF f


(* The frame of a new call. *)
LEMMA NewFrame ==
  ASSUME NEW t \in Threads, NEW p \in PCs, NEW k \in Kinds, NEW v \in Int,
         NEW f, f = Frame(p, Message(t, k, v)) \/ \E b \in LibcStates : f = [Frame(p, Message(t, k, v)) EXCEPT !.in_libc = b]
  PROVE  f \in FrameType /\ f.pc = p /\ f.sink = 1 /\ f.msg.by = t /\ f.msg.kind = k /\ f.msg.verbosity = v
<1> DEFINE m == Message(t, k, v)
<1>1. m \in MessageType /\ m.by = t /\ m.kind = k /\ m.verbosity = v
  BY MessageIsMessage
<1> HIDE DEF m
<1>2. /\ Frame(p, m) \in FrameType
      /\ Frame(p, m).pc = p /\ Frame(p, m).msg = m /\ Frame(p, m).sink = 1
  BY <1>1, FrameIsFrame
<1>3. f = Frame(p, m) \/ \E b \in LibcStates : f = [Frame(p, m) EXCEPT !.in_libc = b]
  BY DEF m
<1>4. f \in FrameType /\ f.pc = p /\ f.msg = m /\ f.sink = 1
  BY <1>2, <1>3 DEF FrameType
<1> QED
  BY <1>1, <1>4

LEMMA LogFStacks ==
  ASSUME TypeInv, StacksInv, ScopesInv, NEW t \in Threads, NEW v \in Messages, LogF(t, v)
  PROVE  StacksInv'
<1> DEFINE f == Frame("format", Message(t, "msg", v))
<1>1. v \in Int /\ "msg" \in Kinds /\ "format" \in PCs /\ v # Fatal
  BY LoguruAssumption DEF Kinds, PCs, Error, Fatal
<1>2. f \in FrameType /\ f.pc = "format" /\ f.sink = 1 /\ f.msg.by = t /\ f.msg.kind = "msg" /\ f.msg.verbosity = v
  BY <1>1, NewFrame
<1>3. stack[t] = << >> /\ (Push(t, f) \/ UNCHANGED stack)
  BY DEF LogF, Calls, Idle, LogAndAbort
<1> HIDE DEF f
<1>4. FrameOK(t, f)
  BY <1>1, <1>2 DEF FrameOK, InHandler, Fatal
<1> QED
  BY <1>2, <1>3, <1>4, PushStacks DEF StacksInv

LEMMA AbortFStacks ==
  ASSUME TypeInv, StacksInv, ScopesInv, NEW t \in Threads, AbortF(t)
  PROVE  StacksInv'
<1> DEFINE f == Frame("format", Message(t, "fatal", Fatal))
<1>1. Fatal \in Int /\ "fatal" \in Kinds /\ "format" \in PCs 
  BY DEF Kinds, PCs, Fatal
<1>2. f \in FrameType /\ f.pc = "format" /\ f.sink = 1 /\ f.msg.by = t /\ f.msg.kind = "fatal" /\ f.msg.verbosity = Fatal
  BY <1>1, NewFrame
<1>3. stack[t] = << >> /\ (Push(t, f) \/ UNCHANGED stack)
  BY DEF AbortF, Calls, Idle, LogAndAbort
<1> HIDE DEF f
<1>4. FrameOK(t, f)
  BY <1>1, <1>2 DEF FrameOK, InHandler, Fatal
<1> QED
  BY <1>2, <1>3, <1>4, PushStacks DEF StacksInv

LEMMA OpenScopeStacks ==
  ASSUME TypeInv, StacksInv, ScopesInv, NEW t \in Threads, NEW v \in Scopes, OpenScope(t, v)
  PROVE  StacksInv'
<1> DEFINE k == "{"
           f == Frame("open", Message(t, k, v))
<1>1. v \in Int /\ k \in Kinds /\ "open" \in PCs /\ v \in Info .. 9 /\ v # Fatal
  BY LoguruAssumption DEF Kinds, PCs, Info, Fatal
<1> HIDE DEF k
<1>2. f \in FrameType /\ f.pc = "open" /\ f.sink = 1 /\ f.msg.by = t /\ f.msg.kind = k /\ f.msg.verbosity = v
  BY <1>1, NewFrame
<1>3. stack[t] = << >> /\ (Push(t, f) \/ UNCHANGED stack)
  BY DEF OpenScope, Calls, Idle, LogAndAbort, k
<1> HIDE DEF f
<1>4. FrameOK(t, f)
  BY <1>1, <1>2 DEF FrameOK, InHandler, Fatal, k
<1> QED
  BY <1>2, <1>3, <1>4, PushStacks DEF StacksInv

LEMMA CloseScopeStacks ==
  ASSUME TypeInv, StacksInv, ScopesInv, NEW t \in Threads, CloseScope(t)
  PROVE  StacksInv'
<1> DEFINE v == Head(scopes[t])
           k == "}"
           f == Frame("close", Message(t, k, v))
<1>1. v \in Int /\ k \in Kinds /\ "close" \in PCs /\ v \in Info .. 9 /\ v # Fatal
  <2>1. scopes[t] \in Seq(Info .. 9) /\ scopes[t] # << >>
    BY DEF CloseScope, ScopesInv
  <2>2. v \in Info .. 9
    BY <2>1, HeadTailProperties
  <2> QED
    BY <2>2 DEF Kinds, PCs, Info, Fatal
<1> HIDE DEF k, v
<1>2. f \in FrameType /\ f.pc = "close" /\ f.sink = 1 /\ f.msg.by = t /\ f.msg.kind = k /\ f.msg.verbosity = v
  BY <1>1, NewFrame
<1>3. stack[t] = << >> /\ (Push(t, f) \/ UNCHANGED stack)
  BY DEF CloseScope, Idle, v, k
<1> HIDE DEF f
<1>4. FrameOK(t, f)
  BY <1>1, <1>2 DEF FrameOK, InHandler, Fatal, k
<1> QED
  BY <1>2, <1>3, <1>4, PushStacks DEF StacksInv

LEMMA SignalStacks ==
  ASSUME TypeInv, StacksInv, ScopesInv, NEW t \in Threads, Signal(t)
  PROVE  StacksInv'
<1> DEFINE F(b) == [Frame("caught", Message(t, "signal", Fatal)) EXCEPT !.in_libc = b]
<1>1. PICK b \in LibcStates : Push(t, F(b))
  BY SignalPushes
<1>2. Fatal \in Int /\ "signal" \in Kinds /\ "caught" \in PCs
  BY DEF Kinds, PCs, Fatal
<1> DEFINE f == F(b)
<1>3. f \in FrameType /\ f.pc = "caught" /\ f.sink = 1 /\ f.msg.by = t /\ f.msg.kind = "signal" /\ f.msg.verbosity = Fatal
  BY <1>2, NewFrame
<1>4. Push(t, f)
  BY <1>1
<1> HIDE DEF f, F
<1>5. FrameOK(t, f) /\ f.pc \in InHandler
  BY <1>3 DEF FrameOK, InHandler
<1> QED
  BY <1>3, <1>4, <1>5, PushStacks

LEMMA SetupStacks ==
  ASSUME TypeInv, StacksInv, NEW v \in {Info, Error}, stack[Main] = << >>, Push(Main, Setup(v))
  PROVE  StacksInv'
<1>1. v \in Int /\ v # Fatal /\ "setup" \in Kinds /\ "format" \in PCs /\ Main \in Threads
  BY DEF Kinds, PCs, Threads, Info, Error, Fatal
<1>2. /\ Setup(v) \in FrameType /\ Setup(v).pc = "format" /\ Setup(v).sink = 1 /\ Setup(v).msg.by = Main
      /\ Setup(v).msg.kind = "setup" /\ Setup(v).msg.verbosity = v
  BY <1>1, NewFrame DEF Setup
<1>3. FrameOK(Main, Setup(v))
  BY <1>1, <1>2 DEF FrameOK, InHandler
<1> QED
  BY <1>1, <1>2, <1>3, PushStacks

-----------------------------------------------------------------------------
(* The last words.  While a fatal message or its stack trace is written,   *)
(* its thread has the mutex: the last lines of every sink are its own.     *)

Reached(f, k) == (f.pc = "write" /\ k < f.sink) \/ (f.pc = "flush" /\ k <= f.sink)

LastIs(s, kind, t) ==
  LET n == Len(s.lines) IN n # 0 /\ s.lines[n].kind = kind /\ s.lines[n].by = t

LastButOneIs(s, kind, t) ==
  LET n == Len(s.lines) IN n > 1 /\ s.lines[n - 1].kind = kind /\ s.lines[n - 1].by = t

(* What the k-th sink s has of the message of f, the innermost call of t. *)
SinkWords(t, f, k, s) ==
  /\ f.pc \in {"write", "flush"} =>
       /\ f.msg.kind = "trace" /\ Reached(f, k) /\ s.verbosity >= Error => LastIs(s, "trace", t)
       /\ f.msg.kind = "fatal" /\ ~ Reached(f, k) /\ s.verbosity >= Error => LastIs(s, "trace", t)
       /\ f.msg.kind = "fatal" /\ Reached(f, k) /\ s.verbosity >= Fatal =>
            LastIs(s, "fatal", t) /\ (s.verbosity >= Error => LastButOneIs(s, "trace", t))
       /\ f.msg.kind = "signal" /\ Reached(f, k) /\ s.verbosity >= Fatal =>
            \E n \in 1 .. Len(s.lines) : s.lines[n].kind = "signal"
  /\ f.pc \in {"flush and kill", "kill"} /\ s.verbosity >= Fatal =>
       \E n \in 1 .. s.flushed : s.lines[n].kind = "signal"

Words(t) == stack[t] # << >> => \A k \in DOMAIN sinks : SinkWords(t, Top(t), k, sinks[k])

WordsInv == \A t \in Threads : Words(t)

(* A step that writes no line. *)
Keeping ==
  /\ DOMAIN sinks' = DOMAIN sinks /\ max_out' = max_out
  /\ \A k \in DOMAIN sinks : /\ sinks'[k].lines = sinks[k].lines /\ sinks'[k].verbosity = sinks[k].verbosity
                             /\ sinks'[k].flushed >= sinks[k].flushed

LEMMA UnchangedKeeps ==
  ASSUME SinksType, UNCHANGED output
  PROVE  Keeping
<1>1. \A k \in DOMAIN sinks : sinks[k] \in SinkType
  BY DEF SinksType
<1>2. \A k \in DOMAIN sinks : sinks[k].flushed \in Nat
  BY <1>1 DEF SinkType
<1> QED
  BY <1>2 DEF Keeping, output

LEMMA SinkAt ==
  ASSUME SinksType, NEW k \in DOMAIN sinks
  PROVE  /\ sinks[k] \in SinkType /\ sinks[k].flushed \in Nat /\ sinks[k].lines \in Seq(LineType)
         /\ Len(sinks[k].lines) \in Nat /\ sinks[k].flushed <= Len(sinks[k].lines)
         /\ sinks[k].verbosity \in Int /\ sinks[k].indentation \in Nat /\ k \in Nat \ {0}
<1>1. sinks[k] \in SinkType /\ sinks[k].flushed <= Len(sinks[k].lines) /\ k \in Nat \ {0}
  BY DEF SinksType
<1>2. sinks[k].flushed \in Nat /\ sinks[k].lines \in Seq(LineType)
      /\ sinks[k].verbosity \in Int /\ sinks[k].indentation \in Nat
  BY <1>1 DEF SinkType
<1> QED
  BY <1>1, <1>2

LEMMA FlushAllKeeps ==
  ASSUME SinksType, FlushAll, UNCHANGED max_out
  PROVE  Keeping /\ \A k \in DOMAIN sinks : sinks'[k].flushed = Len(sinks[k].lines)
<1>1. DOMAIN sinks' = DOMAIN sinks /\ \A k \in DOMAIN sinks : sinks'[k] = Flushed(sinks[k])
  BY DEF FlushAll
<1>2. ASSUME NEW k \in DOMAIN sinks
      PROVE  /\ sinks'[k].lines = sinks[k].lines /\ sinks'[k].verbosity = sinks[k].verbosity
             /\ sinks'[k].flushed = Len(sinks[k].lines) /\ sinks'[k].flushed >= sinks[k].flushed
  BY <1>1, SinkAt, FlushedFacts
<1> QED
  BY <1>1, <1>2 DEF Keeping

LEMMA IndentKeeps ==
  ASSUME SinksType, NEW m \in MessageType, NEW d \in {-1, 1}, Indent(m, d), UNCHANGED max_out
  PROVE  Keeping
<1>1. DOMAIN sinks' = DOMAIN sinks
  BY DEF Indent
<1>2. ASSUME NEW k \in DOMAIN sinks
      PROVE  /\ sinks'[k].lines = sinks[k].lines /\ sinks'[k].verbosity = sinks[k].verbosity
             /\ sinks'[k].flushed >= sinks[k].flushed
  <2>1. sinks[k] \in SinkType /\ sinks[k].flushed \in Nat
    BY SinkAt
  <2>2. sinks'[k] = [sinks[k] EXCEPT !.indentation = sinks[k].indentation + d] \/ sinks'[k] = sinks[k]
    BY DEF Indent
  <2> QED
    BY <2>1, <2>2 DEF SinkType
<1> QED
  BY <1>1, <1>2 DEF Keeping

LEMMA FlushKeeps ==
  ASSUME TypeInv, NEW t \in Threads, Flush(t)
  PROVE  Keeping
<1> DEFINE k == Top(t).sink
<1>1. sinks' = [sinks EXCEPT ![k] = Flushed(sinks[k])] /\ max_out' = max_out
  BY FlushForm DEF Flush
<1> HIDE DEF k
<1>2. DOMAIN sinks' = DOMAIN sinks /\ \A i \in DOMAIN sinks : sinks'[i] = IF i = k THEN Flushed(sinks[i]) ELSE sinks[i]
  BY <1>1
<1>3. ASSUME NEW i \in DOMAIN sinks
      PROVE  /\ sinks'[i].lines = sinks[i].lines /\ sinks'[i].verbosity = sinks[i].verbosity
             /\ sinks'[i].flushed >= sinks[i].flushed
  <2>1. SinksType
    BY DEF TypeInv
  <2> QED
    BY <1>2, <2>1, SinkAt, FlushedFacts
<1> QED
  BY <1>1, <1>2, <1>3 DEF Keeping

LEMMA KeptWords ==
  ASSUME SinksType, SinksType', Keeping, NEW t, NEW f, NEW k \in DOMAIN sinks, SinkWords(t, f, k, sinks[k])
  PROVE  SinkWords(t, f, k, sinks'[k])
<1>1. /\ sinks'[k].lines = sinks[k].lines /\ sinks'[k].verbosity = sinks[k].verbosity
      /\ sinks'[k].flushed >= sinks[k].flushed
  BY DEF Keeping
<1>2. sinks[k].flushed \in Nat /\ sinks'[k].flushed \in Nat
  <2>1. k \in DOMAIN sinks'
    BY DEF Keeping
  <2>2. sinks[k] \in SinkType /\ sinks'[k] \in SinkType
    BY <2>1 DEF SinksType
  <2> QED
    BY <2>2 DEF SinkType
<1>3. 1 .. sinks[k].flushed \subseteq 1 .. sinks'[k].flushed
  BY <1>1, <1>2
<1> QED
  BY <1>1, <1>3, Zenon DEF SinkWords, LastIs, LastButOneIs

(* A line more of another thread, which has the mutex: this one has not. *)
LEMMA LinesOfOthers ==
  ASSUME TypeInv, MutexInv, NEW t \in Threads, Write(t), NEW o \in Threads \ {t}, stack[o] # << >>
  PROVE  Top(o).pc \notin Holding
<1>1. stack[t] # << >> /\ Top(t).pc = "write"
  BY WriteForm
<1>2. stack[t] \in Seq(FrameType) /\ stack[o] \in Seq(FrameType)
  BY DEF TypeInv, StackType
<1>3. Len(stack[t]) \in HeldBy(stack[t])
  <2>1. HeldBy(stack[t]) = HeldBy(Tail(stack[t])) \cup (IF Top(t).pc \in Holding THEN {Len(stack[t])} ELSE {})
    BY <1>1, <1>2, TopNotCounted DEF Top
  <2>2. Top(t).pc \in Holding
    BY <1>1 DEF Holding
  <2> QED
    BY <2>1, <2>2, Zenon
<1>4. mutex.owner = t
  BY <1>3 DEF MutexInv
<1>5. HeldBy(stack[o]) = {}
  BY <1>4 DEF MutexInv
<1>6. HeldBy(stack[o]) = HeldBy(Tail(stack[o])) \cup (IF Top(o).pc \in Holding THEN {Len(stack[o])} ELSE {})
  BY <1>2, TopNotCounted DEF Top
<1> QED
  BY <1>5, <1>6

LEMMA WriteSinks ==
  ASSUME TypeInv, NEW t \in Threads, Write(t), NEW n, n = NextSink(Top(t))
  PROVE  /\ n \in DOMAIN sinks /\ DOMAIN sinks' = DOMAIN sinks /\ max_out' = max_out
         /\ \A k \in DOMAIN sinks \ {n} : sinks'[k] = sinks[k]
         /\ sinks'[n].lines = Append(sinks[n].lines, Line(sinks[n], Top(t).msg))
         /\ sinks'[n].verbosity = sinks[n].verbosity /\ sinks'[n].flushed = sinks[n].flushed
         /\ sinks'[n].indentation = sinks[n].indentation
         /\ Line(sinks[n], Top(t).msg) \in LineType
         /\ Line(sinks[n], Top(t).msg).kind = Top(t).msg.kind /\ Line(sinks[n], Top(t).msg).by = Top(t).msg.by
<1> DEFINE l == Line(sinks[n], Top(t).msg)
           s == [sinks[n] EXCEPT !.lines = Append(sinks[n].lines, l)]
<1>1. n \in DOMAIN sinks /\ sinks' = [sinks EXCEPT ![n] = s] /\ Top(t) \in FrameType
  BY WriteForm
<1>2. sinks[n] \in SinkType /\ sinks[n].flushed <= Len(sinks[n].lines)
  BY <1>1, SinkAt DEF TypeInv
<1>3. l \in LineType
  BY <1>1, <1>2, LineIsLine DEF FrameType
<1>4. /\ s.lines = Append(sinks[n].lines, l) /\ s.verbosity = sinks[n].verbosity
      /\ s.flushed = sinks[n].flushed /\ s.indentation = sinks[n].indentation
  BY <1>2, <1>3, LongerSink
<1>5. l.kind = Top(t).msg.kind /\ l.by = Top(t).msg.by
  BY DEF Line
<1>6. max_out' = max_out
  BY DEF Write
<1> HIDE DEF s
<1>7. DOMAIN sinks' = DOMAIN sinks /\ sinks'[n] = s /\ \A k \in DOMAIN sinks \ {n} : sinks'[k] = sinks[k]
  BY <1>1
<1> QED
  BY <1>1, <1>3, <1>4, <1>5, <1>6, <1>7

LEMMA OthersWords ==
  ASSUME TypeInv, TypeInv', MutexInv, WordsInv, NEW t \in Threads, Keeping \/ Write(t),
         NEW o \in Threads \ {t}, stack'[o] = stack[o]
  PROVE  Words(o)'
<1> SUFFICES ASSUME stack[o] # << >>, NEW k \in DOMAIN sinks'
             PROVE  SinkWords(o, Top(o), k, sinks'[k])
  BY DEF Words, Top
<1>1. CASE Keeping
  BY <1>1, KeptWords DEF WordsInv, Words, Keeping, TypeInv
<1>2. CASE Write(t)
  <2> DEFINE n == NextSink(Top(t))
             f == Top(o)
             l == Line(sinks[n], Top(t).msg)
  <2>1. /\ n \in DOMAIN sinks /\ DOMAIN sinks' = DOMAIN sinks
        /\ \A i \in DOMAIN sinks \ {n} : sinks'[i] = sinks[i]
        /\ sinks'[n].lines = Append(sinks[n].lines, l) /\ l \in LineType
        /\ sinks'[n].verbosity = sinks[n].verbosity /\ sinks'[n].flushed = sinks[n].flushed
    BY <1>2, WriteSinks
  <2>2. f.pc \notin {"write", "flush"}
    BY <1>2, LinesOfOthers DEF Holding
  <2>3. SinkWords(o, f, k, sinks[k])
    BY <2>1 DEF WordsInv, Words
  <2>4. sinks[n].lines \in Seq(LineType) /\ sinks[n].flushed \in Nat /\ sinks[n].flushed <= Len(sinks[n].lines)
    BY <2>1, SinkAt DEF TypeInv
  <2> HIDE DEF n, f, l
  <2>5. \A i \in 1 .. sinks[n].flushed : Append(sinks[n].lines, l)[i] = sinks[n].lines[i]
    BY <2>1, <2>4
  <2>6. SinkWords(o, f, k, sinks'[k])
    <3>1. CASE k = n
      BY <2>1, <2>2, <2>3, <2>5, <3>1 DEF SinkWords
    <3>2. CASE k # n
      BY <2>1, <2>3, <3>2
    <3> QED
      BY <3>1, <3>2
  <2> QED
    BY <2>6 DEF f
<1> QED
  BY <1>1, <1>2

LEMMA TurnsTop ==
  ASSUME StackType, NEW t \in Threads, stack[t] # << >>, NEW g \in FrameType, Turns(t, g)
  PROVE  stack'[t] # << >> /\ Top(t)' = g /\ \A o \in Threads \ {t} : stack'[o] = stack[o]
<1>1. stack'[t] = [stack[t] EXCEPT ![1] = g] /\ stack[t] \in Seq(FrameType)
      /\ \A o \in Threads \ {t} : stack'[o] = stack[o]
  BY DEF Turns, StackType
<1>2. stack'[t] \in Seq(FrameType) /\ Len(stack'[t]) # 0 /\ stack'[t][1] = g
  BY <1>1, TopFacts
<1> QED
  BY <1>1, <1>2 DEF Top

LEMMA InvokesTop ==
  ASSUME StackType, NEW t \in Threads, stack[t] # << >>, NEW f \in FrameType, NEW g \in FrameType, Invokes(t, f, g)
  PROVE  stack'[t] # << >> /\ Top(t)' = f /\ \A o \in Threads \ {t} : stack'[o] = stack[o]
<1>1. stack'[t] = <<f, g>> \o Tail(stack[t]) /\ stack[t] \in Seq(FrameType)
      /\ \A o \in Threads \ {t} : stack'[o] = stack[o]
  BY DEF Invokes, StackType
<1>2. stack'[t] \in Seq(FrameType) /\ Len(stack'[t]) # 0 /\ stack'[t][1] = f
  BY <1>1, CallFacts
<1> QED
  BY <1>1, <1>2 DEF Top

LEMMA PushesTop ==
  ASSUME StackType, NEW t \in Threads, NEW f \in FrameType, Push(t, f)
  PROVE  stack'[t] # << >> /\ Top(t)' = f /\ \A o \in Threads \ {t} : stack'[o] = stack[o]
<1>1. stack'[t] = <<f>> \o stack[t] /\ stack[t] \in Seq(FrameType)
      /\ \A o \in Threads \ {t} : stack'[o] = stack[o]
  BY DEF Push, StackType
<1>2. stack'[t] \in Seq(FrameType) /\ Len(stack'[t]) # 0 /\ stack'[t][1] = f
  BY <1>1, PushFacts
<1> QED
  BY <1>1, <1>2 DEF Top

(* Nothing is said of a call that has not begun to write. *)
LEMMA SilentWords ==
  ASSUME NEW t, stack'[t] = << >> \/ Top(t)'.pc \notin {"write", "flush", "flush and kill", "kill"}
  PROVE  Words(t)'
<1>1. ASSUME NEW f, f.pc \notin {"write", "flush", "flush and kill", "kill"}, NEW k, NEW x
      PROVE  SinkWords(t, f, k, x)
  BY <1>1 DEF SinkWords
<1> QED
  BY <1>1 DEF Words

LEMMA LockWords ==
  ASSUME TypeInv, StacksInv, NEW t \in Threads, LockMessage(t)
  PROVE  Words(t)'
<1> DEFINE f == Top(t)
           p == IF f.msg.verbosity = Fatal THEN "trace" ELSE "write"
           g == [f EXCEPT !.pc = p]
<1>1. stack[t] # << >> /\ f.pc = "lock" /\ Goto(t, p) /\ p \in PCs /\ StackType
  BY AtTop DEF LockMessage, PCs, Holding, TypeInv
<1>2. FrameOK(t, f) /\ f \in FrameType
  BY <1>1, TopOK
<1>3. f.msg.verbosity # Fatal => p = "write" /\ f.msg.kind \notin {"fatal", "signal"}
  BY <1>2 DEF FrameOK
<1>4. f.msg.verbosity = Fatal => p = "trace"
  OBVIOUS
<1> HIDE DEF p
<1>5. g.pc = p /\ g.sink = 1 /\ g.msg = f.msg
  BY <1>1, <1>2 DEF FrameType, FrameOK
<1>6. Top(t)' = g
  BY <1>1, GotoTurns, TurnsTop
<1> HIDE DEF f, g
<1>7. ASSUME NEW k \in Nat \ {0}, NEW s
      PROVE  SinkWords(t, g, k, s)
  <2>1. CASE f.msg.verbosity = Fatal
    BY <1>4, <1>5, <2>1 DEF SinkWords
  <2>2. CASE f.msg.verbosity # Fatal
    <3>1. ~ Reached(g, k)
      BY <1>3, <1>5, <2>2 DEF Reached
    <3> QED
      BY <1>3, <1>5, <2>2, <3>1 DEF SinkWords
  <2> QED
    BY <2>1, <2>2
<1>8. \A k \in DOMAIN sinks : k \in Nat \ {0}
  BY SinkAt DEF TypeInv
<1>9. sinks' = sinks
  BY DEF LockMessage, output
<1> QED
  BY <1>6, <1>7, <1>8, <1>9 DEF Words

(* Without a stack trace no sink takes errors. *)
LEMMA TraceWords ==
  ASSUME TypeInv, StacksInv, LevelInv, NEW t \in Threads, Trace(t)
  PROVE  Words(t)'
<1> DEFINE f == Top(t)
           g == [f EXCEPT !.pc = "write"]
<1>1. /\ stack[t] # << >> /\ f.pc = "trace" /\ StackType /\ SinksType
      /\ sinks' = sinks
  BY AtTop DEF Trace, TypeInv, output
<1>2. CASE CallThen(t, RawLog(t), "write")
  <2>1. "write" \in PCs
    BY DEF PCs, Holding
  <2>2. RawLog(t) \in FrameType /\ RawLog(t).pc = "lock"
    BY RawLogFacts
  <2>3. g \in FrameType /\ Invokes(t, RawLog(t), g)
    BY <1>1, <1>2, <2>1, CallThenInvokes
  <2>4. Top(t)' = RawLog(t)
    BY <1>1, <2>2, <2>3, InvokesTop
  <2> QED
    BY <2>2, <2>4, SilentWords
<1>3. CASE Cutoff < Error /\ Goto(t, "write")
  <2>1. "write" \in PCs
    BY DEF PCs, Holding
  <2>2. g \in FrameType /\ Turns(t, g)
    BY <1>1, <1>3, <2>1, GotoTurns
  <2>3. Top(t)' = g
    BY <1>1, <2>2, TurnsTop
  <2>4. FrameOK(t, f) /\ f \in FrameType
    BY <1>1, TopOK
  <2>5. g.pc = "write" /\ g.sink = 1 /\ g.msg = f.msg /\ f.msg.kind \in {"fatal", "signal"}
    BY <1>1, <2>4 DEF FrameType, FrameOK
  <2>6. ASSUME NEW k \in DOMAIN sinks
        PROVE  sinks[k].verbosity < Error /\ k \in Nat \ {0}
    <3>1. max_out \in Int /\ 1 \in DOMAIN sinks
      BY DEF TypeInv, ControlType, SinksType, Off
    <3>2. sinks[1].verbosity \in Int /\ sinks[k].verbosity \in Int /\ k \in Nat \ {0}
      BY <1>1, <3>1, SinkAt
    <3>3. sinks[1].verbosity <= Cutoff /\ max_out <= Cutoff /\ Cutoff \in Int
      BY <3>1, <3>2 DEF Cutoff
    <3> QED
      BY <1>3, <3>1, <3>2, <3>3 DEF LevelInv, Error
  <2> HIDE DEF g, f
  <2>7. ASSUME NEW k \in DOMAIN sinks
        PROVE  SinkWords(t, g, k, sinks[k])
    <3>1. ~ Reached(g, k)
      BY <2>5, <2>6 DEF Reached
    <3>2. ~ (sinks[k].verbosity >= Error)
      <4>1. sinks[k].verbosity \in Int
        BY <1>1, SinkAt
      <4> QED
        BY <2>6, <4>1 DEF Error
    <3> QED
      BY <2>5, <3>1, <3>2 DEF SinkWords
  <2> QED
    BY <1>1, <2>3, <2>7 DEF Words
<1>4. Cutoff \in Int
  <2>1. max_out \in Int /\ 1 \in DOMAIN sinks
    BY DEF TypeInv, ControlType, SinksType, Off
  <2>2. sinks[1].verbosity \in Int
    BY <1>1, <2>1, SinkAt
  <2> QED
    BY <2>1, <2>2 DEF Cutoff
<1> QED
  BY <1>2, <1>3, <1>4 DEF Trace, Error

LEMMA WriteWords ==
  ASSUME TypeInv, StacksInv, WordsInv, NEW t \in Threads, Write(t)
  PROVE  Words(t)'
<1> DEFINE f == Top(t)
           n == NextSink(f)
           g == [f EXCEPT !.pc = "flush", !.sink = n]
           l == Line(sinks[n], f.msg)
<1>1. /\ stack[t] # << >> /\ f.pc = "write" /\ f \in FrameType /\ n >= f.sink /\ Accepts(sinks[n], f.msg)
      /\ \A i \in DOMAIN sinks : i >= f.sink /\ i < n => ~ Accepts(sinks[i], f.msg)
      /\ g \in FrameType /\ Turns(t, g)
  BY WriteForm
<1>2. /\ n \in DOMAIN sinks /\ DOMAIN sinks' = DOMAIN sinks
      /\ \A k \in DOMAIN sinks \ {n} : sinks'[k] = sinks[k]
      /\ sinks'[n].lines = Append(sinks[n].lines, l) /\ sinks'[n].verbosity = sinks[n].verbosity
      /\ l.kind = f.msg.kind /\ l.by = f.msg.by
  BY WriteSinks
<1>3. FrameOK(t, f) /\ Top(t)' = g
  BY <1>1, TopOK, TurnsTop DEF TypeInv
<1>4. g.pc = "flush" /\ g.sink = n /\ g.msg = f.msg /\ f.sink \in Nat \ {0} /\ f.msg.verbosity \in Int
  BY <1>1 DEF FrameType, MessageType
<1>5. \A k \in DOMAIN sinks : SinkWords(t, f, k, sinks[k])
  BY <1>1 DEF WordsInv, Words
<1> HIDE DEF f, g, n, l
<1>6. /\ f.msg.kind \in {"fatal", "signal"} => f.msg.verbosity = Fatal
      /\ f.msg.kind = "trace" => f.msg.verbosity = Error
      /\ f.msg.by = t
  BY <1>3 DEF FrameOK
<1>7. \A k \in DOMAIN sinks : k \in Nat /\ sinks[k].verbosity \in Int /\ sinks[k].lines \in Seq(LineType)
  BY SinkAt DEF TypeInv
<1>8. ASSUME NEW k \in DOMAIN sinks, k # n
      PROVE  SinkWords(t, g, k, sinks[k])
  <2>1. CASE k < n /\ k >= f.sink
    <3>1. ~ (f.msg.verbosity <= sinks[k].verbosity)
      BY <1>1, <2>1 DEF Accepts
    <3>2. Reached(g, k)
      BY <1>2, <1>4, <1>7, <2>1 DEF Reached
    <3>3. /\ f.msg.kind \in {"fatal", "signal"} => ~ (sinks[k].verbosity >= Fatal)
          /\ f.msg.kind = "trace" => ~ (sinks[k].verbosity >= Error)
      BY <1>6, <1>7, <3>1 DEF Fatal, Error
    <3> QED
      BY <1>4, <3>2, <3>3 DEF SinkWords
  <2>2. CASE ~ (k < n /\ k >= f.sink)
    <3>1. Reached(g, k) <=> Reached(f, k)
      BY <1>1, <1>2, <1>4, <1>7, <1>8, <2>2 DEF Reached
    <3> QED
      BY <1>1, <1>4, <1>5, <3>1 DEF SinkWords
  <2> QED
    BY <2>1, <2>2
<1>9. SinkWords(t, g, n, sinks'[n])
  <2> DEFINE ls == sinks[n].lines
             m == Len(ls)
             new == Append(ls, l)
  <2>1. m \in Nat /\ Len(new) = m + 1 /\ new[m + 1] = l /\ \A i \in 1 .. m : new[i] = ls[i]
    BY <1>2, <1>7
  <2>2. Reached(g, n) /\ ~ Reached(f, n)
    BY <1>1, <1>2, <1>4, <1>7 DEF Reached
  <2>3. sinks'[n].lines = new /\ sinks'[n].verbosity = sinks[n].verbosity
    BY <1>2
  <2>4. SinkWords(t, f, n, sinks[n]) /\ f.msg.kind = "fatal" /\ sinks[n].verbosity >= Error => LastIs(sinks[n], "trace", t)
    BY <1>1, <2>2 DEF SinkWords
  <2>5. SinkWords(t, f, n, sinks[n])
    BY <1>2, <1>5
  <2> HIDE DEF new
  <2>6. LastIs(sinks'[n], l.kind, l.by)
    BY <2>1, <2>3 DEF LastIs
  <2>7. LastIs(sinks[n], "trace", t) => LastButOneIs(sinks'[n], "trace", t)
    <3> SUFFICES ASSUME LastIs(sinks[n], "trace", t)
                 PROVE  LastButOneIs(sinks'[n], "trace", t)
      OBVIOUS
    <3>1. m # 0 /\ ls[m].kind = "trace" /\ ls[m].by = t
      BY DEF LastIs
    <3> HIDE DEF m, ls
    <3>2. m + 1 > 1 /\ (m + 1) - 1 = m /\ new[m] = ls[m]
      BY <2>1, <3>1
    <3> QED
      BY <2>1, <2>3, <3>1, <3>2 DEF LastButOneIs
  <2>8. f.msg.kind = "signal" => \E i \in 1 .. Len(sinks'[n].lines) : sinks'[n].lines[i].kind = "signal"
    <3>1. m + 1 \in 1 .. Len(new)
      BY <2>1
    <3> HIDE DEF m, ls
    <3> QED
      BY <1>2, <2>1, <2>3, <3>1
  <2> QED
    BY <1>2, <1>4, <1>6, <2>2, <2>3, <2>4, <2>5, <2>6, <2>7, <2>8, ZenonT(40) DEF SinkWords
<1> QED
  BY <1>2, <1>3, <1>8, <1>9 DEF Words

LEMMA FlushWords ==
  ASSUME TypeInv, TypeInv', WordsInv, NEW t \in Threads, Flush(t)
  PROVE  Words(t)'
<1> DEFINE f == Top(t)
           g == [f EXCEPT !.pc = "write", !.sink = f.sink + 1]
<1>1. stack[t] # << >> /\ f.pc = "flush" /\ f \in FrameType /\ g \in FrameType /\ Turns(t, g)
  BY FlushForm
<1>2. Top(t)' = g
  BY <1>1, TurnsTop DEF TypeInv
<1>3. g.pc = "write" /\ g.sink = f.sink + 1 /\ g.msg = f.msg /\ f.sink \in Nat
  BY <1>1 DEF FrameType
<1>4. Keeping
  BY FlushKeeps
<1>5. ASSUME NEW k \in DOMAIN sinks
      PROVE  SinkWords(t, f, k, sinks'[k]) /\ k \in Nat
  BY <1>1, <1>4, KeptWords, SinkAt DEF WordsInv, Words, TypeInv
<1> HIDE DEF f, g
<1>6. ASSUME NEW k \in DOMAIN sinks
      PROVE  SinkWords(t, g, k, sinks'[k])
  <2>1. Reached(g, k) <=> Reached(f, k)
    BY <1>1, <1>3, <1>5 DEF Reached
  <2> QED
    BY <1>1, <1>3, <1>5, <2>1 DEF SinkWords
<1> QED
  BY <1>2, <1>4, <1>6 DEF Words, Keeping

(* A message is in all sinks that take it when none is left. *)
LEMMA AllReached ==
  ASSUME TypeInv, StacksInv, NEW t \in Threads, Written(t), NEW k \in DOMAIN sinks,
         sinks[k].verbosity >= Top(t).msg.verbosity
  PROVE  Reached(Top(t), k)
<1> DEFINE f == Top(t)
<1>1. f.pc = "write" /\ f \in FrameType /\ f.sink \in Nat /\ f.msg.verbosity \in Int
  BY AtTop DEF Written
<1>2. NextSink(f) > Len(sinks)
  BY DEF Written
<1> HIDE DEF f
<1>3. \A i \in DOMAIN sinks : i >= f.sink /\ i < NextSink(f) => ~ Accepts(sinks[i], f.msg)
  BY <1>1, NextSinkFacts DEF TypeInv
<1>4. NextSink(f) \in Nat /\ k \in 1 .. Len(sinks) /\ Len(sinks) \in Nat /\ sinks[k].verbosity \in Int
  BY <1>1, NextSinkFacts, SinkAt DEF TypeInv, SinksType
<1>5. k < NextSink(f)
  BY <1>2, <1>4
<1>6. Accepts(sinks[k], f.msg)
  BY <1>1, <1>4 DEF Accepts, f
<1>7. k < f.sink
  BY <1>1, <1>3, <1>4, <1>5, <1>6
<1> QED
  BY <1>1, <1>7 DEF Reached, f

LEMMA LogReturnsWords ==
  ASSUME TypeInv, StacksInv, WordsInv, NEW t \in Threads, LogReturns(t)
  PROVE  Words(t)'
<1> DEFINE f == Top(t)
           g == Top(t)'
<1>1. /\ stack[t] # << >> /\ f.pc = "write" /\ f.msg.verbosity # Fatal /\ Return(t) /\ Written(t)
      /\ sinks' = sinks
  BY AtTop DEF LogReturns, Written, output
<1>2. /\ StacksInv' /\ stack'[t] = Tail(stack[t]) /\ (Tail(stack[t]) # << >> => OnTopOf(f, g))
  BY <1>1, ReturnStacks
<1>3. CASE Tail(stack[t]) = << >>
  BY <1>2, <1>3, SilentWords
<1>4. CASE Tail(stack[t]) # << >>
  <2>1. FrameOK(t, f) /\ FrameOK(t, g)
    <3>1. FrameOK(t, f) /\ stack[t] \in Seq(FrameType) /\ StackOK(t, stack[t])
      BY <1>1, TopOK
    <3>2. Tail(stack[t]) \in Seq(FrameType) /\ StackOK(t, Tail(stack[t]))
      BY <1>1, <3>1, TailOK
    <3>3. FrameOK(t, Tail(stack[t])[1])
      BY <1>4, <3>2, TailOK
    <3>4. Head(Tail(stack[t])) = Tail(stack[t])[1]
      BY <1>4, <3>2
    <3>5. g = Tail(stack[t])[1]
      BY <1>2, <3>4 DEF Top
    <3> QED
      BY <3>1, <3>3, <3>5
  <2>2. OnTopOf(f, g)
    BY <1>2, <1>4
  <2>3. f.msg.kind # "signal"
    BY <1>1, <2>1 DEF FrameOK
  <2>4. CASE f.msg.kind # "trace"
    <3>1. g.pc \in {"open indent", "close end"}
      BY <1>1, <2>2, <2>3, <2>4 DEF OnTopOf, InHandler
    <3> QED
      BY <3>1, SilentWords
  <2>5. CASE f.msg.kind = "trace"
    <3>1. g.pc = "write" /\ g.sink = 1 /\ f.msg.verbosity = Error
      BY <1>1, <2>1, <2>2, <2>5 DEF OnTopOf, FrameOK, InHandler
    <3>2. ASSUME NEW k \in DOMAIN sinks
          PROVE  /\ ~ Reached(g, k)
                 /\ sinks[k].verbosity >= Error => LastIs(sinks[k], "trace", t)
      <4>1. k \in Nat \ {0}
        BY SinkAt DEF TypeInv
      <4>2. sinks[k].verbosity >= Error => Reached(f, k)
        BY <1>1, <3>1, AllReached
      <4>3. SinkWords(t, f, k, sinks[k])
        BY <1>1 DEF WordsInv, Words
      <4> HIDE DEF f, g
      <4>4. ~ Reached(g, k)
        BY <3>1, <4>1 DEF Reached
      <4> QED
        BY <1>1, <2>5, <4>2, <4>3, <4>4 DEF SinkWords
    <3>3. g.msg.verbosity = Fatal /\ g.msg.kind \in {"fatal", "signal"}
      BY <1>1, <2>1, <2>2, <2>5 DEF OnTopOf, FrameOK, InHandler
    <3> HIDE DEF f, g
    <3>4. \A k \in DOMAIN sinks : SinkWords(t, g, k, sinks[k])
      BY <3>1, <3>2, <3>3 DEF SinkWords
    <3> QED
      BY <1>1, <3>4 DEF Words, g
  <2> QED
    BY <2>4, <2>5
<1> QED
  BY <1>3, <1>4

LEMMA FatalEndsWords ==
  ASSUME TypeInv, TypeInv', StacksInv, WordsInv, NEW t \in Threads, FatalEnds(t)
  PROVE  Words(t)'
<1> DEFINE f == Top(t)
           g == Top(t)'
<1>1. stack[t] # << >> /\ f.pc = "write" /\ f.msg.verbosity = Fatal /\ Written(t)
  BY AtTop DEF FatalEnds, Written
<1>2. Keeping /\ \A k \in DOMAIN sinks : sinks'[k].flushed = Len(sinks[k].lines)
  BY FlushAllKeeps DEF FatalEnds, TypeInv
<1>3. CASE f.msg.kind = "signal"
  <2>1. Return(t)
    BY <1>3 DEF FatalEnds
  <2>2. /\ stack'[t] = Tail(stack[t]) /\ (Tail(stack[t]) # << >> => OnTopOf(f, g))
    BY <1>1, <2>1, ReturnStacks
  <2>3. CASE Tail(stack[t]) = << >>
    BY <2>2, <2>3, SilentWords
  <2>4. CASE Tail(stack[t]) # << >>
    <3>1. g.pc = "flush and kill"
      BY <1>1, <1>3, <2>2, <2>4 DEF OnTopOf, InHandler
    <3>2. ASSUME NEW k \in DOMAIN sinks, sinks[k].verbosity >= Fatal
          PROVE  \E n \in 1 .. sinks'[k].flushed : sinks'[k].lines[n].kind = "signal"
      <4>1. Reached(f, k)
        BY <1>1, <3>2, AllReached
      <4>2. SinkWords(t, f, k, sinks[k])
        BY <1>1 DEF WordsInv, Words
      <4> HIDE DEF f
      <4>3. \E n \in 1 .. Len(sinks[k].lines) : sinks[k].lines[n].kind = "signal"
        BY <1>1, <1>3, <3>2, <4>1, <4>2 DEF SinkWords
      <4> QED
        BY <1>2, <4>3 DEF Keeping
    <3>3. \A k \in DOMAIN sinks' : SinkWords(t, g, k, sinks'[k])
      BY <1>2, <3>1, <3>2 DEF SinkWords, Keeping
    <3> QED
      BY <3>3 DEF Words
  <2> QED
    BY <2>3, <2>4
<1>4. CASE f.msg.kind # "signal"
  <2>1. stack' = stack
    BY <1>4 DEF FatalEnds
  <2>2. \A k \in DOMAIN sinks : SinkWords(t, f, k, sinks'[k])
    BY <1>1, <1>2, KeptWords DEF WordsInv, Words, TypeInv
  <2>3. DOMAIN sinks' = DOMAIN sinks
    BY <1>2 DEF Keeping
  <2> QED
    BY <2>1, <2>2, <2>3 DEF Words, Top
<1> QED
  BY <1>3, <1>4

LEMMA HandlerFlushesAgainWords ==
  ASSUME TypeInv, TypeInv', WordsInv, NEW t \in Threads, HandlerFlushesAgain(t)
  PROVE  Words(t)'
<1> DEFINE f == Top(t)
           g == [f EXCEPT !.pc = "kill"]
<1>1. stack[t] # << >> /\ f.pc = "flush and kill" /\ Goto(t, "kill") /\ "kill" \in PCs /\ StackType
  BY AtTop DEF HandlerFlushesAgain, PCs, TypeInv
<1>2. Top(t)' = g /\ f \in FrameType
  BY <1>1, GotoTurns, TurnsTop, TopIsFrame
<1>3. Keeping
  BY FlushAllKeeps DEF HandlerFlushesAgain, TypeInv
<1>4. \A k \in DOMAIN sinks : SinkWords(t, f, k, sinks'[k])
  BY <1>1, <1>3, KeptWords DEF WordsInv, Words, TypeInv
<1>5. g.pc = "kill"
  BY <1>2 DEF FrameType
<1> HIDE DEF f, g
<1>6. \A k \in DOMAIN sinks : SinkWords(t, g, k, sinks'[k])
  BY <1>1, <1>4, <1>5 DEF SinkWords
<1> QED
  BY <1>2, <1>3, <1>6 DEF Words, Keeping

(* The steps after which the call on top has yet to write. *)
LEMMA SilentSteps ==
  ASSUME TypeInv, StacksInv, NEW t \in Threads,
         Format(t) \/ OpenBrace(t) \/ CloseIndent(t) \/ HandlerFlushes(t)
  PROVE  Words(t)'
<1>1. CASE Format(t)
  <2>1. stack[t] # << >> /\ Goto(t, "lock") /\ "lock" \in PCs /\ StackType /\ Top(t) \in FrameType
    BY <1>1, AtTop DEF Format, PCs, TypeInv
  <2>2. Top(t)' = [Top(t) EXCEPT !.pc = "lock"]
    BY <2>1, GotoTurns, TurnsTop
  <2>3. [Top(t) EXCEPT !.pc = "lock"].pc = "lock"
    BY <2>1 DEF FrameType
  <2> QED
    BY <2>2, <2>3, SilentWords
<1>2. CASE OpenBrace(t)
  <2>1. Top(t)'.pc = "format"
    BY <1>2, ScopeForm, InvokesTop, ZenonT(40) DEF OpenBrace, TypeInv
  <2> QED
    BY <2>1, SilentWords
<1>3. CASE CloseIndent(t)
  <2> DEFINE h == Frame("format", Top(t).msg)
             g == [Top(t) EXCEPT !.pc = "close end"]
  <2>2. At(t, "close") /\ CallThen(t, h, "close end") /\ StackType
    BY <1>3 DEF CloseIndent, TypeInv
  <2>3. stack[t] # << >> /\ h \in FrameType /\ h.pc = "format" /\ g \in FrameType /\ Invokes(t, h, g)
    BY <2>2, ScopeForm
  <2> HIDE DEF g, h
  <2>1. Top(t)'.pc = "format"
    BY <2>2, <2>3, InvokesTop
  <2> QED
    BY <2>1, SilentWords
<1>4. CASE HandlerFlushes(t)
  <2> DEFINE h == Frame("format", Top(t).msg)
             g == [Top(t) EXCEPT !.pc = "flush and kill"]
  <2>2. stack[t] # << >> /\ h \in FrameType /\ h.pc = "format" /\ g \in FrameType /\ Invokes(t, h, g) /\ StackType
    BY <1>4, HandlerForm DEF TypeInv
  <2> HIDE DEF g, h
  <2>1. Top(t)'.pc = "format"
    BY <2>2, InvokesTop
  <2> QED
    BY <2>1, SilentWords
<1> QED
  BY <1>1, <1>2, <1>3, <1>4

LEMMA ScopeReturns ==
  ASSUME TypeInv, StacksInv, NEW t \in Threads, OpenIndent(t) \/ CloseReturns(t)
  PROVE  stack'[t] = << >>
<1>1. stack[t] # << >> /\ Return(t) /\ Top(t).pc \in {"open indent", "close end"}
  BY AtTop DEF OpenIndent, CloseReturns
<1>2. \A h : ~ OnTopOf(Top(t), h)
  BY <1>1 DEF OnTopOf, InHandler, InLog
<1> QED
  BY <1>1, <1>2, ReturnStacks

LEMMA HeadOfPush ==
  ASSUME NEW F, NEW s \in Seq(F), NEW f \in F
  PROVE  Head(<<f>> \o s) = f
OBVIOUS

LEMMA NewCallWords ==
  ASSUME StackType, NEW t \in Threads, NEW p, p \notin {"write", "flush", "flush and kill", "kill"}, NEW m,
         NEW f, f = Frame(p, m) \/ \E b \in LibcStates : f = [Frame(p, m) EXCEPT !.in_libc = b],
         Push(t, f)
  PROVE  Words(t)' /\ \A o \in Threads \ {t} : stack'[o] = stack[o]
<1>1. f.pc = p
  <2>1. CASE f = Frame(p, m)
    BY <2>1 DEF Frame
  <2>2. CASE \E b \in LibcStates : f = [Frame(p, m) EXCEPT !.in_libc = b]
    BY <2>2 DEF Frame
  <2> QED
    BY <2>1, <2>2
<1>2. stack'[t] = <<f>> \o stack[t] /\ stack[t] \in Seq(FrameType)
      /\ \A o \in Threads \ {t} : stack'[o] = stack[o]
  BY DEF Push, StackType
<1> DEFINE F == FrameType \cup {f}
<1>3. stack[t] \in Seq(F) /\ f \in F
  BY <1>2, SeqMonotonic
<1> HIDE DEF F
<1>4. Head(<<f>> \o stack[t]) = f
  BY <1>3, HeadOfPush
<1>5. Top(t)' = f
  BY <1>2, <1>4 DEF Top
<1> QED
  BY <1>1, <1>2, <1>5, SilentWords

(* Every step of a thread is one on its own stack. *)
LEMMA OwnStack ==
  ASSUME TypeInv, NEW t \in Threads, InCall(t)
  PROVE  \A o \in Threads \ {t} : stack'[o] = stack[o]
<1> DEFINE Own == \A o \in Threads \ {t} : stack'[o] = stack[o]
<1>1. \A u : stack' = [stack EXCEPT ![t] = u] => Own
  BY DEF TypeInv, StackType
<1>2. Return(t) => Own
  BY <1>1 DEF Return
<1>3. \A p : Goto(t, p) => Own
  BY DEF TypeInv, StackType, Goto
<1>4. \A f, p : CallThen(t, f, p) => Own
  BY <1>1 DEF CallThen
<1>5. Write(t) => Own
  BY DEF Write, TypeInv, StackType
<1>6. Flush(t) => Own
  BY DEF Flush, TypeInv, StackType
<1>7. UNCHANGED stack => Own
  OBVIOUS
<1> HIDE DEF Own
<1>8. /\ Format(t) \/ LockMessage(t) \/ HandlerFlushesAgain(t) => \E p : Goto(t, p)
      /\ Trace(t) => (\E p : Goto(t, p)) \/ \E f, p : CallThen(t, f, p)
      /\ OpenBrace(t) \/ CloseIndent(t) \/ HandlerFlushes(t) => \E f, p : CallThen(t, f, p)
      /\ LogReturns(t) \/ OpenIndent(t) \/ CloseReturns(t) => Return(t)
      /\ FatalEnds(t) => Return(t) \/ UNCHANGED stack
      /\ CallDefaultHandler(t) => UNCHANGED stack
  BY DEF Format, LockMessage, HandlerFlushesAgain, Trace, OpenBrace, CloseIndent, HandlerFlushes,
         LogReturns, OpenIndent, CloseReturns, FatalEnds, CallDefaultHandler
<1>9. Own
  BY <1>2, <1>3, <1>4, <1>5, <1>6, <1>7, <1>8 DEF InCall
<1> QED
  BY <1>9 DEF Own

(* Lines are written by Write only. *)
LEMMA OthersKeep ==
  ASSUME TypeInv, NEW t \in Threads, InCall(t)
  PROVE  Keeping \/ Write(t)
<1>1. SinksType
  BY DEF TypeInv
<1>2. UNCHANGED output => Keeping
  BY <1>1, UnchangedKeeps
<1>3. FlushAll /\ UNCHANGED max_out => Keeping
  BY <1>1, FlushAllKeeps
<1>4. ASSUME OpenIndent(t) \/ CloseIndent(t)
      PROVE  Keeping
  <2>1. Top(t).msg \in MessageType
    BY <1>4, AtTop DEF OpenIndent, CloseIndent
  <2>2. max_out' = max_out /\ \E d \in {-1, 1} : Indent(Top(t).msg, d)
    BY <1>4 DEF OpenIndent, CloseIndent
  <2> QED
    BY <1>1, <2>1, <2>2, IndentKeeps
<1>5. Flush(t) => Keeping
  BY FlushKeeps
<1>6. /\ Format(t) \/ LockMessage(t) \/ Trace(t) \/ LogReturns(t) \/ OpenBrace(t) \/ CloseReturns(t)
         \/ CallDefaultHandler(t) => UNCHANGED output
      /\ FatalEnds(t) \/ HandlerFlushes(t) \/ HandlerFlushesAgain(t) => FlushAll /\ UNCHANGED max_out
  BY DEF Format, LockMessage, Trace, LogReturns, OpenBrace, CloseReturns, CallDefaultHandler,
         FatalEnds, HandlerFlushes, HandlerFlushesAgain
<1> QED
  BY <1>2, <1>3, <1>4, <1>5, <1>6, Zenon DEF InCall

ThreadStep(t) ==
  \/ InCall(t) \/ AbortF(t) \/ CloseScope(t) \/ Signal(t)
  \/ \E v \in Messages : LogF(t, v)
  \/ \E v \in Scopes : OpenScope(t, v)

MainStep == InitLoguru \/ SetLoglevel \/ AddFile \/ StartThreads \/ Exit

LEMMA TwoKinds == Next <=> MainStep \/ \E t \in Threads : ThreadStep(t)
BY DEF Next, MainStep, ThreadStep

(* What is true of a step of any thread. *)
LEMMA ThreadStepFacts ==
  ASSUME TypeInv, NEW t \in Threads, ThreadStep(t)
  PROVE  /\ Keeping \/ Write(t)
         /\ \A o \in Threads \ {t} : stack'[o] = stack[o] /\ scopes'[o] = scopes[o]
         /\ stage' = stage
         /\ InCall(t) \/ OpenIndent(t) \/ CloseScope(t) \/ scopes' = scopes
         /\ stack[t] # << >> \/ stage = "running" \/ t = Main \/ scopes[t] # << >>
<1>1. SinksType /\ stack \in [Threads -> Seq(FrameType)] /\ scopes \in [Threads -> Seq(Int)]
  BY DEF TypeInv, StackType, ControlType
<1>2. CASE InCall(t)
  <2>1. \A o \in Threads \ {t} : scopes'[o] = scopes[o]
    BY <1>1, <1>2 DEF InCall, Format, LockMessage, Trace, Write, Flush, LogReturns, FatalEnds, OpenBrace, OpenIndent,
       CloseIndent, CloseReturns, HandlerFlushes, HandlerFlushesAgain, CallDefaultHandler, thread
  <2>2. stage' = stage /\ stack[t] # << >>
    BY <1>2 DEF InCall, Format, LockMessage, Trace, Write, Flush, LogReturns, FatalEnds, OpenBrace, OpenIndent,
       CloseIndent, CloseReturns, HandlerFlushes, HandlerFlushesAgain, CallDefaultHandler, At, Written
  <2> QED
    BY <1>2, <2>1, <2>2, OwnStack, OthersKeep
<1>3. CASE ~ InCall(t)
  <2>1. UNCHANGED output /\ stage' = stage
    BY <1>3 DEF ThreadStep, AbortF, CloseScope, Signal, LogF, OpenScope
  <2>2. \A o \in Threads \ {t} : stack'[o] = stack[o]
    BY <1>1, <1>3 DEF ThreadStep, AbortF, CloseScope, Signal, LogF, OpenScope, LogAndAbort, Push
  <2>3. \A o \in Threads \ {t} : scopes'[o] = scopes[o]
    BY <1>1, <1>3 DEF ThreadStep, AbortF, CloseScope, Signal, LogF, OpenScope, thread
  <2>4. CloseScope(t) \/ scopes' = scopes
    BY <1>3 DEF ThreadStep, AbortF, Signal, LogF, OpenScope, thread
  <2>5. stage = "running" \/ t = Main \/ scopes[t] # << >>
    BY <1>3 DEF ThreadStep, AbortF, CloseScope, Signal, LogF, OpenScope, Calls
  <2> QED
    BY <1>1, <2>1, <2>2, <2>3, <2>4, <2>5, UnchangedKeeps
<1> QED
  BY <1>2, <1>3

LEMMA StepStacks ==
  ASSUME TypeInv, StacksInv, ScopesInv, [Next]_vars
  PROVE  StacksInv'
<1>1. ASSUME NEW t \in Threads, InCall(t)
      PROVE  StacksInv'
  <2>1. CallDefaultHandler(t) => StacksInv'
    BY DEF CallDefaultHandler, StacksInv
  <2> QED
    BY <1>1, <2>1, FormatStacks, LockMessageStacks, TraceStacks, WriteStacks, FlushStacks, LogReturnsStacks,
       FatalEndsStacks, OpenBraceStacks, OpenIndentStacks, CloseIndentStacks, CloseReturnsStacks,
       HandlerFlushesStacks, HandlerFlushesAgainStacks DEF InCall
<1>2. ASSUME NEW t \in Threads, ThreadStep(t), ~ InCall(t)
      PROVE  StacksInv'
  BY <1>2, AbortFStacks, CloseScopeStacks, SignalStacks, LogFStacks, OpenScopeStacks DEF ThreadStep
<1>3. ASSUME MainStep
      PROVE  StacksInv'
  <2>1. InitLoguru \/ AddFile => stack[Main] = << >> /\ \E v \in {Info, Error} : Push(Main, Setup(v))
    BY DEF InitLoguru, AddFile, Idle
  <2>2. SetLoglevel \/ StartThreads \/ Exit => StacksInv'
    BY DEF SetLoglevel, StartThreads, Exit, StacksInv
  <2> QED
    BY <1>3, <2>1, <2>2, SetupStacks DEF MainStep
<1>4. CASE UNCHANGED vars
  BY <1>4 DEF vars, StacksInv
<1> QED
  BY <1>1, <1>2, <1>3, <1>4, TwoKinds

LEMMA StepScopes ==
  ASSUME TypeInv, StacksInv, ScopesInv, [Next]_vars
  PROVE  ScopesInv'
<1>1. scopes \in [Threads -> Seq(Int)]
  BY DEF TypeInv, ControlType
<1>2. ASSUME NEW t \in Threads, OpenIndent(t)
      PROVE  ScopesInv'
  <2>1. stack[t] # << >> /\ Top(t).pc = "open indent"
    BY <1>2, AtTop DEF OpenIndent
  <2>2. Top(t).msg.verbosity \in Info .. 9
    BY <2>1, TopOK DEF FrameOK
  <2>3. scopes' = [scopes EXCEPT ![t] = <<Top(t).msg.verbosity>> \o scopes[t]]
    BY <1>2 DEF OpenIndent
  <2>4. <<Top(t).msg.verbosity>> \o scopes[t] \in Seq(Info .. 9)
    BY <2>2, PushFacts DEF ScopesInv
  <2> QED
    BY <1>1, <2>3, <2>4 DEF ScopesInv
<1>3. ASSUME NEW t \in Threads, CloseScope(t)
      PROVE  ScopesInv'
  <2>1. scopes' = [scopes EXCEPT ![t] = Tail(scopes[t])] /\ scopes[t] # << >>
    BY <1>3 DEF CloseScope
  <2>2. Tail(scopes[t]) \in Seq(Info .. 9)
    BY <2>1, HeadTailProperties DEF ScopesInv
  <2> QED
    BY <1>1, <2>1, <2>2 DEF ScopesInv
<1>4. ASSUME NEW t \in Threads, ThreadStep(t), ~ OpenIndent(t), ~ CloseScope(t)
      PROVE  scopes' = scopes
  BY <1>4 DEF ThreadStep, InCall, Format, LockMessage, Trace, Write, Flush, LogReturns, FatalEnds, OpenBrace,
     CloseIndent, CloseReturns, HandlerFlushes, HandlerFlushesAgain, CallDefaultHandler, thread,
     AbortF, Signal, LogF, OpenScope
<1>5. MainStep => scopes' = scopes
  BY DEF MainStep, InitLoguru, SetLoglevel, AddFile, StartThreads, Exit, thread
<1>6. UNCHANGED vars => scopes' = scopes
  BY DEF vars, thread
<1>7. scopes' = scopes => ScopesInv'
  BY DEF ScopesInv
<1> QED
  BY <1>2, <1>3, <1>4, <1>5, <1>6, <1>7, TwoKinds

LEMMA StepPool ==
  ASSUME TypeInv, PoolInv, [Next]_vars
  PROVE  PoolInv'
<1>1. ASSUME NEW t \in Threads, ThreadStep(t)
      PROVE  PoolInv'
  <2> SUFFICES ASSUME stage # "running"
               PROVE  \A o \in Threads \ {Main} : stack'[o] = << >> /\ scopes'[o] = << >>
    BY <1>1, ThreadStepFacts DEF PoolInv
  <2>1. t = Main
    BY <1>1, ThreadStepFacts DEF PoolInv
  <2> QED
    BY <1>1, <2>1, ThreadStepFacts DEF PoolInv
<1>2. ASSUME MainStep
      PROVE  PoolInv'
  <2>1. \A o \in Threads \ {Main} : stack'[o] = stack[o] /\ scopes'[o] = scopes[o]
    BY <1>2 DEF MainStep, InitLoguru, SetLoglevel, AddFile, StartThreads, Exit, thread, Push, TypeInv, StackType
  <2>2. stage' # "running" => stage # "running"
    BY <1>2 DEF MainStep, InitLoguru, SetLoglevel, AddFile, StartThreads, Exit
  <2> QED
    BY <2>1, <2>2 DEF PoolInv
<1>3. CASE UNCHANGED vars
  BY <1>3 DEF vars, thread, PoolInv
<1> QED
  BY <1>1, <1>2, <1>3, TwoKinds

LEMMA StepLevel ==
  ASSUME TypeInv, LevelInv, [Next]_vars
  PROVE  LevelInv'
<1>1. ASSUME DOMAIN sinks' = DOMAIN sinks, max_out' = max_out,
             \A k \in DOMAIN sinks : sinks'[k].verbosity = sinks[k].verbosity
      PROVE  LevelInv'
  BY <1>1 DEF LevelInv
<1>2. Keeping => LevelInv'
  BY <1>1 DEF Keeping
<1>3. ASSUME NEW t \in Threads, ThreadStep(t)
      PROVE  LevelInv'
  <2>1. CASE Write(t)
    <3> DEFINE n == NextSink(Top(t))
    <3>1. /\ n \in DOMAIN sinks /\ DOMAIN sinks' = DOMAIN sinks /\ max_out' = max_out
          /\ \A k \in DOMAIN sinks \ {n} : sinks'[k] = sinks[k]
          /\ sinks'[n].verbosity = sinks[n].verbosity
      BY <2>1, WriteSinks
    <3> HIDE DEF n
    <3> QED
      BY <1>1, <3>1
  <2> QED
    BY <1>2, <1>3, <2>1, ThreadStepFacts
<1>4. ASSUME MainStep
      PROVE  LevelInv'
  <2>1. InitLoguru \/ StartThreads => Keeping
    BY UnchangedKeeps DEF InitLoguru, StartThreads, TypeInv
  <2>2. Exit => Keeping
    BY FlushAllKeeps DEF Exit, TypeInv
  <2>3. CASE SetLoglevel
    <3>1. DOMAIN sinks' = DOMAIN sinks /\ max_out' = max_out /\ \A k \in DOMAIN sinks : k # 1 => sinks'[k] = sinks[k]
      BY <2>3 DEF SetLoglevel
    <3> QED
      BY <3>1 DEF LevelInv
  <2>4. CASE AddFile
    <3>1. UNCHANGED output => LevelInv'
      BY UnchangedKeeps, <1>2 DEF TypeInv
    <3>2. ASSUME AddCallback(Head(files))
          PROVE  LevelInv'
      <4> DEFINE v == Head(files)
                 n == Len(sinks)
      <4>1. v \in Int /\ max_out \in Int /\ sinks \in Seq(SinkType) /\ n \in Nat
        <5>1. files \in Seq(Fatal .. 9) /\ files # << >>
          BY <2>4 DEF AddFile, TypeInv, ControlType
        <5>2. v \in Fatal .. 9
          BY <5>1, HeadTailProperties
        <5> QED
          BY <5>2, SMTT(30) DEF TypeInv, ControlType, SinksType, Fatal, Off
      <4>2. sinks' = Append(sinks, Sink(v)) /\ max_out' = IF v > max_out THEN v ELSE max_out
        BY <3>2 DEF AddCallback
      <4> HIDE DEF v
      <4>3. Sink(v) \in SinkType /\ Sink(v).verbosity = v
        BY <4>1 DEF Sink, SinkType
      <4>4. DOMAIN sinks' = DOMAIN sinks \cup {n + 1} /\ sinks'[n + 1] = Sink(v)
            /\ \A k \in DOMAIN sinks : sinks'[k] = sinks[k]
        BY <4>1, <4>2, <4>3, AppendProperties
      <4>5. v <= max_out' /\ max_out <= max_out' /\ max_out' \in Int
        BY <4>1, <4>2
      <4>6. \A k \in DOMAIN sinks : sinks[k].verbosity \in Int
        BY SinkAt DEF TypeInv
      <4> HIDE DEF n
      <4>7. ASSUME NEW k \in DOMAIN sinks, k # 1
            PROVE  sinks'[k].verbosity <= max_out'
        BY <4>1, <4>4, <4>5, <4>6, <4>7 DEF LevelInv
      <4> QED
        BY <4>3, <4>4, <4>5, <4>7 DEF LevelInv
    <3> QED
      BY <2>4, <3>1, <3>2 DEF AddFile
  <2> QED
    BY <1>2, <1>4, <2>1, <2>2, <2>3, <2>4 DEF MainStep
<1>5. CASE UNCHANGED vars
  BY <1>5 DEF vars, output, LevelInv
<1> QED
  BY <1>3, <1>4, <1>5, TwoKinds

LEMMA StepWords ==
  ASSUME TypeInv, TypeInv', MutexInv, StacksInv, PoolInv, LevelInv, WordsInv, [Next]_vars
  PROVE  WordsInv'
<1>1. ASSUME NEW t \in Threads, ThreadStep(t)
      PROVE  WordsInv'
  <2>1. \A o \in Threads \ {t} : Words(o)'
    BY <1>1, ThreadStepFacts, OthersWords
  <2>2. stack' = stack /\ sinks' = sinks => Words(t)'
    BY DEF WordsInv, Words, Top
  <2>3. OpenIndent(t) \/ CloseReturns(t) => Words(t)'
    BY ScopeReturns, SilentWords
  <2>4. CallDefaultHandler(t) => Words(t)'
    BY <2>2 DEF CallDefaultHandler, output
  <2>5. InCall(t) => Words(t)'
    BY <2>3, <2>4, SilentSteps, LockWords, TraceWords, WriteWords, FlushWords, LogReturnsWords, FatalEndsWords,
       HandlerFlushesAgainWords DEF InCall
  <2>6. ASSUME ~ InCall(t)
        PROVE  Words(t)'
    <3>1. StackType
      BY DEF TypeInv
    <3>2. ASSUME NEW p, p \notin {"write", "flush", "flush and kill", "kill"}, NEW m, Push(t, Frame(p, m))
          PROVE  Words(t)'
      BY <3>1, <3>2, NewCallWords
    <3>3. ASSUME NEW v, LogF(t, v) \/ OpenScope(t, v)
          PROVE  Words(t)'
      BY <2>2, <3>2, <3>3 DEF LogF, OpenScope, output
    <3>4. AbortF(t) \/ CloseScope(t) => Words(t)'
      BY <3>2 DEF AbortF, LogAndAbort, CloseScope
    <3>5. ASSUME Signal(t)
          PROVE  Words(t)'
      <4>1. PICK b \in LibcStates : Push(t, [Frame("caught", Message(t, "signal", Fatal)) EXCEPT !.in_libc = b])
        BY <3>5, SignalPushes
      <4> QED
        BY <3>1, <4>1, NewCallWords
    <3> QED
      BY <1>1, <2>6, <3>3, <3>4, <3>5 DEF ThreadStep
  <2> QED
    BY <2>1, <2>5, <2>6 DEF WordsInv
<1>2. ASSUME MainStep
      PROVE  WordsInv'
  <2>1. ASSUME Keeping, NEW o \in Threads, stack'[o] = stack[o]
        PROVE  Words(o)'
    <3>1. ASSUME stack[o] # << >>, NEW k \in DOMAIN sinks
          PROVE  SinkWords(o, Top(o), k, sinks'[k])
      BY <2>1, <3>1, KeptWords DEF WordsInv, Words, TypeInv
    <3> QED
      BY <2>1, <3>1 DEF Words, Top, Keeping
  <2>2. ASSUME stack[Main] = << >>, NEW v, Push(Main, Setup(v))
        PROVE  Words(Main)' /\ \A o \in Threads \ {Main} : stack'[o] = stack[o]
    BY <2>2, NewCallWords DEF Setup, Threads, TypeInv
  <2>3. CASE InitLoguru
    BY <2>1, <2>2, <2>3, UnchangedKeeps DEF InitLoguru, Idle, WordsInv, TypeInv
  <2>4. CASE StartThreads \/ Exit
    <3>1. Keeping /\ stack' = stack
      BY <2>4, UnchangedKeeps, FlushAllKeeps DEF StartThreads, Exit, TypeInv
    <3> QED
      BY <2>1, <3>1 DEF WordsInv
  <2>5. CASE SetLoglevel \/ AddFile
    <3>1. \A o \in Threads \ {Main} : stack[o] = << >>
      BY <2>5 DEF SetLoglevel, AddFile, PoolInv
    <3>2. stack[Main] = << >>
      BY <2>5 DEF SetLoglevel, AddFile, Idle
    <3>3. (stack' = stack) \/ \E v : Push(Main, Setup(v))
      BY <2>5 DEF SetLoglevel, AddFile
    <3>4. \A o \in Threads \ {Main} : stack'[o] = << >>
      BY <2>2, <3>1, <3>2, <3>3
    <3>5. Words(Main)'
      BY <2>2, <3>2, <3>3, SilentWords
    <3>6. \A o \in Threads \ {Main} : Words(o)'
      BY <3>4, SilentWords
    <3> QED
      BY <3>5, <3>6 DEF WordsInv
  <2> QED
    BY <1>2, <2>3, <2>4, <2>5 DEF MainStep
<1>3. CASE UNCHANGED vars
  BY <1>3 DEF vars, output, WordsInv, Words, Top
<1> QED
  BY <1>1, <1>2, <1>3, TwoKinds

LEMMA NothingAfterTheEnd ==
  ASSUME dead # "no", [Next]_vars
  PROVE  UNCHANGED vars
<1>1. ASSUME NEW t \in Threads, ThreadStep(t)
      PROVE  FALSE
  BY <1>1 DEF ThreadStep, InCall, Format, LockMessage, Trace, Write, Flush, LogReturns, FatalEnds, Written, OpenBrace,
     OpenIndent, CloseIndent, CloseReturns, HandlerFlushes, HandlerFlushesAgain, CallDefaultHandler, At,
     AbortF, CloseScope, Signal, LogF, OpenScope, Calls, Idle
<1>2. MainStep => FALSE
  BY DEF MainStep, InitLoguru, SetLoglevel, AddFile, StartThreads, Exit, Idle, Threads
<1> QED
  BY <1>1, <1>2, TwoKinds

LEMMA DurableLine ==
  ASSUME SinksType, NEW k \in DOMAIN sinks, \E n \in 1 .. sinks[k].flushed : sinks[k].lines[n].kind = "signal"
  PROVE  \E l \in Range(DurableLines(sinks[k])) : l.kind = "signal"
<1>1. sinks[k].lines \in Seq(LineType) /\ sinks[k].flushed \in Nat /\ sinks[k].flushed <= Len(sinks[k].lines)
  BY SinkAt
<1> DEFINE ls == sinks[k].lines
           m == sinks[k].flushed
<1>2. PICK n \in 1 .. m : ls[n].kind = "signal"
  OBVIOUS
<1> HIDE DEF ls, m
<1>3. n \in DOMAIN SubSeq(ls, 1, m) /\ SubSeq(ls, 1, m)[n] = ls[n]
  BY <1>1 DEF ls, m
<1>4. ls[n] \in Range(SubSeq(ls, 1, m))
  BY <1>3 DEF Range
<1> QED
  BY <1>2, <1>4 DEF DurableLines, ls, m

LEMMA StepLastWords ==
  ASSUME TypeInv, TypeInv', StacksInv, WordsInv, LastWords, [Next]_vars
  PROVE  LastWords'
<1>1. CASE dead # "no"
  BY <1>1, NothingAfterTheEnd DEF LastWords, vars, output
<1>2. CASE dead' \notin {"signal", "abort"}
  BY <1>2 DEF LastWords
<1>3. CASE dead = "no" /\ dead' \in {"signal", "abort"}
  <2>1. PICK t \in Threads : CallDefaultHandler(t) \/ FatalEnds(t)
    <3>1. ~ MainStep /\ ~ UNCHANGED vars
      BY <1>3 DEF MainStep, InitLoguru, SetLoglevel, AddFile, StartThreads, Exit, vars
    <3>2. ASSUME NEW t \in Threads, ThreadStep(t)
          PROVE  CallDefaultHandler(t) \/ FatalEnds(t)
      BY <1>3, <3>2 DEF ThreadStep, InCall, Format, LockMessage, Trace, Write, Flush, LogReturns, OpenBrace,
         OpenIndent, CloseIndent, CloseReturns, HandlerFlushes, HandlerFlushesAgain,
         AbortF, CloseScope, Signal, LogF, OpenScope
    <3> QED
      BY <3>1, <3>2, TwoKinds
  <2>2. CASE CallDefaultHandler(t)
    <3>1. stack[t] # << >> /\ Top(t).pc = "kill" /\ sinks' = sinks /\ dead' = "signal"
      BY <2>2, AtTop DEF CallDefaultHandler, output
    <3>2. ASSUME NEW k \in DOMAIN sinks, sinks[k].verbosity >= Fatal
          PROVE  \E l \in Range(DurableLines(sinks[k])) : l.kind = "signal"
      <4>1. SinkWords(t, Top(t), k, sinks[k])
        BY <3>1 DEF WordsInv, Words
      <4>2. \E n \in 1 .. sinks[k].flushed : sinks[k].lines[n].kind = "signal"
        BY <3>1, <3>2, <4>1 DEF SinkWords
      <4> QED
        BY <4>2, DurableLine DEF TypeInv
    <3> QED
      BY <3>1, <3>2 DEF LastWords, Range
  <2>3. CASE FatalEnds(t)
    <3> DEFINE f == Top(t)
    <3>1. /\ stack[t] # << >> /\ f.pc = "write" /\ f.msg.verbosity = Fatal /\ Written(t)
          /\ f.msg.kind # "signal" /\ dead' = "abort"
      BY <1>3, <2>3, AtTop DEF FatalEnds, Written
    <3>2. f.msg.kind = "fatal"
      BY <3>1, TopOK DEF FrameOK
    <3>3. Keeping /\ \A k \in DOMAIN sinks : sinks'[k].flushed = Len(sinks[k].lines)
      BY <2>3, FlushAllKeeps DEF FatalEnds, TypeInv
    <3>4. ASSUME NEW k \in DOMAIN sinks, sinks[k].verbosity >= Fatal
          PROVE  LET s == sinks'[k]
                     n == s.flushed
                 IN  /\ n = Len(s.lines) /\ s.lines[n].kind = "fatal"
                     /\ s.verbosity >= Error => s.lines[n - 1].kind = "trace" /\ s.lines[n - 1].by = s.lines[n].by
      <4>1. SinkWords(t, f, k, sinks[k])
        BY <3>1 DEF WordsInv, Words
      <4>2. Reached(f, k)
        BY <3>1, <3>4, AllReached
      <4> HIDE DEF f
      <4>3. LastIs(sinks[k], "fatal", t) /\ (sinks[k].verbosity >= Error => LastButOneIs(sinks[k], "trace", t))
        BY <3>1, <3>2, <3>4, <4>1, <4>2 DEF SinkWords
      <4>4. /\ sinks'[k].lines = sinks[k].lines /\ sinks'[k].verbosity = sinks[k].verbosity
            /\ sinks'[k].flushed = Len(sinks[k].lines)
        BY <3>3 DEF Keeping
      <4> QED
        BY <4>3, <4>4 DEF LastIs, LastButOneIs
    <3>5. DOMAIN sinks' = DOMAIN sinks /\ \A k \in DOMAIN sinks : sinks'[k].verbosity = sinks[k].verbosity
      BY <3>3 DEF Keeping
    <3> HIDE DEF f
    <3> QED
      BY <3>1, <3>4, <3>5 DEF LastWords, Range
  <2> QED
    BY <2>1, <2>2, <2>3
<1> QED
  <2>1. dead' \in {"no", "exit"} \/ dead' \in {"signal", "abort"}
    BY DEF TypeInv, ControlType
  <2> QED
    BY <1>1, <1>2, <1>3, <2>1

LogInv == TypeInv /\ MutexInv /\ StacksInv /\ ScopesInv /\ PoolInv /\ LevelInv /\ WordsInv

LEMMA InitLog == Init => LogInv /\ LastWords
<1> SUFFICES ASSUME Init
             PROVE  LogInv /\ LastWords
  OBVIOUS
<1>1. StacksInv
  BY DEF Init, StacksInv, StackOK
<1>2. ScopesInv /\ PoolInv
  BY DEF Init, ScopesInv, PoolInv
<1>3. LevelInv
  BY DEF Init, LevelInv
<1>4. WordsInv
  BY DEF Init, WordsInv, Words
<1>5. LastWords
  BY DEF Init, LastWords
<1> QED
  BY <1>1, <1>2, <1>3, <1>4, <1>5, InitType DEF LogInv

LEMMA StepLog == LogInv /\ [Next]_vars => LogInv'
BY StepType, StepStacks, StepScopes, StepPool, StepLevel, StepWords DEF LogInv

(* Whatever kills the program says so in every sink that takes fatal       *)
(* messages, and flushed: the message of a signal is there, and after      *)
(* ABORT_F its message is the last and its own stack trace the one before, *)
(* with any number of threads that log at the same time and signals that   *)
(* arrive in the middle of it.                                             *)
THEOREM LastWordsArrive == Spec => []LastWords
<1>1. LogInv /\ LastWords /\ [Next]_vars => LastWords'
  BY StepLog, StepLastWords DEF LogInv
<1> QED
  BY <1>1, InitLog, StepLog, PTL DEF Spec

-----------------------------------------------------------------------------
(* The outermost call.  A scope opens and closes there, and only there;    *)
(* the call above it writes the brace.                                     *)

Braces == {"{", "}"}

(* The call above the outermost one, if it writes a brace. *)
Above(s) == IF Len(s) > 1 /\ s[Len(s) - 1].msg.kind \in Braces THEN {s[Len(s) - 1]} ELSE {}

LastOK(s) == s # << >> /\ Last(s).pc \in InLog => Last(s).msg.kind \notin Braces

LastInv == \A t \in Threads : LastOK(stack[t])

(* The counter of the k-th sink, of verbosity v, is one behind the braces. *)
Pends(s, k, v) ==
  /\ s # << >> /\ Last(s).msg.verbosity <= v
  /\ \/ Last(s).pc = "open indent" /\ \A f \in Above(s) : Reached(f, k)
     \/ Last(s).pc = "close end" /\ \E f \in Above(s) : ~ Reached(f, k)

(* A scope that has left its thread's scopes, but not the counters. *)
Closing(s) == IF s # << >> /\ Last(s).pc = "close" THEN <<Last(s).msg.verbosity>> ELSE << >>

(* The counter of the k-th sink sees no difference. *)
SameEnds(s, u, k, v) == Closing(u) = Closing(s) /\ (Pends(u, k, v) <=> Pends(s, k, v))

(* No scope begins. *)
NoNewScope(s, u) ==
  u # << >> /\ Last(u).msg.kind \in Braces => s # << >> /\ Last(s).msg.kind \in Braces

OuterPC == {"open indent", "close end", "close"}

LEMMA EmptyEnds ==
  ASSUME NEW k, NEW v
  PROVE  ~ Pends(<< >>, k, v) /\ Closing(<< >>) = << >>
BY DEF Pends, Closing

LEMMA InnerEnds ==
  ASSUME NEW s, s # << >> => Last(s).pc \notin OuterPC, NEW k, NEW v
  PROVE  ~ Pends(s, k, v) /\ Closing(s) = << >>
BY DEF Pends, Closing, OuterPC

LEMMA EqualEnds ==
  ASSUME NEW s, NEW u, u # << >>, s # << >>, Last(u) = Last(s), Above(u) = Above(s), NEW k, NEW v
  PROVE  SameEnds(s, u, k, v)
BY DEF SameEnds, Pends, Closing

LEMMA OneFrame ==
  ASSUME NEW s, Len(s) = 1
  PROVE  s # << >> /\ Last(s) = s[1] /\ Above(s) = {}
BY DEF Last, Above

LEMMA TwoFrames ==
  ASSUME NEW s, Len(s) = 2
  PROVE  s # << >> /\ Last(s) = s[2] /\ Above(s) = IF s[1].msg.kind \in Braces THEN {s[1]} ELSE {}
<1>1. Len(s) - 1 = 1 /\ Len(s) > 1 /\ s # << >>
  OBVIOUS
<1> QED
  BY <1>1 DEF Last, Above

LEMMA MoreFrames ==
  ASSUME NEW s, NEW u, NEW n \in Nat, NEW m \in Nat, Len(s) = n, Len(u) = m, n > 1, m > 1,
         u[m] = s[n], u[m - 1] = s[n - 1]
  PROVE  Last(u) = Last(s) /\ Above(u) = Above(s)
<1>1. Above(u) = IF u[m - 1].msg.kind \in Braces THEN {u[m - 1]} ELSE {}
  BY DEF Above
<1>2. Above(s) = IF s[n - 1].msg.kind \in Braces THEN {s[n - 1]} ELSE {}
  BY DEF Above
<1> QED
  BY <1>1, <1>2 DEF Last

LEMMA PushEnds ==
  ASSUME NEW s \in Seq(FrameType), NEW f \in FrameType
  PROVE  /\ <<f>> \o s # << >>
         /\ s = << >> => Last(<<f>> \o s) = f /\ Above(<<f>> \o s) = {}
         /\ s # << >> /\ f.msg.kind \notin Braces => Last(<<f>> \o s) = Last(s) /\ Above(<<f>> \o s) = Above(s)
<1> DEFINE u == <<f>> \o s
           n == Len(s)
<1>1. Len(u) = n + 1 /\ n \in Nat /\ u[1] = f /\ \A j \in 2 .. n + 1 : u[j] = s[j - 1]
  BY PushFacts
<1>2. (s = << >> <=> n = 0) /\ u # << >>
  BY <1>1
<1> SUFFICES /\ n = 0 => Last(u) = f /\ Above(u) = {}
             /\ n # 0 /\ f.msg.kind \notin Braces => Last(u) = Last(s) /\ Above(u) = Above(s)
  BY <1>2
<1> HIDE DEF u
<1>3. CASE n = 0
  <2>1. Last(u) = f /\ Above(u) = {}
    BY <1>1, <1>3, OneFrame
  <2> QED
    BY <1>3, <2>1
<1>4. CASE n = 1
  <2>1. Len(u) = 2 /\ u[2] = s[1]
    BY <1>1, <1>4
  <2> QED
    BY <1>1, <1>4, <2>1, OneFrame, TwoFrames
<1>5. CASE n > 1
  <2>1. n \in 2 .. n + 1 /\ n + 1 \in 2 .. n + 1 /\ (n + 1) - 1 = n /\ n + 1 > 1 /\ n # 0
    BY <1>1, <1>5
  <2>2. u[n + 1] = s[n] /\ u[n] = s[n - 1] /\ n + 1 \in Nat
    BY <1>1, <2>1
  <2> HIDE DEF n
  <2>3. Last(u) = Last(s) /\ Above(u) = Above(s)
    BY <1>1, <1>5, <2>1, <2>2, MoreFrames DEF n
  <2> QED
    BY <2>1, <2>3
<1> HIDE DEF n
<1> QED
  BY <1>1, <1>3, <1>4, <1>5

(* u is the stack s, of n frames, when its innermost call goes on as g. *)
Turned(s, u, n, g) ==
  /\ n \in Nat \ {0} /\ Len(s) = n /\ Len(u) = n
  /\ u[1] = g /\ g.msg.kind = s[1].msg.kind
  /\ \A j \in 2 .. n : u[j] = s[j]

TurnedEnds(s, u, n, g) ==
  /\ n = 1 => Last(s) = s[1] /\ Above(s) = {} /\ Last(u) = g /\ Above(u) = {}
  /\ n # 1 => Last(u) = Last(s)
  /\ n # 1 /\ g.msg.kind \notin Braces => Above(u) = Above(s)
  /\ n = 2 /\ g.msg.kind \in Braces => Above(s) = {s[1]} /\ Above(u) = {g}

LEMMA TurnEnds ==
  ASSUME NEW s, NEW u, NEW n, NEW g, Turned(s, u, n, g)
  PROVE  TurnedEnds(s, u, n, g)
<1> USE DEF Turned, TurnedEnds
<1>3. CASE n = 1
  BY <1>3, OneFrame
<1>4. CASE n = 2
  <2>1. u[2] = s[2]
    BY <1>4
  <2> QED
    <3>1. /\ Last(s) = s[2] /\ Above(s) = IF s[1].msg.kind \in Braces THEN {s[1]} ELSE {}
          /\ Last(u) = u[2] /\ Above(u) = IF u[1].msg.kind \in Braces THEN {u[1]} ELSE {}
      BY <1>4, TwoFrames
    <3>2. Above(u) = IF g.msg.kind \in Braces THEN {g} ELSE {}
      BY <3>1
    <3>3. Above(s) = IF g.msg.kind \in Braces THEN {s[1]} ELSE {}
      BY <3>1, Zenon
    <3> QED
      BY <1>4, <2>1, <3>1, <3>2, <3>3
<1>5. CASE n > 2
  <2>1. u[n] = s[n] /\ u[n - 1] = s[n - 1] /\ n # 1 /\ n # 2 /\ n > 1
    BY <1>5
  <2>2. Last(u) = Last(s) /\ Above(u) = Above(s)
    BY <2>1, MoreFrames
  <2> QED
    BY <2>1, <2>2
<1> QED
  BY <1>3, <1>4, <1>5

(* u is the stack s when its innermost call, now g, has called f. *)
Called(s, u, f, g) ==
  /\ Len(s) \in Nat \ {0} /\ Len(u) = Len(s) + 1 /\ u[1] = f /\ u[2] = g
  /\ \A j \in 3 .. Len(s) + 1 : u[j] = s[j - 1]

LEMMA InvokeEnds ==
  ASSUME NEW s, NEW u, NEW f, NEW g, Called(s, u, f, g), g.msg.kind = s[1].msg.kind
  PROVE  /\ Len(s) = 1 => Last(u) = g
         /\ Len(s) = 1 /\ f.msg.kind \in Braces => Above(u) = {f}
         /\ Len(s) # 1 => Last(u) = Last(s)
         /\ Len(s) # 1 /\ g.msg.kind \notin Braces => Above(u) = Above(s)
<1> DEFINE n == Len(s)
<1>1. Len(s) = n /\ n \in Nat \ {0} /\ Len(u) = n + 1 /\ u[1] = f /\ u[2] = g
      /\ \A j \in 3 .. n + 1 : u[j] = s[j - 1]
  BY DEF Called
<1> HIDE DEF n
<1>3. CASE n = 1
  <2>1. Last(u) = u[2] /\ Above(u) = IF u[1].msg.kind \in Braces THEN {u[1]} ELSE {}
    BY <1>1, <1>3, TwoFrames
  <2> QED
    BY <1>1, <1>3, <2>1
<1>4. CASE n = 2
  <2>1. Len(u) = 3 /\ Len(u) - 1 = 2 /\ u[3] = s[2] /\ Len(u) > 1
    BY <1>1, <1>4
  <2>2. Last(u) = s[2]
    BY <2>1 DEF Last
  <2>3. Above(u) = IF g.msg.kind \in Braces THEN {g} ELSE {}
    BY <1>1, <2>1 DEF Above
  <2>4. Last(s) = s[2] /\ Above(s) = IF s[1].msg.kind \in Braces THEN {s[1]} ELSE {}
    BY <1>1, <1>4, TwoFrames
  <2>5. g.msg.kind \notin Braces => Above(u) = {} /\ Above(s) = {}
    BY <2>3, <2>4
  <2> QED
    BY <1>1, <1>4, <2>2, <2>4, <2>5
<1>5. CASE n > 2
  <2>1. n + 1 \in 3 .. n + 1 /\ n \in 3 .. n + 1 /\ (n + 1) - 1 = n /\ n # 1 /\ n + 1 > 1 /\ n > 1 /\ n + 1 \in Nat
    BY <1>1, <1>5
  <2>2. u[n + 1] = s[n] /\ u[(n + 1) - 1] = s[n - 1]
    BY <1>1, <2>1
  <2>3. Last(u) = Last(s) /\ Above(u) = Above(s)
    BY <1>1, <2>1, <2>2, MoreFrames
  <2> QED
    BY <1>1, <2>1, <2>3
<1> QED
  BY <1>1, <1>3, <1>4, <1>5

LEMMA TailEnds ==
  ASSUME NEW s, NEW u, NEW n \in Nat \ {0}, Len(s) = n, Len(u) = n - 1, \A j \in 1 .. n - 1 : u[j] = s[j + 1]
  PROVE  /\ n = 1 => Last(s) = s[1] /\ Above(s) = {}
         /\ n # 1 => Last(u) = Last(s)
         /\ n # 1 /\ s[1].msg.kind \notin Braces => Above(u) = Above(s)
         /\ n = 2 => Above(u) = {} /\ Above(s) = IF s[1].msg.kind \in Braces THEN {s[1]} ELSE {}
<1>3. CASE n = 1
  BY <1>3, OneFrame
<1>4. CASE n = 2
  <2>1. Len(u) = 1 /\ u[1] = s[2]
    BY <1>4
  <2> QED
    BY <1>4, <2>1, OneFrame, TwoFrames
<1>5. CASE n > 2
  <2>1. n - 1 \in 1 .. n - 1 /\ n - 2 \in 1 .. n - 1 /\ (n - 1) + 1 = n /\ (n - 2) + 1 = n - 1
        /\ (n - 1) - 1 = n - 2 /\ n # 1 /\ n # 2 /\ n - 1 > 1 /\ n > 1 /\ n - 1 \in Nat
    BY <1>5
  <2>2. u[n - 1] = s[n] /\ u[(n - 1) - 1] = s[n - 1]
    BY <2>1
  <2>3. Last(u) = Last(s) /\ Above(u) = Above(s)
    BY <2>1, <2>2, MoreFrames
  <2> QED
    BY <2>1, <2>3
<1> QED
  BY <1>3, <1>4, <1>5

LEMMA Counting ==
  ASSUME NEW n \in Nat \ {0}
  PROVE  (n # 1 => 1 \in 1 .. n - 1) /\ (n # 1 /\ n # 2 => 2 \in 1 .. n - 1)
OBVIOUS

(* A call that logs for a scope stands on it; the scope is outermost. *)
LEMMA OuterIsLast ==
  ASSUME NEW t, NEW s \in Seq(FrameType), s # << >>, StackOK(t, s), s[1].pc \notin InLog \cup InHandler
  PROVE  Len(s) = 1
<1>1. Len(s) \in Nat \ {0}
  OBVIOUS
<1>2. ASSUME Len(s) # 1
      PROVE  FALSE
  <2>1. 1 \in 1 .. Len(s) - 1
    BY <1>1, <1>2, Counting
  <2>2. OnTopOf(s[1], s[2])
    BY <2>1 DEF StackOK
  <2> QED
    BY <2>2 DEF OnTopOf
<1> QED
  BY <1>2

LEMMA BraceOnScope ==
  ASSUME NEW t, NEW s \in Seq(FrameType), s # << >>, StackOK(t, s), LastOK(s),
         s[1].pc \in InLog, s[1].msg.kind \in Braces
  PROVE  /\ Len(s) = 2 /\ Above(s) = {s[1]} /\ Last(s).msg = s[1].msg
         /\ Last(s).pc = IF s[1].msg.kind = "{" THEN "open indent" ELSE "close end"
<1>1. Len(s) \in Nat \ {0}
  OBVIOUS
<1>2. Len(s) # 1
  BY DEF LastOK, Last
<1>3. 1 \in 1 .. Len(s) - 1
  BY <1>1, <1>2, Counting
<1>4. OnTopOf(s[1], s[2])
  BY <1>3 DEF StackOK
<1>5. s[1].pc \notin InHandler
  BY DEF InLog, InHandler
<1>6. /\ s[2].msg = s[1].msg
      /\ s[2].pc = IF s[1].msg.kind = "{" THEN "open indent" ELSE "close end"
  BY <1>4, <1>5 DEF OnTopOf, Braces
<1>7. ASSUME Len(s) # 2
      PROVE  FALSE
  <2>1. 2 \in 1 .. Len(s) - 1
    BY <1>1, <1>2, <1>7, Counting
  <2>2. OnTopOf(s[2], s[2 + 1])
    BY <2>1 DEF StackOK
  <2> QED
    BY <1>6, <2>2 DEF OnTopOf, InLog, InHandler
<1>8. Len(s) = 2
  BY <1>7
<1>9. Last(s) = s[2] /\ Above(s) = {s[1]}
  BY <1>8, TwoFrames
<1> DEFINE p == IF s[1].msg.kind = "{" THEN "open indent" ELSE "close end"
<1>10. s[2].msg = s[1].msg /\ s[2].pc = p
  BY <1>6
<1> HIDE DEF p
<1>11. Last(s).msg = s[1].msg /\ Last(s).pc = p
  BY <1>9, <1>10, Zenon
<1> QED
  BY <1>8, <1>9, <1>11, Zenon DEF p

LEMMA SameInner ==
  ASSUME NEW s, NEW u, s # << >> => Last(s).pc \notin OuterPC, u # << >> => Last(u).pc \notin OuterPC, NEW k, NEW v
  PROVE  SameEnds(s, u, k, v)
BY InnerEnds DEF SameEnds

LEMMA SameLast ==
  ASSUME NEW s, NEW u, u # << >>, s # << >>, Last(u) = Last(s), LastOK(s)
  PROVE  LastOK(u)
BY DEF LastOK

(* The innermost call goes on.  *)
LEMMA SameByTurn ==
  ASSUME NEW t, NEW s \in Seq(FrameType), s # << >>, StackOK(t, s), LastOK(s), NEW g \in FrameType,
         g.msg = s[1].msg, s[1].pc \notin OuterPC, g.pc \notin OuterPC,
         s[1].pc \in InLog \/ s[1].msg.kind \notin Braces, NEW u \in Seq(FrameType), Len(u) = Len(s),
         u[1] = g, \A j \in 2 .. Len(s) : u[j] = s[j], NEW k, NEW v,
         s[1].msg.kind \in Braces /\ s[1].msg.verbosity <= v => (Reached(g, k) <=> Reached(s[1], k))
  PROVE  SameEnds(s, u, k, v) /\ LastOK(u) /\ NoNewScope(s, u)
<1> DEFINE n == Len(s)
<1>1. Len(s) = n /\ Len(u) = n /\ n \in Nat \ {0} /\ u[1] = g /\ \A j \in 2 .. n : u[j] = s[j]
  OBVIOUS
<1>2. u # << >>
  BY <1>1
<1>3. g.msg.kind = s[1].msg.kind
  OBVIOUS
<1> HIDE DEF n
<1>7. Turned(s, u, n, g)
  BY <1>1, <1>3, Zenon DEF Turned
<1>8. TurnedEnds(s, u, n, g)
  BY <1>7, TurnEnds, Zenon
<1>4. /\ n = 1 => Last(s) = s[1] /\ Above(s) = {} /\ Last(u) = g /\ Above(u) = {}
      /\ n # 1 => Last(u) = Last(s)
      /\ n # 1 /\ g.msg.kind \notin Braces => Above(u) = Above(s)
      /\ n = 2 /\ g.msg.kind \in Braces => Above(s) = {s[1]} /\ Above(u) = {g}
  BY <1>8, Zenon DEF TurnedEnds
<1>5. CASE s[1].msg.kind \notin Braces
  <2>1. CASE n = 1
    <3>1. Last(s) = s[1] /\ Last(u) = g
      BY <1>4, <2>1
    <3>2. SameEnds(s, u, k, v)
      BY <3>1, SameInner
    <3>3. LastOK(u) /\ NoNewScope(s, u)
      BY <1>3, <1>5, <3>1 DEF LastOK, NoNewScope
    <3> QED
      BY <1>2, <3>2, <3>3
  <2>2. CASE n # 1
    <3>1. Last(u) = Last(s) /\ Above(u) = Above(s)
      BY <1>3, <1>4, <1>5, <2>2
    <3> QED
      BY <1>2, <3>1, EqualEnds, SameLast DEF NoNewScope
  <2> QED
    BY <2>1, <2>2
<1>6. CASE s[1].msg.kind \in Braces
  <2>1. /\ n = 2 /\ Above(s) = {s[1]} /\ Last(s).msg = s[1].msg
    BY <1>6, BraceOnScope DEF n
  <2>2. Last(u) = Last(s) /\ Above(u) = {g}
    BY <1>3, <1>4, <1>6, <2>1
  <2>3. LastOK(u) /\ NoNewScope(s, u)
    BY <1>2, <2>2, SameLast DEF NoNewScope
  <2>4. Closing(u) = Closing(s)
    BY <1>2, <2>2 DEF Closing
  <2>5. Pends(u, k, v) <=> Pends(s, k, v)
    BY <1>2, <1>6, <2>1, <2>2 DEF Pends
  <2> QED
    BY <1>2, <2>3, <2>4, <2>5 DEF SameEnds
<1> QED
  BY <1>5, <1>6

(* It calls, but not for a scope. *)
LEMMA SameByInvoke ==
  ASSUME NEW s \in Seq(FrameType), s # << >>, LastOK(s), NEW f \in FrameType, NEW g \in FrameType,
         g.msg = s[1].msg, s[1].msg.kind \notin Braces, f.msg.kind \notin Braces,
         s[1].pc \notin OuterPC, g.pc \notin OuterPC, NEW u, Called(s, u, f, g), NEW k, NEW v
  PROVE  SameEnds(s, u, k, v) /\ LastOK(u) /\ NoNewScope(s, u)
<1>1. Len(s) \in Nat \ {0} /\ Len(u) = Len(s) + 1
  BY DEF Called
<1>2. u # << >>
  BY <1>1
<1>3. g.msg.kind = s[1].msg.kind
  OBVIOUS
<1>5. CASE Len(s) = 1
  <2>1. Last(u) = g
    BY <1>3, <1>5, InvokeEnds
  <2>2. Last(s) = s[1]
    BY <1>5, OneFrame
  <2>3. SameEnds(s, u, k, v)
    BY <2>1, <2>2, SameInner
  <2>4. LastOK(u) /\ NoNewScope(s, u)
    BY <1>3, <2>1 DEF LastOK, NoNewScope
  <2> QED
    BY <1>2, <2>3, <2>4
<1>6. CASE Len(s) # 1
  <2>1. Last(u) = Last(s) /\ Above(u) = Above(s)
    BY <1>3, <1>6, InvokeEnds
  <2> QED
    BY <1>2, <2>1, EqualEnds, SameLast DEF NoNewScope
<1> QED
  BY <1>5, <1>6

(* It returns; a brace is in all sinks that take it. *)
LEMMA SameByReturn ==
  ASSUME NEW t, NEW s \in Seq(FrameType), s # << >>, StackOK(t, s), LastOK(s), s[1].pc \in InLog,
         NEW u \in Seq(FrameType), Len(u) = Len(s) - 1, \A j \in 1 .. Len(s) - 1 : u[j] = s[j + 1], NEW k, NEW v,
         s[1].msg.kind \in Braces /\ s[1].msg.verbosity <= v => Reached(s[1], k)
  PROVE  SameEnds(s, u, k, v) /\ LastOK(u) /\ NoNewScope(s, u)
<1> DEFINE n == Len(s)
<1>1. Len(s) = n /\ Len(u) = n - 1 /\ n \in Nat \ {0} /\ \A j \in 1 .. n - 1 : u[j] = s[j + 1]
  OBVIOUS
<1>2. u = << >> <=> n = 1
  <2>1. u = << >> <=> Len(u) = 0
    BY <1>1
  <2> QED
    BY <1>1, <2>1
<1> HIDE DEF n
<1>3. /\ n = 1 => Last(s) = s[1] /\ Above(s) = {}
      /\ n # 1 => Last(u) = Last(s)
      /\ n # 1 /\ s[1].msg.kind \notin Braces => Above(u) = Above(s)
      /\ n = 2 => Above(u) = {} /\ Above(s) = IF s[1].msg.kind \in Braces THEN {s[1]} ELSE {}
  BY <1>1, TailEnds
<1>4. LastOK(u) /\ NoNewScope(s, u)
  BY <1>2, <1>3, SameLast DEF LastOK, NoNewScope
<1>5. CASE n = 1
  <2>1. Last(s).pc \notin OuterPC
    BY <1>3, <1>5 DEF OuterPC, InLog
  <2> QED
    BY <1>2, <1>4, <1>5, <2>1, SameInner
<1>6. CASE n # 1 /\ s[1].msg.kind \notin Braces
  BY <1>2, <1>3, <1>4, <1>6, EqualEnds
<1>7. CASE n # 1 /\ s[1].msg.kind \in Braces
  <2>1. /\ n = 2 /\ Above(s) = {s[1]} /\ Last(s).msg = s[1].msg
    BY <1>7, BraceOnScope DEF n
  <2>2. Last(u) = Last(s) /\ Above(u) = {} /\ u # << >>
    BY <1>2, <1>3, <1>7, <2>1
  <2>3. Closing(u) = Closing(s)
    BY <2>2 DEF Closing
  <2>4. Pends(u, k, v) <=> Pends(s, k, v)
    BY <1>7, <2>1, <2>2 DEF Pends
  <2> QED
    BY <1>4, <2>3, <2>4 DEF SameEnds
<1> QED
  BY <1>5, <1>6, <1>7

(* A call begins or a signal arrives. *)
LEMMA SameByPush ==
  ASSUME NEW s \in Seq(FrameType), LastOK(s), NEW f \in FrameType, s # << >> => f.msg.kind \notin Braces,
         f.pc \notin OuterPC, f.pc \in InLog => f.msg.kind \notin Braces, NEW u, u = <<f>> \o s, NEW k, NEW v
  PROVE  SameEnds(s, u, k, v) /\ LastOK(u) /\ (f.msg.kind \notin Braces => NoNewScope(s, u))
<1>1. /\ u # << >>
      /\ s = << >> => Last(u) = f
      /\ s # << >> => Last(u) = Last(s) /\ Above(u) = Above(s)
  BY PushEnds
<1>2. CASE s = << >>
  <2>1. LastOK(u) /\ (f.msg.kind \notin Braces => NoNewScope(s, u))
    BY <1>1, <1>2 DEF LastOK, NoNewScope
  <2> QED
    BY <1>1, <1>2, <2>1, SameInner
<1>3. CASE s # << >>
  BY <1>1, <1>3, EqualEnds, SameLast DEF NoNewScope
<1> QED
  BY <1>2, <1>3

-----------------------------------------------------------------------------
(* The steps, as the counters see them. *)

LEMMA StackAt ==
  ASSUME TypeInv, StacksInv, LastInv, NEW t \in Threads
  PROVE  stack[t] \in Seq(FrameType) /\ StackOK(t, stack[t]) /\ LastOK(stack[t])
BY DEF TypeInv, StackType, StacksInv, LastInv

LEMMA TurnSame ==
  ASSUME TypeInv, StacksInv, LastInv, NEW t \in Threads, stack[t] # << >>, NEW g \in FrameType, Turns(t, g),
         g.msg = Top(t).msg, Top(t).pc \notin OuterPC, g.pc \notin OuterPC,
         Top(t).pc \in InLog \/ Top(t).msg.kind \notin Braces, NEW k, NEW v,
         Top(t).msg.kind \in Braces /\ Top(t).msg.verbosity <= v => (Reached(g, k) <=> Reached(Top(t), k))
  PROVE  SameEnds(stack[t], stack'[t], k, v) /\ LastOK(stack'[t]) /\ NoNewScope(stack[t], stack'[t])
<1> DEFINE s == stack[t]
           u == [s EXCEPT ![1] = g]
<1>1. s \in Seq(FrameType) /\ StackOK(t, s) /\ LastOK(s) /\ Top(t) = s[1] /\ s # << >>
  BY StackAt, TopOK
<1>2. u \in Seq(FrameType) /\ Len(u) = Len(s) /\ u[1] = g /\ \A j \in 2 .. Len(s) : u[j] = s[j]
  BY <1>1, TopFacts
<1>3. stack'[t] = u
  BY DEF Turns, TypeInv, StackType
<1> HIDE DEF s, u
<1>4. SameEnds(s, u, k, v) /\ LastOK(u) /\ NoNewScope(s, u)
  BY <1>1, <1>2, SameByTurn
<1> QED
  BY <1>3, <1>4 DEF s

LEMMA InvokeIsCalled ==
  ASSUME TypeInv, NEW t \in Threads, stack[t] # << >>, NEW f \in FrameType, NEW g \in FrameType, Invokes(t, f, g)
  PROVE  Called(stack[t], stack'[t], f, g)
<1> DEFINE s == stack[t]
           u == <<f, g>> \o Tail(s)
<1>1. s \in Seq(FrameType) /\ s # << >>
  BY DEF TypeInv, StackType
<1>2. Called(s, u, f, g)
  <2>1. /\ Len(s) \in Nat \ {0} /\ Len(u) = Len(s) + 1 /\ u[1] = f /\ u[2] = g
        /\ \A j \in 3 .. Len(s) + 1 : u[j] = s[j - 1]
    BY <1>1, CallFacts
  <2> HIDE DEF s, u
  <2> QED
    BY <2>1, Zenon DEF Called
<1>3. stack'[t] = u
  BY DEF Invokes, TypeInv, StackType
<1> HIDE DEF u
<1> QED
  BY <1>2, <1>3

LEMMA InvokeSame ==
  ASSUME TypeInv, StacksInv, LastInv, NEW t \in Threads, stack[t] # << >>, NEW f \in FrameType, NEW g \in FrameType,
         Invokes(t, f, g), g.msg = Top(t).msg, Top(t).msg.kind \notin Braces, f.msg.kind \notin Braces,
         Top(t).pc \notin OuterPC, g.pc \notin OuterPC, NEW k, NEW v
  PROVE  SameEnds(stack[t], stack'[t], k, v) /\ LastOK(stack'[t]) /\ NoNewScope(stack[t], stack'[t])
<1> DEFINE s == stack[t]
           u == stack'[t]
<1>1. s \in Seq(FrameType) /\ StackOK(t, s) /\ LastOK(s) /\ Top(t) = s[1] /\ s # << >>
  BY StackAt, TopOK
<1>2. Called(s, u, f, g)
  BY InvokeIsCalled
<1> HIDE DEF s, u
<1>3. SameEnds(s, u, k, v) /\ LastOK(u) /\ NoNewScope(s, u)
  BY <1>1, <1>2, SameByInvoke
<1> QED
  BY <1>3 DEF s, u

LEMMA ReturnSame ==
  ASSUME TypeInv, StacksInv, LastInv, NEW t \in Threads, stack[t] # << >>, Return(t), Top(t).pc \in InLog, NEW k, NEW v,
         Top(t).msg.kind \in Braces /\ Top(t).msg.verbosity <= v => Reached(Top(t), k)
  PROVE  SameEnds(stack[t], stack'[t], k, v) /\ LastOK(stack'[t]) /\ NoNewScope(stack[t], stack'[t])
<1> DEFINE s == stack[t]
           u == Tail(s)
<1>1. s \in Seq(FrameType) /\ StackOK(t, s) /\ LastOK(s) /\ Top(t) = s[1] /\ s # << >>
  BY StackAt, TopOK
<1>2. u \in Seq(FrameType) /\ Len(u) = Len(s) - 1 /\ \A j \in 1 .. Len(s) - 1 : u[j] = s[j + 1]
  BY <1>1, TailFacts
<1>3. stack'[t] = u
  BY DEF Return, TypeInv, StackType
<1> HIDE DEF s, u
<1>4. SameEnds(s, u, k, v) /\ LastOK(u) /\ NoNewScope(s, u)
  BY <1>1, <1>2, SameByReturn
<1> QED
  BY <1>3, <1>4 DEF s

LEMMA PushSame ==
  ASSUME TypeInv, StacksInv, LastInv, NEW t \in Threads, NEW f \in FrameType, Push(t, f),
         stack[t] # << >> => f.msg.kind \notin Braces, f.pc \notin OuterPC,
         f.pc \in InLog => f.msg.kind \notin Braces, NEW k, NEW v
  PROVE  /\ SameEnds(stack[t], stack'[t], k, v) /\ LastOK(stack'[t])
         /\ f.msg.kind \notin Braces => NoNewScope(stack[t], stack'[t])
<1> DEFINE s == stack[t]
           u == <<f>> \o s
<1>1. s \in Seq(FrameType) /\ LastOK(s)
  BY StackAt
<1>2. stack'[t] = u
  BY DEF Push, TypeInv, StackType
<1>3. SameEnds(s, u, k, v) /\ LastOK(u) /\ (f.msg.kind \notin Braces => NoNewScope(s, u))
  BY <1>1, SameByPush
<1> HIDE DEF s, u
<1> QED
  BY <1>2, <1>3 DEF s

(* No counter sees a difference, and no scope begins. *)
Quiet(t) ==
  /\ LastOK(stack'[t]) /\ NoNewScope(stack[t], stack'[t])
  /\ \A k \in DOMAIN sinks : SameEnds(stack[t], stack'[t], k, sinks[k].verbosity)

LEMMA FirstSink == TypeInv => 1 \in DOMAIN sinks
BY DEF TypeInv, SinksType

LEMMA QuietTurn ==
  ASSUME TypeInv, StacksInv, LastInv, NEW t \in Threads, stack[t] # << >>, NEW g \in FrameType, Turns(t, g),
         g.msg = Top(t).msg, Top(t).pc \notin OuterPC, g.pc \notin OuterPC,
         Top(t).pc \in InLog \/ Top(t).msg.kind \notin Braces,
         \A k \in DOMAIN sinks :
           Top(t).msg.kind \in Braces /\ Top(t).msg.verbosity <= sinks[k].verbosity => (Reached(g, k) <=> Reached(Top(t), k))
  PROVE  Quiet(t)
<1>1. ASSUME NEW k \in DOMAIN sinks
      PROVE  SameEnds(stack[t], stack'[t], k, sinks[k].verbosity) /\ LastOK(stack'[t]) /\ NoNewScope(stack[t], stack'[t])
  <2> DEFINE v == sinks[k].verbosity
  <2>1. Top(t).msg.kind \in Braces /\ Top(t).msg.verbosity <= v => (Reached(g, k) <=> Reached(Top(t), k))
    BY <1>1
  <2> HIDE DEF v
  <2>2. SameEnds(stack[t], stack'[t], k, v) /\ LastOK(stack'[t]) /\ NoNewScope(stack[t], stack'[t])
    BY <2>1, TurnSame
  <2> QED
    BY <2>2 DEF v
<1> QED
  BY <1>1, FirstSink DEF Quiet

LEMMA QuietInvoke ==
  ASSUME TypeInv, StacksInv, LastInv, NEW t \in Threads, stack[t] # << >>, NEW f \in FrameType, NEW g \in FrameType,
         Invokes(t, f, g), g.msg = Top(t).msg, Top(t).msg.kind \notin Braces, f.msg.kind \notin Braces,
         Top(t).pc \notin OuterPC, g.pc \notin OuterPC
  PROVE  Quiet(t)
BY InvokeSame, FirstSink DEF Quiet

LEMMA QuietReturn ==
  ASSUME TypeInv, StacksInv, LastInv, NEW t \in Threads, stack[t] # << >>, Return(t), Top(t).pc \in InLog,
         \A k \in DOMAIN sinks : Top(t).msg.verbosity <= sinks[k].verbosity => Reached(Top(t), k)
  PROVE  Quiet(t)
<1>1. ASSUME NEW k \in DOMAIN sinks
      PROVE  SameEnds(stack[t], stack'[t], k, sinks[k].verbosity) /\ LastOK(stack'[t]) /\ NoNewScope(stack[t], stack'[t])
  BY ReturnSame
<1> QED
  BY <1>1, FirstSink DEF Quiet

LEMMA QuietPush ==
  ASSUME TypeInv, StacksInv, LastInv, NEW t \in Threads, NEW f \in FrameType, Push(t, f),
         f.msg.kind \notin Braces, f.pc \notin OuterPC
  PROVE  Quiet(t)
BY PushSame, FirstSink DEF Quiet

LEMMA QuietStill ==
  ASSUME LastInv, NEW t \in Threads, stack'[t] = stack[t]
  PROVE  Quiet(t)
BY DEF Quiet, SameEnds, NoNewScope, LastInv

LEMMA FormatQuiet ==
  ASSUME TypeInv, StacksInv, LastInv, NEW t \in Threads, Format(t)
  PROVE  Quiet(t)
<1> DEFINE f == Top(t)
           g == [f EXCEPT !.pc = "lock"]
<1>1. stack[t] # << >> /\ f.pc = "format" /\ Goto(t, "lock") /\ "lock" \in PCs /\ StackType
  BY AtTop DEF Format, PCs, Holding, TypeInv
<1>2. g \in FrameType /\ Turns(t, g)
  BY <1>1, GotoTurns
<1>3. f \in FrameType
  BY <1>1, TopOK
<1>4. g.pc = "lock" /\ g.msg = f.msg
  BY <1>1, <1>3 DEF FrameType
<1> HIDE DEF g
<1>5. ASSUME NEW k \in DOMAIN sinks
      PROVE  ~ Reached(g, k) /\ ~ Reached(f, k)
  BY <1>1, <1>4 DEF Reached
<1> QED
  BY <1>1, <1>2, <1>4, <1>5, QuietTurn DEF OuterPC, InLog

LEMMA LockMessageQuiet ==
  ASSUME TypeInv, StacksInv, LastInv, NEW t \in Threads, LockMessage(t)
  PROVE  Quiet(t)
<1> DEFINE f == Top(t)
           p == IF f.msg.verbosity = Fatal THEN "trace" ELSE "write"
           g == [f EXCEPT !.pc = p]
<1>1. stack[t] # << >> /\ f.pc = "lock" /\ Goto(t, p) /\ p \in PCs /\ StackType /\ p \in {"trace", "write"}
  BY AtTop DEF LockMessage, PCs, Holding, TypeInv
<1> HIDE DEF p
<1>2. g \in FrameType /\ Turns(t, g)
  BY <1>1, GotoTurns
<1>3. FrameOK(t, f) /\ f \in FrameType
  BY <1>1, TopOK
<1>4. g.pc = p /\ g.msg = f.msg /\ g.sink = f.sink
  BY <1>1, <1>3 DEF FrameType
<1>5. f.sink = 1
  BY <1>1, <1>3 DEF FrameOK
<1> HIDE DEF g
<1>6. ASSUME NEW k \in DOMAIN sinks
      PROVE  ~ Reached(g, k) /\ ~ Reached(f, k)
  <2>1. k \in Nat \ {0}
    BY SinkAt DEF TypeInv
  <2> QED
    BY <1>1, <1>4, <1>5, <2>1 DEF Reached
<1> QED
  BY <1>1, <1>2, <1>4, <1>6, QuietTurn DEF OuterPC, InLog

LEMMA TraceQuiet ==
  ASSUME TypeInv, StacksInv, LastInv, NEW t \in Threads, Trace(t)
  PROVE  Quiet(t)
<1> DEFINE f == Top(t)
           g == [f EXCEPT !.pc = "write"]
           r == RawLog(t)
<1>1. /\ stack[t] # << >> /\ f.pc = "trace" /\ "write" \in PCs /\ StackType
      /\ Goto(t, "write") \/ CallThen(t, r, "write")
  BY AtTop DEF Trace, PCs, Holding, TypeInv
<1>2. g \in FrameType /\ (Turns(t, g) \/ Invokes(t, r, g))
  BY <1>1, GotoTurns, CallThenInvokes
<1>3. FrameOK(t, f) /\ f \in FrameType
  BY <1>1, TopOK
<1>4. g.pc = "write" /\ g.msg = f.msg
  BY <1>1, <1>3 DEF FrameType
<1>5. r \in FrameType /\ r.msg.kind = "trace"
  BY RawLogFacts
<1>6. f.msg.kind \notin Braces /\ r.msg.kind \notin Braces
  BY <1>1, <1>3, <1>5 DEF FrameOK, Braces
<1> HIDE DEF g, r
<1>7. f.pc \notin OuterPC /\ g.pc \notin OuterPC
  BY <1>1, <1>4 DEF OuterPC
<1>8. Turns(t, g) => Quiet(t)
  BY <1>1, <1>2, <1>4, <1>6, <1>7, QuietTurn
<1>9. Invokes(t, r, g) => Quiet(t)
  BY <1>1, <1>2, <1>4, <1>5, <1>6, <1>7, QuietInvoke
<1> QED
  BY <1>2, <1>8, <1>9

LEMMA FlushQuiet ==
  ASSUME TypeInv, StacksInv, LastInv, NEW t \in Threads, Flush(t)
  PROVE  Quiet(t)
<1> DEFINE f == Top(t)
           g == [f EXCEPT !.pc = "write", !.sink = f.sink + 1]
<1>1. stack[t] # << >> /\ f.pc = "flush" /\ f.sink \in Nat \ {0}
  BY AtTop DEF Flush
<1>2. g \in FrameType /\ Turns(t, g)
  BY <1>1, FlushForm
<1>3. FrameOK(t, f) /\ f \in FrameType
  BY <1>1, TopOK
<1>4. g.pc = "write" /\ g.msg = f.msg /\ g.sink = f.sink + 1
  BY <1>1, <1>3 DEF FrameType
<1> HIDE DEF g
<1>5. ASSUME NEW k \in DOMAIN sinks
      PROVE  Reached(g, k) <=> Reached(f, k)
  <2>1. k \in Nat \ {0}
    BY SinkAt DEF TypeInv
  <2> QED
    BY <1>1, <1>4, <2>1 DEF Reached
<1> QED
  BY <1>1, <1>2, <1>4, <1>5, QuietTurn DEF OuterPC, InLog

LEMMA WrittenReached ==
  ASSUME TypeInv, StacksInv, NEW t \in Threads, Written(t)
  PROVE  \A k \in DOMAIN sinks : Top(t).msg.verbosity <= sinks[k].verbosity => Reached(Top(t), k)
<1> SUFFICES ASSUME NEW k \in DOMAIN sinks, Top(t).msg.verbosity <= sinks[k].verbosity
             PROVE  Reached(Top(t), k)
  OBVIOUS
<1>1. sinks[k].verbosity \in Int
  BY SinkAt DEF TypeInv
<1>2. At(t, "write")
  BY DEF Written
<1>3. Top(t).msg.verbosity \in Int
  BY <1>2, AtTop
<1>4. sinks[k].verbosity >= Top(t).msg.verbosity
  BY <1>1, <1>3
<1> QED
  BY <1>4, AllReached

LEMMA LogReturnsQuiet ==
  ASSUME TypeInv, StacksInv, LastInv, NEW t \in Threads, LogReturns(t)
  PROVE  Quiet(t)
<1>1. stack[t] # << >> /\ Top(t).pc = "write" /\ Written(t) /\ Return(t)
  BY AtTop DEF LogReturns, Written
<1> QED
  BY <1>1, WrittenReached, QuietReturn DEF InLog

LEMMA FatalEndsQuiet ==
  ASSUME TypeInv, StacksInv, LastInv, NEW t \in Threads, FatalEnds(t)
  PROVE  Quiet(t)
<1>1. stack[t] # << >> /\ Top(t).pc = "write" /\ Written(t) /\ (Return(t) \/ stack' = stack)
  BY AtTop DEF FatalEnds, Written
<1> QED
  BY <1>1, WrittenReached, QuietReturn, QuietStill DEF InLog

LEMMA HandlerQuiet ==
  ASSUME TypeInv, StacksInv, LastInv, NEW t \in Threads, HandlerFlushes(t)
  PROVE  Quiet(t)
<1> DEFINE f == Top(t)
           h == Frame("format", f.msg)
           g == [f EXCEPT !.pc = "flush and kill"]
<1>1. /\ stack[t] # << >> /\ f.pc = "caught" /\ f \in FrameType
      /\ h \in FrameType /\ h.pc = "format" /\ g \in FrameType /\ g.pc = "flush and kill" /\ Invokes(t, h, g)
  BY HandlerForm
<1>2. FrameOK(t, f)
  BY <1>1, TopOK
<1>3. h.msg = f.msg /\ g.msg = f.msg
  BY HandlerForm
<1>4. f.msg.kind \notin Braces /\ h.msg.kind \notin Braces
  BY <1>1, <1>2, <1>3 DEF FrameOK, Braces, InHandler
<1> HIDE DEF g, h
<1> QED
  BY <1>1, <1>3, <1>4, QuietInvoke DEF OuterPC

LEMMA HandlerAgainQuiet ==
  ASSUME TypeInv, StacksInv, LastInv, NEW t \in Threads, HandlerFlushesAgain(t)
  PROVE  Quiet(t)
<1> DEFINE f == Top(t)
           g == [f EXCEPT !.pc = "kill"]
<1>1. stack[t] # << >> /\ f.pc = "flush and kill" /\ Goto(t, "kill") /\ "kill" \in PCs /\ StackType
  BY AtTop DEF HandlerFlushesAgain, PCs, Holding, TypeInv
<1>2. g \in FrameType /\ Turns(t, g)
  BY <1>1, GotoTurns
<1>3. FrameOK(t, f) /\ f \in FrameType
  BY <1>1, TopOK
<1>4. g.pc = "kill" /\ g.msg = f.msg
  BY <1>1, <1>3 DEF FrameType
<1>5. f.msg.kind \notin Braces
  BY <1>1, <1>3 DEF FrameOK, Braces, InHandler
<1> HIDE DEF g
<1> QED
  BY <1>1, <1>2, <1>4, <1>5, QuietTurn DEF OuterPC

LEMMA OpenBraceQuiet ==
  ASSUME TypeInv, StacksInv, LastInv, NEW t \in Threads, OpenBrace(t)
  PROVE  Quiet(t)
<1> DEFINE f == Top(t)
           h == Frame("format", f.msg)
           g == [f EXCEPT !.pc = "open indent"]
           s == stack[t]
           u == stack'[t]
<1>1. /\ s # << >> /\ f.pc = "open" /\ f \in FrameType
      /\ h \in FrameType /\ h.pc = "format" /\ h.msg = f.msg
      /\ g \in FrameType /\ g.pc = "open indent" /\ g.msg = f.msg /\ Invokes(t, h, g)
  BY ScopeForm DEF OpenBrace
<1>2. Called(s, u, h, g)
  BY <1>1, InvokeIsCalled
<1>3. FrameOK(t, f) /\ StackOK(t, s) /\ s \in Seq(FrameType) /\ f = s[1]
  BY <1>1, TopOK
<1>4. f.msg.kind \in Braces
  BY <1>1, <1>3 DEF FrameOK, Braces
<1>5. Len(u) = Len(s) + 1 /\ Len(s) \in Nat
  BY <1>2 DEF Called
<1> HIDE DEF f, g, h, s, u
<1>6. Len(s) = 1
  BY <1>1, <1>3, OuterIsLast DEF InLog, InHandler
<1>7. Last(s) = f /\ Above(s) = {}
  BY <1>3, <1>6, OneFrame
<1>8. Last(u) = g /\ Above(u) = {h}
  BY <1>1, <1>2, <1>3, <1>4, <1>6, InvokeEnds
<1>9. u # << >>
  BY <1>5
<1>10. LastOK(u) /\ NoNewScope(s, u)
  BY <1>1, <1>4, <1>7, <1>8, <1>9 DEF LastOK, NoNewScope, InLog
<1>11. ASSUME NEW k, NEW v
       PROVE  SameEnds(s, u, k, v)
  <2>1. Closing(u) = << >> /\ Closing(s) = << >>
    BY <1>1, <1>7, <1>8 DEF Closing
  <2>2. ~ Pends(s, k, v)
    BY <1>1, <1>7 DEF Pends
  <2>3. ~ Pends(u, k, v)
    BY <1>1, <1>8 DEF Pends, Reached
  <2> QED
    BY <2>1, <2>2, <2>3 DEF SameEnds
<1> QED
  BY <1>10, <1>11 DEF Quiet, s, u

LEMMA CloseReturnsQuiet ==
  ASSUME TypeInv, StacksInv, LastInv, NEW t \in Threads, CloseReturns(t)
  PROVE  Quiet(t)
<1> DEFINE s == stack[t]
<1>1. s # << >> /\ Top(t).pc = "close end"
  BY AtTop DEF CloseReturns
<1>2. StackOK(t, s) /\ s \in Seq(FrameType) /\ Top(t) = s[1]
  BY <1>1, TopOK
<1>3. stack'[t] = << >>
  BY ScopeReturns
<1> HIDE DEF s
<1>4. Len(s) = 1
  BY <1>1, <1>2, OuterIsLast DEF InLog, InHandler
<1>5. Last(s) = Top(t) /\ Above(s) = {}
  BY <1>2, <1>4, OneFrame
<1>6. LastOK(<< >>) /\ NoNewScope(s, << >>)
  BY DEF LastOK, NoNewScope
<1>7. ASSUME NEW k, NEW v
      PROVE  SameEnds(s, << >>, k, v)
  <2>1. ~ Pends(s, k, v) /\ Closing(s) = << >>
    BY <1>1, <1>5 DEF Pends, Closing
  <2> QED
    BY <2>1, EmptyEnds DEF SameEnds
<1> QED
  BY <1>3, <1>6, <1>7 DEF Quiet, s

LEMMA CallsQuiet ==
  ASSUME TypeInv, StacksInv, LastInv, NEW t \in Threads,
         AbortF(t) \/ Signal(t) \/ \E v \in Messages : LogF(t, v)
  PROVE  Quiet(t)
<1>1. Fatal \in Int /\ {"msg", "fatal", "signal"} \subseteq Kinds \ Braces
      /\ {"format", "caught"} \subseteq PCs \ OuterPC
  BY DEF Kinds, PCs, Holding, Fatal, Braces, OuterPC, InLog
<1>2. ASSUME NEW p \in {"format", "caught"}, NEW k \in {"msg", "fatal", "signal"}, NEW v \in Int,
             NEW f, f = Frame(p, Message(t, k, v)) \/ \E b \in LibcStates : f = [Frame(p, Message(t, k, v)) EXCEPT !.in_libc = b],
             Push(t, f)
      PROVE  Quiet(t)
  <2>1. f \in FrameType /\ f.pc = p /\ f.msg.kind = k
    BY <1>1, <1>2, NewFrame
  <2>2. f.msg.kind \notin Braces /\ f.pc \notin OuterPC
    BY <1>1, <2>1
  <2> QED
    BY <1>2, <2>1, <2>2, QuietPush
<1>3. ASSUME NEW v \in Messages, LogF(t, v)
      PROVE  Quiet(t)
  <2>1. v \in Int
    BY LoguruAssumption DEF Error
  <2>2. Push(t, Frame("format", Message(t, "msg", v))) \/ stack' = stack
    BY <1>3 DEF LogF
  <2> QED
    BY <1>2, <2>1, <2>2, QuietStill
<1>4. AbortF(t) => Quiet(t)
  BY <1>1, <1>2 DEF AbortF, LogAndAbort
<1>5. ASSUME Signal(t)
      PROVE  Quiet(t)
  <2>1. PICK b \in LibcStates : Push(t, [Frame("caught", Message(t, "signal", Fatal)) EXCEPT !.in_libc = b])
    BY <1>5, SignalPushes
  <2> QED
    BY <1>1, <1>2, <2>1
<1> QED
  BY <1>3, <1>4, <1>5

LEMMA SetupQuiet ==
  ASSUME TypeInv, StacksInv, LastInv, NEW v \in {Info, Error}, Push(Main, Setup(v))
  PROVE  Quiet(Main)
<1>1. v \in Int /\ "setup" \in Kinds /\ "format" \in PCs /\ Main \in Threads
  BY DEF Kinds, PCs, Threads, Info, Error
<1>2. Setup(v) \in FrameType /\ Setup(v).pc = "format" /\ Setup(v).msg.kind = "setup"
  BY <1>1, NewFrame DEF Setup
<1> QED
  BY <1>1, <1>2, QuietPush DEF Braces, OuterPC, InLog

LEMMA WriteEnds ==
  ASSUME TypeInv, StacksInv, LastInv, NEW t \in Threads, Write(t), NEW n, n = NextSink(Top(t))
  PROVE  /\ LastOK(stack'[t]) /\ NoNewScope(stack[t], stack'[t]) /\ Closing(stack'[t]) = Closing(stack[t])
         /\ \A k \in DOMAIN sinks : k # n \/ Top(t).msg.kind \notin Braces =>
              (Pends(stack'[t], k, sinks[k].verbosity) <=> Pends(stack[t], k, sinks[k].verbosity))
         /\ Top(t).msg.kind = "{" =>
              ~ Pends(stack[t], n, sinks[n].verbosity) /\ Pends(stack'[t], n, sinks[n].verbosity)
         /\ Top(t).msg.kind = "}" =>
              Pends(stack[t], n, sinks[n].verbosity) /\ ~ Pends(stack'[t], n, sinks[n].verbosity)
<1> DEFINE f == Top(t)
           g == [f EXCEPT !.pc = "flush", !.sink = n]
           s == stack[t]
           u == stack'[t]
<1>1. /\ s # << >> /\ f.pc = "write" /\ f \in FrameType /\ n \in DOMAIN sinks /\ n >= f.sink /\ Accepts(sinks[n], f.msg)
      /\ \A i \in DOMAIN sinks : i >= f.sink /\ i < n => ~ Accepts(sinks[i], f.msg)
      /\ g \in FrameType /\ Turns(t, g)
  BY WriteForm
<1>2. g.pc = "flush" /\ g.msg = f.msg /\ g.sink = n
  BY <1>1 DEF FrameType
<1>3. f.sink \in Nat \ {0} /\ f.msg.verbosity \in Int
  BY <1>1 DEF FrameType, MessageType
<1>4. StackOK(t, s) /\ s \in Seq(FrameType) /\ f = s[1] /\ LastOK(s)
  BY <1>1, TopOK, StackAt
<1> HIDE DEF g
<1>5. ASSUME NEW k \in DOMAIN sinks, k # n, f.msg.verbosity <= sinks[k].verbosity
      PROVE  Reached(g, k) <=> Reached(f, k)
  <2>1. k \in Nat \ {0} /\ n \in Nat \ {0}
    BY <1>1, SinkAt DEF TypeInv
  <2>2. ~ (k >= f.sink /\ k < n)
    BY <1>1, <1>5 DEF Accepts
  <2> HIDE DEF f
  <2>3. Reached(g, k) <=> k <= n
    BY <1>2 DEF Reached
  <2>4. Reached(f, k) <=> k < f.sink
    BY <1>1 DEF Reached
  <2> QED
    BY <1>1, <1>3, <1>5, <2>1, <2>2, <2>3, <2>4
<1>6. ASSUME NEW k \in DOMAIN sinks, k # n \/ f.msg.kind \notin Braces
      PROVE  SameEnds(s, u, k, sinks[k].verbosity) /\ LastOK(u) /\ NoNewScope(s, u)
  <2> DEFINE v == sinks[k].verbosity
  <2>1. f.msg.kind \in Braces /\ f.msg.verbosity <= v => (Reached(g, k) <=> Reached(f, k))
    BY <1>5, <1>6
  <2> HIDE DEF v
  <2>2. SameEnds(stack[t], stack'[t], k, v) /\ LastOK(stack'[t]) /\ NoNewScope(stack[t], stack'[t])
    BY <1>1, <1>2, <2>1, TurnSame DEF OuterPC, InLog
  <2> QED
    BY <2>2 DEF v
<1>7. CASE f.msg.kind \notin Braces
  <2>1. SameEnds(s, u, n, sinks[n].verbosity) /\ LastOK(u) /\ NoNewScope(s, u)
    BY <1>1, <1>6, <1>7
  <2> HIDE DEF s, u
  <2>2. \A k \in DOMAIN sinks : Pends(u, k, sinks[k].verbosity) <=> Pends(s, k, sinks[k].verbosity)
    BY <1>6, <1>7 DEF SameEnds
  <2> QED
    BY <1>7, <2>1, <2>2 DEF SameEnds, Braces, s, u
<1>8. CASE f.msg.kind \in Braces
  <2>1. u \in Seq(FrameType) /\ Len(u) = Len(s) /\ u[1] = g /\ \A j \in 2 .. Len(s) : u[j] = s[j]
    <3>1. u = [s EXCEPT ![1] = g]
      BY <1>1 DEF Turns, TypeInv, StackType
    <3> QED
      BY <1>1, <1>4, <3>1, TopFacts
  <2> HIDE DEF u, s, f
  <2>11. Len(s) = 2
    BY <1>1, <1>4, <1>8, BraceOnScope DEF InLog
  <2>2. /\ Above(s) = {f} /\ Last(s).msg = f.msg
        /\ Last(s).pc = IF f.msg.kind = "{" THEN "open indent" ELSE "close end"
    BY <1>1, <1>4, <1>8, BraceOnScope DEF InLog
  <2>3. Last(u) = Last(s) /\ Above(u) = {g}
    <3>1. g.msg.kind = s[1].msg.kind /\ g.msg.kind \in Braces
      BY <1>2, <1>4, <1>8
    <3>2. Len(u) = 2 /\ u[1] = g /\ u[2] = s[2]
      BY <2>1, <2>11
    <3>3. Last(s) = s[2] /\ Last(u) = u[2] /\ Above(u) = IF u[1].msg.kind \in Braces THEN {u[1]} ELSE {}
      BY <2>11, <3>2, TwoFrames
    <3> QED
      BY <3>1, <3>2, <3>3
  <2>4. u # << >>
    BY <2>1, <2>11
  <2>5. LastOK(u) /\ NoNewScope(s, u) /\ Closing(u) = Closing(s)
    BY <1>1, <1>4, <2>3, <2>4, SameLast DEF NoNewScope, Closing
  <2>6. ~ Reached(f, n) /\ Reached(g, n)
    <3>1. n \in Nat
      BY <1>1, SinkAt DEF TypeInv
    <3> QED
      BY <1>1, <1>2, <1>3, <3>1 DEF Reached
  <2>7. \A k \in DOMAIN sinks : k # n => (Pends(u, k, sinks[k].verbosity) <=> Pends(s, k, sinks[k].verbosity))
    BY <1>6 DEF SameEnds
  <2>8. f.msg.verbosity <= sinks[n].verbosity
    BY <1>1 DEF Accepts
  <2>9. ASSUME f.msg.kind = "{"
        PROVE  ~ Pends(s, n, sinks[n].verbosity) /\ Pends(u, n, sinks[n].verbosity)
    <3>1. Last(s).pc = "open indent" /\ Last(s).msg.verbosity <= sinks[n].verbosity
      BY <2>2, <2>8, <2>9
    <3> QED
      BY <2>2, <2>3, <2>4, <2>6, <3>1 DEF Pends
  <2>10. ASSUME f.msg.kind = "}"
         PROVE  Pends(s, n, sinks[n].verbosity) /\ ~ Pends(u, n, sinks[n].verbosity)
    <3>1. Last(s).pc = "close end" /\ Last(s).msg.verbosity <= sinks[n].verbosity
      BY <2>2, <2>8, <2>10
    <3> QED
      BY <1>1, <2>2, <2>3, <2>4, <2>6, <3>1 DEF Pends
  <2> QED
    BY <1>8, <2>5, <2>7, <2>9, <2>10 DEF f, s, u
<1> QED
  BY <1>7, <1>8

(* A thread that has the mutex, or may take it, is the only one whose      *)
(* scope can be between its brace and the counter.                         *)
LEMMA OthersDoNotPend ==
  ASSUME TypeInv, MutexInv, NEW t \in Threads, mutex.owner \in {t, NoThread}, NEW o \in Threads \ {t}, NEW k, NEW v
  PROVE  ~ Pends(stack[o], k, v)
<1> DEFINE s == stack[o]
<1>1. s \in Seq(FrameType) /\ HeldBy(s) = {}
  <2>1. o # mutex.owner
    BY LoguruAssumption
  <2> QED
    BY <2>1 DEF MutexInv, TypeInv, StackType
<1> HIDE DEF s
<1>2. ASSUME s # << >>
      PROVE  Last(s).pc \notin Holding
  <2>1. Len(s) \in Nat \ {0} /\ 1 \in 1 .. Len(s) /\ Len(s) + 1 - 1 = Len(s)
    BY <1>1, <1>2
  <2>2. 1 \notin HeldBy(s)
    BY <1>1
  <2>3. s[Len(s) + 1 - 1].pc \notin Holding
    BY <2>1, <2>2 DEF HeldBy
  <2> QED
    BY <2>1, <2>3 DEF Last
<1>3. ~ Pends(s, k, v)
  BY <1>2 DEF Pends, Holding
<1> QED
  BY <1>3 DEF s

LEMMA TopHolds ==
  ASSUME TypeInv, MutexInv, NEW t \in Threads, stack[t] # << >>, Top(t).pc \in Holding
  PROVE  mutex.owner = t
<1>1. stack[t] \in Seq(FrameType)
  BY DEF TypeInv, StackType
<1>2. HeldBy(stack[t]) # {}
  BY <1>1, TopNotCounted DEF Top
<1> QED
  BY <1>2 DEF MutexInv

(* A message of its own is logged by the outermost call. *)
LEMMA OwnMessage ==
  ASSUME TypeInv, StacksInv, NEW t \in Threads, stack[t] # << >>, Top(t).pc \in InLog,
         Top(t).msg.kind \in {"msg", "fatal"}, NEW k, NEW v
  PROVE  ~ Pends(stack[t], k, v)
<1> DEFINE s == stack[t]
<1>1. StackOK(t, s) /\ s \in Seq(FrameType) /\ Top(t) = s[1] /\ s # << >> /\ s[1].pc \notin InHandler
  BY TopOK DEF InLog, InHandler
<1> HIDE DEF s
<1>2. Len(s) \in Nat \ {0}
  BY <1>1
<1>3. ASSUME Len(s) # 1
      PROVE  FALSE
  <2>1. 1 \in 1 .. Len(s) - 1
    BY <1>2, <1>3, Counting
  <2>2. OnTopOf(s[1], s[2])
    BY <1>1, <2>1 DEF StackOK
  <2> QED
    BY <1>1, <2>2 DEF OnTopOf
<1>4. Last(s) = s[1]
  BY <1>3, OneFrame
<1>5. ~ Pends(s, k, v)
  BY <1>1, <1>4 DEF Pends, InLog
<1> QED
  BY <1>5 DEF s

LEMMA OpenScopeEnds ==
  ASSUME TypeInv, StacksInv, LastInv, NEW t \in Threads, NEW v \in Scopes, OpenScope(t, v)
  PROVE  /\ LastOK(stack'[t])
         /\ \A k \in DOMAIN sinks : SameEnds(stack[t], stack'[t], k, sinks[k].verbosity)
<1> DEFINE b == "{"
           f == Frame("open", Message(t, b, v))
<1>1. v \in Int /\ b \in Kinds /\ "open" \in PCs
  BY LoguruAssumption DEF Kinds, PCs, Info
<1>2. stack[t] = << >> /\ (Push(t, f) \/ stack' = stack)
  BY DEF OpenScope, Calls, Idle
<1> HIDE DEF b
<1>3. f \in FrameType /\ f.pc = "open"
  BY <1>1, NewFrame
<1> HIDE DEF f
<1>4. f.pc \notin OuterPC \cup InLog
  BY <1>3 DEF OuterPC, InLog
<1>5. CASE Push(t, f)
  BY <1>2, <1>3, <1>4, <1>5, PushSame, FirstSink
<1>6. CASE stack' = stack
  BY <1>6, QuietStill DEF Quiet
<1> QED
  BY <1>2, <1>5, <1>6

(* The scope leaves scopes, its destructor is called. *)
LEMMA CloseScopeEnds ==
  ASSUME TypeInv, StacksInv, ScopesInv, LastInv, NEW t \in Threads, CloseScope(t)
  PROVE  /\ LastOK(stack'[t]) /\ scopes[t] # << >>
         /\ Closing(stack[t]) = << >> /\ Closing(stack'[t]) = <<Head(scopes[t])>>
         /\ scopes'[t] = Tail(scopes[t])
         /\ \A k, v : ~ Pends(stack[t], k, v) /\ ~ Pends(stack'[t], k, v)
<1> DEFINE v == Head(scopes[t])
           b == "}"
           f == Frame("close", Message(t, b, v))
           u == stack'[t]
<1>1. v \in Int /\ b \in Kinds /\ "close" \in PCs
  <2>1. scopes[t] \in Seq(Info .. 9) /\ scopes[t] # << >>
    BY DEF CloseScope, ScopesInv
  <2>2. v \in Info .. 9
    BY <2>1, HeadTailProperties
  <2> QED
    BY <2>2 DEF Kinds, PCs, Info
<1>2. stack[t] = << >> /\ Push(t, f) /\ scopes[t] # << >>
  BY DEF CloseScope, Idle
<1>3. scopes'[t] = Tail(scopes[t])
  BY DEF CloseScope, TypeInv, ControlType
<1> HIDE DEF b, v
<1>4. f \in FrameType /\ f.pc = "close" /\ f.msg.verbosity = v
  BY <1>1, NewFrame
<1>5. u = <<f>> \o stack[t] /\ stack[t] \in Seq(FrameType)
  BY <1>2 DEF Push, TypeInv, StackType
<1> HIDE DEF f, u
<1>6. u # << >> /\ Last(u) = f
  BY <1>2, <1>4, <1>5, PushEnds
<1>7. Closing(u) = <<v>> /\ LastOK(u) /\ \A k, w : ~ Pends(u, k, w)
  BY <1>4, <1>6 DEF Closing, LastOK, Pends, InLog
<1> QED
  BY <1>2, <1>3, <1>7, EmptyEnds DEF u, v

LEMMA OpenIndentEnds ==
  ASSUME TypeInv, StacksInv, LastInv, NEW t \in Threads, OpenIndent(t)
  PROVE  /\ stack[t] # << >> /\ Top(t).pc = "open indent" /\ Last(stack[t]).msg.kind \in Braces
         /\ LastOK(stack'[t]) /\ Closing(stack[t]) = << >> /\ Closing(stack'[t]) = << >>
         /\ \A k, v : Pends(stack[t], k, v) <=> Top(t).msg.verbosity <= v
         /\ \A k, v : ~ Pends(stack'[t], k, v)
<1> DEFINE s == stack[t]
<1>1. s # << >> /\ Top(t).pc = "open indent"
  BY AtTop DEF OpenIndent
<1>2. StackOK(t, s) /\ s \in Seq(FrameType) /\ Top(t) = s[1] /\ FrameOK(t, Top(t))
  BY <1>1, TopOK
<1>3. stack'[t] = << >>
  BY ScopeReturns
<1> HIDE DEF s
<1>4. Len(s) = 1
  BY <1>1, <1>2, OuterIsLast DEF InLog, InHandler
<1>5. Last(s) = Top(t) /\ Above(s) = {}
  BY <1>2, <1>4, OneFrame
<1>6. Last(s).msg.kind \in Braces
  BY <1>1, <1>2, <1>5 DEF FrameOK, Braces
<1>7. Closing(s) = << >>
  BY <1>1, <1>5 DEF Closing
<1>8. \A k, v : Pends(s, k, v) <=> Top(t).msg.verbosity <= v
  BY <1>1, <1>5 DEF Pends
<1>9. LastOK(<< >>)
  BY DEF LastOK
<1> QED
  BY <1>1, <1>3, <1>6, <1>7, <1>8, <1>9, EmptyEnds DEF s

LEMMA CloseIndentEnds ==
  ASSUME TypeInv, StacksInv, LastInv, NEW t \in Threads, CloseIndent(t)
  PROVE  /\ stack[t] # << >> /\ Last(stack[t]).msg.kind \in Braces /\ LastOK(stack'[t])
         /\ Closing(stack[t]) = <<Top(t).msg.verbosity>> /\ Closing(stack'[t]) = << >>
         /\ \A k, v : ~ Pends(stack[t], k, v)
         /\ \A k, v : Pends(stack'[t], k, v) <=> Top(t).msg.verbosity <= v
<1> DEFINE f == Top(t)
           h == Frame("format", f.msg)
           g == [f EXCEPT !.pc = "close end"]
           s == stack[t]
           u == stack'[t]
<1>1. /\ s # << >> /\ f.pc = "close" /\ f \in FrameType
      /\ h \in FrameType /\ h.pc = "format" /\ h.msg = f.msg
      /\ g \in FrameType /\ g.pc = "close end" /\ g.msg = f.msg /\ Invokes(t, h, g)
  BY ScopeForm DEF CloseIndent
<1>2. Called(s, u, h, g)
  BY <1>1, InvokeIsCalled
<1>3. FrameOK(t, f) /\ StackOK(t, s) /\ s \in Seq(FrameType) /\ f = s[1]
  BY <1>1, TopOK
<1>4. f.msg.kind \in Braces
  BY <1>1, <1>3 DEF FrameOK, Braces
<1>5. Len(u) = Len(s) + 1 /\ Len(s) \in Nat
  BY <1>2 DEF Called
<1> HIDE DEF f, g, h, s, u
<1>6. Len(s) = 1
  BY <1>1, <1>3, OuterIsLast DEF InLog, InHandler
<1>7. Last(s) = f /\ Above(s) = {}
  BY <1>3, <1>6, OneFrame
<1>8. Last(u) = g /\ Above(u) = {h}
  BY <1>1, <1>2, <1>3, <1>4, <1>6, InvokeEnds
<1>9. u # << >>
  BY <1>5
<1>10. LastOK(u)
  BY <1>1, <1>8 DEF LastOK, InLog
<1>11. Closing(s) = <<f.msg.verbosity>> /\ Closing(u) = << >>
  BY <1>1, <1>7, <1>8 DEF Closing
<1>12. \A k, v : ~ Pends(s, k, v)
  BY <1>1, <1>7 DEF Pends
<1>13. \A k, v : Pends(u, k, v) <=> f.msg.verbosity <= v
  BY <1>1, <1>8, <1>9 DEF Pends, Reached
<1> QED
  BY <1>1, <1>4, <1>7, <1>10, <1>11, <1>12, <1>13 DEF f, s, u

-----------------------------------------------------------------------------
(* The scopes that are open, of all threads. *)

(* From the outermost of a thread, those that a sink of verbosity w sees. *)
OpenOf(F, w) ==
  {p \in Threads \X Nat : p[2] \in 1 .. Len(F[p[1]]) /\ F[p[1]][Len(F[p[1]]) + 1 - p[2]] <= w}

(* One more of t, the innermost, in G. *)
Deeper(F, G, t, v) == G[t] = <<v>> \o F[t] /\ \A o \in Threads \ {t} : G[o] = F[o]

(* B has e as well, if c. *)
OneMore(A, B, e, c) == e \notin A /\ B = IF c THEN A \cup {e} ELSE A

LEMMA MoreOpen ==
  ASSUME NEW F \in [Threads -> Seq(Int)], NEW G \in [Threads -> Seq(Int)], NEW t \in Threads, NEW v \in Int,
         Deeper(F, G, t, v), NEW w \in Int
  PROVE  \E e : OneMore(OpenOf(F, w), OpenOf(G, w), e, v <= w)
<1> DEFINE s == F[t]
           u == G[t]
           n == Len(s)
           new == <<t, n + 1>>
<1>1. s \in Seq(Int) /\ u = <<v>> \o s /\ \A o \in Threads \ {t} : G[o] = F[o]
  BY DEF Deeper
<1>2. Len(u) = n + 1 /\ n \in Nat /\ u[1] = v /\ \A j \in 2 .. n + 1 : u[j] = s[j - 1]
  BY <1>1, PushFacts
<1> HIDE DEF s, u, n
<1>3. ASSUME NEW j \in 1 .. n
      PROVE  u[(n + 1) + 1 - j] = s[n + 1 - j]
  <2>1. (n + 1) + 1 - j \in 2 .. n + 1 /\ ((n + 1) + 1 - j) - 1 = n + 1 - j
    BY <1>2
  <2> QED
    BY <1>2, <2>1
<1>4. u[(n + 1) + 1 - (n + 1)] = v
  BY <1>2
<1>5. new \notin OpenOf(F, w)
  BY <1>2 DEF OpenOf, s, n
<1>6. ASSUME NEW p \in Threads \X Nat
      PROVE  p \in OpenOf(G, w) <=> p \in OpenOf(F, w) \/ (v <= w /\ p = new)
  <2>1. PICK o \in Threads, j \in Nat : p = <<o, j>>
    OBVIOUS
  <2>2. /\ p \in OpenOf(G, w) <=> j \in 1 .. Len(G[o]) /\ G[o][Len(G[o]) + 1 - j] <= w
        /\ p \in OpenOf(F, w) <=> j \in 1 .. Len(F[o]) /\ F[o][Len(F[o]) + 1 - j] <= w
    BY <2>1 DEF OpenOf
  <2>3. CASE o # t
    BY <1>1, <2>1, <2>2, <2>3
  <2>4. CASE o = t
    <3>1. /\ p \in OpenOf(G, w) <=> j \in 1 .. n + 1 /\ u[(n + 1) + 1 - j] <= w
          /\ p \in OpenOf(F, w) <=> j \in 1 .. n /\ s[n + 1 - j] <= w
      BY <1>2, <2>2, <2>4 DEF s, u, n
    <3>2. p = new <=> j = n + 1
      BY <2>1, <2>4
    <3>3. CASE j \in 1 .. n
      <4>1. j \in 1 .. n + 1 /\ j # n + 1
        BY <1>2, <3>3
      <4> QED
        BY <1>3, <3>1, <3>2, <3>3, <4>1
    <3>4. CASE j = n + 1
      <4>1. j \in 1 .. n + 1 /\ j \notin 1 .. n
        BY <1>2, <3>4
      <4> QED
        BY <1>4, <3>1, <3>2, <3>4, <4>1
    <3>5. CASE j \notin 1 .. n + 1
      <4>1. j \notin 1 .. n /\ j # n + 1
        BY <1>2, <3>5
      <4> QED
        BY <3>1, <3>2, <3>5, <4>1
    <3> QED
      BY <1>2, <3>3, <3>4, <3>5
  <2> QED
    BY <2>3, <2>4
<1>7. new \in Threads \X Nat /\ OpenOf(G, w) \subseteq Threads \X Nat /\ OpenOf(F, w) \subseteq Threads \X Nat
  BY <1>2 DEF OpenOf
<1> HIDE DEF new
<1>8. /\ (v <= w) => (OpenOf(G, w) = OpenOf(F, w) \cup {new})
      /\ ~ (v <= w) => (OpenOf(G, w) = OpenOf(F, w))
  BY <1>6, <1>7
<1> QED
  BY <1>5, <1>8 DEF OneMore

LEMMA OneMoreOpen ==
  ASSUME NEW F \in [Threads -> Seq(Int)], NEW G \in [Threads -> Seq(Int)], NEW t \in Threads, NEW v \in Int,
         Deeper(F, G, t, v), NEW w \in Int,
         IsFiniteSet(OpenOf(F, w)) \/ IsFiniteSet(OpenOf(G, w))
  PROVE  /\ IsFiniteSet(OpenOf(F, w)) /\ IsFiniteSet(OpenOf(G, w)) /\ Cardinality(OpenOf(F, w)) \in Nat
         /\ v <= w => Cardinality(OpenOf(G, w)) = Cardinality(OpenOf(F, w)) + 1
         /\ ~ (v <= w) => Cardinality(OpenOf(G, w)) = Cardinality(OpenOf(F, w))
<1> DEFINE A == OpenOf(F, w)
           B == OpenOf(G, w)
<1> HIDE DEF A, B
<1>1. PICK e : OneMore(A, B, e, v <= w)
  BY MoreOpen DEF A, B
<1>2. IsFiniteSet(A) \/ IsFiniteSet(B)
  BY DEF A, B
<1>3. IsFiniteSet(A)
  <2>1. A \subseteq B
    BY <1>1 DEF OneMore
  <2> QED
    BY <1>2, <2>1, FS_Subset
<1>4. CASE v <= w
  <2>1. B = A \cup {e} /\ e \notin A
    BY <1>1, <1>4 DEF OneMore
  <2>2. IsFiniteSet(A \cup {e}) /\ Cardinality(A \cup {e}) = Cardinality(A) + 1
    BY <1>3, <2>1, FS_AddElement
  <2> QED
    BY <1>3, <1>4, <2>1, <2>2, FS_CardinalityType DEF A, B
<1>5. CASE ~ (v <= w)
  <2>1. B = A
    BY <1>1, <1>5 DEF OneMore
  <2> QED
    BY <1>3, <1>5, <2>1, FS_CardinalityType DEF A, B
<1> QED
  BY <1>4, <1>5

LEMMA NoneOpen ==
  ASSUME NEW F, \A o \in Threads : F[o] = << >>, NEW w
  PROVE  IsFiniteSet(OpenOf(F, w)) /\ Cardinality(OpenOf(F, w)) = 0
<1>1. OpenOf(F, w) = {}
  <2>1. ASSUME NEW p \in Threads \X Nat, p[2] \in 1 .. Len(F[p[1]])
        PROVE  FALSE
    <3>1. F[p[1]] = << >>
      BY <2>1
    <3>2. p[2] \in 1 .. 0 /\ p[2] \in Nat
      BY <2>1, <3>1
    <3> QED
      BY <3>2
  <2> QED
    BY <2>1 DEF OpenOf
<1> QED
  BY <1>1, FS_EmptySet

(* Those of a thread whose braces are open, of the counters of a sink. *)
Opened == [o \in Threads |-> Closing(stack[o]) \o scopes[o]]

(* A counter is the number of scopes that are open. *)
Depth(k) ==
  LET O == OpenOf(Opened, sinks[k].verbosity)
  IN  IsFiniteSet(O) /\ sinks[k].indentation = Cardinality(O)

DepthInv == \A k \in DOMAIN sinks : Depth(k)

LEMMA OpenedType ==
  ASSUME TypeInv
  PROVE  Opened \in [Threads -> Seq(Int)]
<1> SUFFICES ASSUME NEW o \in Threads
             PROVE  Closing(stack[o]) \o scopes[o] \in Seq(Int)
  BY DEF Opened
<1>1. scopes[o] \in Seq(Int) /\ stack[o] \in Seq(FrameType)
  BY DEF TypeInv, ControlType, StackType
<1>2. Closing(stack[o]) \in Seq(Int)
  <2>1. CASE stack[o] # << >>
    <3>1. Last(stack[o]) \in FrameType
      BY <1>1, <2>1 DEF Last
    <3>2. Last(stack[o]).msg.verbosity \in Int
      BY <3>1 DEF FrameType, MessageType
    <3> QED
      BY <3>2 DEF Closing
  <2>2. CASE stack[o] = << >>
    BY <2>2 DEF Closing
  <2> QED
    BY <2>1, <2>2
<1> QED
  BY <1>1, <1>2

(* The braces of a sink. *)
LinesOf(s, kind) == {j \in DOMAIN s.lines : s.lines[j].kind = kind}

Marks(s, kind) == Cardinality(LinesOf(s, kind))

Pending(k) == \E o \in Threads : Pends(stack[o], k, sinks[k].verbosity)

(* A counter is the number of braces that are open, or one behind. *)
Gap(k) == IF Pending(k) THEN 1 ELSE 0

Nest(k) == sinks[k].indentation = Marks(sinks[k], "{") - Marks(sinks[k], "}") - Gap(k)

NestInv == \A k \in DOMAIN sinks : Nest(k)

(* No scope before the threads run. *)
EarlyInv ==
  stage # "running" =>
    \A o \in Threads : scopes[o] = << >> /\ (stack[o] # << >> => Last(stack[o]).msg.kind \notin Braces)

LEMMA MarksType ==
  ASSUME NEW s \in SinkType, NEW kind
  PROVE  IsFiniteSet(LinesOf(s, kind)) /\ Marks(s, kind) \in Nat
<1>1. s.lines \in Seq(LineType)
  BY DEF SinkType
<1>2. DOMAIN s.lines = 1 .. Len(s.lines) /\ Len(s.lines) \in Nat
  BY <1>1
<1>3. IsFiniteSet(DOMAIN s.lines)
  BY <1>2, FS_Interval
<1>4. IsFiniteSet(LinesOf(s, kind))
  BY <1>3, FS_Subset DEF LinesOf
<1> QED
  BY <1>4, FS_CardinalityType DEF Marks

(* One line more. *)
LEMMA MarksAppend ==
  ASSUME NEW s \in SinkType, NEW u, NEW l \in LineType, u.lines = Append(s.lines, l), NEW kind
  PROVE  /\ l.kind = kind => Marks(u, kind) = Marks(s, kind) + 1
         /\ l.kind # kind => Marks(u, kind) = Marks(s, kind)
<1> DEFINE n == Len(s.lines)
           A == LinesOf(s, kind)
           B == LinesOf(u, kind)
<1>1. s.lines \in Seq(LineType)
  BY DEF SinkType
<1>2. /\ DOMAIN u.lines = DOMAIN s.lines \cup {n + 1} /\ n + 1 \notin DOMAIN s.lines
      /\ u.lines[n + 1] = l /\ \A j \in DOMAIN s.lines : u.lines[j] = s.lines[j]
  BY <1>1
<1> HIDE DEF n
<1>3. /\ n + 1 \notin A
      /\ l.kind = kind => B = A \cup {n + 1}
      /\ l.kind # kind => B = A
  BY <1>2 DEF LinesOf
<1>4. IsFiniteSet(A)
  BY MarksType
<1> HIDE DEF A, B
<1>5. l.kind = kind => Cardinality(B) = Cardinality(A) + 1
  BY <1>3, <1>4, FS_AddElement
<1>6. l.kind # kind => Cardinality(B) = Cardinality(A)
  BY <1>3
<1> QED
  BY <1>5, <1>6 DEF Marks, A, B

-----------------------------------------------------------------------------
(* The steps that leave the counters alone *)

(* No line, no counter. *)
Level ==
  /\ DOMAIN sinks' = DOMAIN sinks
  /\ \A k \in DOMAIN sinks : /\ sinks'[k].lines = sinks[k].lines /\ sinks'[k].verbosity = sinks[k].verbosity
                             /\ sinks'[k].indentation = sinks[k].indentation

LEMMA LevelSteps ==
  ASSUME TypeInv
  PROVE  /\ sinks' = sinks => Level
         /\ FlushAll => Level
         /\ \A t \in Threads : Flush(t) => Level
<1>1. \A k \in DOMAIN sinks : sinks[k] \in SinkType
  BY SinkAt DEF TypeInv
<1>2. sinks' = sinks => Level
  BY DEF Level
<1>3. ASSUME FlushAll
      PROVE  Level
  <2>1. DOMAIN sinks' = DOMAIN sinks /\ \A k \in DOMAIN sinks : sinks'[k] = Flushed(sinks[k])
    BY <1>3 DEF FlushAll
  <2> QED
    BY <1>1, <2>1, FlushedFacts DEF Level
<1>4. ASSUME NEW t \in Threads, Flush(t)
      PROVE  Level
  <2> DEFINE k == Top(t).sink
  <2>1. sinks' = [sinks EXCEPT ![k] = Flushed(sinks[k])]
    BY <1>4, FlushForm
  <2> HIDE DEF k
  <2>2. DOMAIN sinks' = DOMAIN sinks /\ \A i \in DOMAIN sinks : sinks'[i] = IF i = k THEN Flushed(sinks[i]) ELSE sinks[i]
    BY <2>1
  <2> QED
    BY <1>1, <2>2, FlushedFacts DEF Level
<1> QED
  BY <1>2, <1>3, <1>4

(* The lines of a sink are indented by their place between the braces. *)
OpenBefore(ls, i) == {j \in 1 .. i : ls[j].kind = "{" /\ j < i}

ClosedUpTo(ls, i) == {j \in 1 .. i : ls[j].kind = "}" /\ j <= i}

Nested(ls) ==
  \A i \in DOMAIN ls :
    ls[i].kind \in {"msg", "{", "}", "fatal"} =>
      ls[i].indentation = Indentation(Cardinality(OpenBefore(ls, i)) - Cardinality(ClosedUpTo(ls, i)))

LEMMA NestedSinks == IndentedByNesting <=> \A k \in DOMAIN sinks : Nested(sinks[k].lines)
<1>1. IndentedByNesting <=> \A s \in Range(sinks) : Nested(s.lines)
  BY Zenon DEF IndentedByNesting, Nested, OpenBefore, ClosedUpTo
<1>2. Range(sinks) = {sinks[k] : k \in DOMAIN sinks}
  BY DEF Range
<1> QED
  BY <1>1, <1>2

NestingInv == LastInv /\ EarlyInv /\ DepthInv /\ NestInv /\ \A k \in DOMAIN sinks : Nested(sinks[k].lines)

(* What the counters see of a thread. *)
SameView(t) ==
  /\ LastOK(stack'[t]) /\ Closing(stack'[t]) \o scopes'[t] = Closing(stack[t]) \o scopes[t]
  /\ \A k \in DOMAIN sinks : Pends(stack'[t], k, sinks[k].verbosity) <=> Pends(stack[t], k, sinks[k].verbosity)

LEMMA SameViewEnds ==
  ASSUME TypeInv, NEW t \in Threads, LastOK(stack'[t]), scopes'[t] = scopes[t],
         \A k \in DOMAIN sinks : SameEnds(stack[t], stack'[t], k, sinks[k].verbosity)
  PROVE  SameView(t)
BY FirstSink DEF SameView, SameEnds

OwnStep(t) == \A o \in Threads \ {t} : stack'[o] = stack[o] /\ scopes'[o] = scopes[o]

LEMMA OthersLast ==
  ASSUME LastInv, NEW t \in Threads, OwnStep(t), LastOK(stack'[t])
  PROVE  LastInv'
BY DEF LastInv, OwnStep

LEMMA EarlyStep ==
  ASSUME EarlyInv, NEW t \in Threads, OwnStep(t), stage = "running" => stage' = "running",
         stage = "running" \/ (NoNewScope(stack[t], stack'[t]) /\ scopes'[t] = scopes[t])
  PROVE  EarlyInv'
<1>1. CASE stage = "running"
  BY <1>1 DEF EarlyInv
<1>2. CASE stage # "running"
  <2>1. ASSUME NEW o \in Threads
        PROVE  scopes'[o] = << >> /\ (stack'[o] # << >> => Last(stack'[o]).msg.kind \notin Braces)
    <3>1. scopes[o] = << >> /\ (stack[o] # << >> => Last(stack[o]).msg.kind \notin Braces)
      BY <1>2 DEF EarlyInv
    <3>2. CASE o = t
      BY <1>2, <3>1, <3>2 DEF NoNewScope
    <3>3. CASE o # t
      BY <3>1, <3>3 DEF OwnStep
    <3> QED
      BY <3>2, <3>3
  <2> QED
    BY <2>1 DEF EarlyInv
<1> QED
  BY <1>1, <1>2

LEMMA LevelStep ==
  ASSUME TypeInv, NestingInv, NEW t \in Threads, OwnStep(t), Level, SameView(t)
  PROVE  LastInv' /\ DepthInv' /\ NestInv' /\ \A k \in DOMAIN sinks' : Nested(sinks'[k].lines)
<1>1. LastInv'
  BY OthersLast DEF NestingInv, SameView
<1>2. Opened' = Opened
  <2>1. ASSUME NEW o \in Threads
        PROVE  Closing(stack'[o]) \o scopes'[o] = Closing(stack[o]) \o scopes[o]
    <3>1. CASE o = t
      BY <3>1 DEF SameView
    <3>2. CASE o # t
      BY <3>2 DEF OwnStep
    <3> QED
      BY <3>1, <3>2
  <2> QED
    BY <2>1 DEF Opened
<1>3. ASSUME NEW k \in DOMAIN sinks'
      PROVE  Depth(k)' /\ Nest(k)' /\ Nested(sinks'[k].lines)
  <2>1. k \in DOMAIN sinks /\ sinks'[k].lines = sinks[k].lines /\ sinks'[k].verbosity = sinks[k].verbosity
        /\ sinks'[k].indentation = sinks[k].indentation
    BY DEF Level
  <2>2. Depth(k) /\ Nest(k) /\ Nested(sinks[k].lines)
    BY <2>1 DEF NestingInv, DepthInv, NestInv
  <2>3. Depth(k)'
    BY <1>2, <2>1, <2>2 DEF Depth
  <2>4. \A kind : Marks(sinks'[k], kind) = Marks(sinks[k], kind)
    BY <2>1 DEF Marks, LinesOf
  <2>5. Pending(k)' <=> Pending(k)
    <3>1. ASSUME NEW o \in Threads
          PROVE  Pends(stack'[o], k, sinks[k].verbosity) <=> Pends(stack[o], k, sinks[k].verbosity)
      <4>1. CASE o = t
        BY <2>1, <4>1 DEF SameView
      <4>2. CASE o # t
        BY <4>2 DEF OwnStep
      <4> QED
        BY <4>1, <4>2
    <3> QED
      BY <2>1, <3>1 DEF Pending
  <2>6. Nest(k)'
    <3>1. Gap(k)' = Gap(k)
      BY <2>5 DEF Gap
    <3>2. Marks(sinks'[k], "{") = Marks(sinks[k], "{") /\ Marks(sinks'[k], "}") = Marks(sinks[k], "}")
      BY <2>4
    <3>3. sinks[k].indentation = Marks(sinks[k], "{") - Marks(sinks[k], "}") - Gap(k)
      BY <2>2 DEF Nest
    <3>4. sinks'[k].indentation = Marks(sinks'[k], "{") - Marks(sinks'[k], "}") - Gap(k)'
      BY <2>1, <3>1, <3>2, <3>3
    <3> QED
      BY <3>4 DEF Nest
  <2> QED
    BY <2>1, <2>2, <2>3, <2>6
<1> QED
  BY <1>1, <1>3 DEF DepthInv, NestInv

-----------------------------------------------------------------------------
(* The step that writes a line *)

LEMMA AppendFacts ==
  ASSUME NEW F, NEW ls \in Seq(F), NEW l \in F, NEW n, n = Len(ls)
  PROVE  /\ n \in Nat /\ DOMAIN ls = 1 .. n /\ DOMAIN Append(ls, l) = 1 .. n + 1
         /\ Append(ls, l)[n + 1] = l /\ \A j \in 1 .. n : Append(ls, l)[j] = ls[j]
OBVIOUS

(* The line after n others is. *)
EndNested(u, l, n) ==
  l.kind \in {"msg", "{", "}", "fatal"} =>
    l.indentation = Indentation(Cardinality(OpenBefore(u, n + 1)) - Cardinality(ClosedUpTo(u, n + 1)))

LEMMA SameNested ==
  ASSUME NEW ls \in Seq(LineType), NEW l \in LineType, NEW n, n = Len(ls), Nested(ls),
         NEW u, u = Append(ls, l), EndNested(u, l, n)
  PROVE  Nested(u)
<1>1. n \in Nat /\ DOMAIN ls = 1 .. n /\ DOMAIN u = 1 .. n + 1 /\ u[n + 1] = l /\ \A j \in 1 .. n : u[j] = ls[j]
  BY AppendFacts
<1>2. ASSUME NEW i \in 1 .. n
      PROVE  OpenBefore(u, i) = OpenBefore(ls, i) /\ ClosedUpTo(u, i) = ClosedUpTo(ls, i)
  <2>0. 1 .. i \subseteq 1 .. n
    BY <1>1
  <2>1. \A j \in 1 .. i : u[j] = ls[j]
    BY <1>1, <2>0
  <2> QED
    BY <2>1 DEF OpenBefore, ClosedUpTo
<1>3. ASSUME NEW i \in 1 .. n + 1, u[i].kind \in {"msg", "{", "}", "fatal"}
      PROVE  u[i].indentation = Indentation(Cardinality(OpenBefore(u, i)) - Cardinality(ClosedUpTo(u, i)))
  <2>1. CASE i = n + 1
    <3>1. l.indentation = Indentation(Cardinality(OpenBefore(u, n + 1)) - Cardinality(ClosedUpTo(u, n + 1)))
      BY <1>1, <1>3, <2>1 DEF EndNested
    <3> QED
      BY <1>1, <2>1, <3>1
  <2>2. CASE i # n + 1
    <3>1. i \in 1 .. n
      BY <1>1, <2>2
    <3>2. u[i] = ls[i] /\ i \in DOMAIN ls
      BY <1>1, <3>1
    <3>3. ls[i].indentation = Indentation(Cardinality(OpenBefore(ls, i)) - Cardinality(ClosedUpTo(ls, i)))
      BY <1>3, <3>2 DEF Nested
    <3> QED
      BY <1>2, <3>1, <3>2, <3>3
  <2> QED
    BY <2>1, <2>2
<1> QED
  BY <1>1, <1>3 DEF Nested

LEMMA Reckoning ==
  ASSUME NEW i, NEW a \in Nat, NEW b \in Nat
  PROVE  /\ i = a - b - 1 => a - (b + 1) = i /\ i = a - (b + 1) - 0
         /\ i = a - b - 0 => a - b = i /\ i = (a + 1) - b - 1
OBVIOUS

(* At the end of the lines the braces are all there are, with the new one. *)
LEMMA BracesAtEnd ==
  ASSUME NEW s \in SinkType, NEW l \in LineType, NEW n, n = Len(s.lines)
  PROVE  /\ Cardinality(OpenBefore(Append(s.lines, l), n + 1)) = Marks(s, "{")
         /\ l.kind = "}" => Cardinality(ClosedUpTo(Append(s.lines, l), n + 1)) = Marks(s, "}") + 1
         /\ l.kind # "}" => Cardinality(ClosedUpTo(Append(s.lines, l), n + 1)) = Marks(s, "}")
<1> DEFINE u == Append(s.lines, l)
<1>1. s.lines \in Seq(LineType)
  BY DEF SinkType
<1>2. n \in Nat /\ DOMAIN s.lines = 1 .. n /\ DOMAIN u = 1 .. n + 1 /\ u[n + 1] = l /\ \A j \in 1 .. n : u[j] = s.lines[j]
  BY <1>1, AppendFacts
<1> DEFINE r == [s EXCEPT !.lines = u]
<1>3. r.lines = u
  BY DEF SinkType
<1>4. /\ l.kind = "}" => Marks(r, "}") = Marks(s, "}") + 1
      /\ l.kind # "}" => Marks(r, "}") = Marks(s, "}")
  BY <1>3, MarksAppend, ZenonT(40)
<1> HIDE DEF u, r
<1>5. OpenBefore(u, n + 1) = LinesOf(s, "{")
  <2>1. \A j \in 1 .. n + 1 : j < n + 1 <=> j \in 1 .. n
    BY <1>2
  <2>2. 1 .. n \subseteq 1 .. n + 1
    BY <1>2
  <2> QED
    BY <1>2, <2>1, <2>2 DEF OpenBefore, LinesOf
<1>6. ClosedUpTo(u, n + 1) = LinesOf(r, "}")
  <2>1. \A j \in 1 .. n + 1 : j <= n + 1
    BY <1>2
  <2> QED
    BY <1>2, <1>3, <2>1 DEF ClosedUpTo, LinesOf
<1> QED
  BY <1>4, <1>5, <1>6 DEF Marks, u

LEMMA WriteStep ==
  ASSUME TypeInv, MutexInv, StacksInv, NestingInv, NEW t \in Threads, Write(t)
  PROVE  LastInv' /\ DepthInv' /\ NestInv' /\ \A k \in DOMAIN sinks' : Nested(sinks'[k].lines)
<1> DEFINE f == Top(t)
<1>0. PICK n : n = NextSink(f)
  OBVIOUS
<1> DEFINE l == Line(sinks[n], f.msg)
           kind == f.msg.kind
           P(k) == Pends(stack[t], k, sinks[k].verbosity)
           Q(k) == Pends(stack'[t], k, sinks[k].verbosity)
<1>1. /\ n \in DOMAIN sinks /\ DOMAIN sinks' = DOMAIN sinks
      /\ \A k \in DOMAIN sinks \ {n} : sinks'[k] = sinks[k]
      /\ sinks'[n].lines = Append(sinks[n].lines, l)
      /\ sinks'[n].verbosity = sinks[n].verbosity /\ sinks'[n].indentation = sinks[n].indentation
      /\ l \in LineType /\ l.kind = kind
  BY <1>0, WriteSinks
<1>2. stack[t] # << >> /\ f.pc = "write" /\ f \in FrameType
  BY WriteForm
<1>3. LastInv
  BY DEF NestingInv
<1>4. /\ LastOK(stack'[t]) /\ Closing(stack'[t]) = Closing(stack[t])
      /\ \A k \in DOMAIN sinks : k # n \/ kind \notin Braces => (Q(k) <=> P(k))
      /\ kind = "{" => ~ P(n) /\ Q(n)
      /\ kind = "}" => P(n) /\ ~ Q(n)
  BY <1>0, <1>3, WriteEnds
<1>5. OwnStep(t) /\ scopes' = scopes
  <2>1. ThreadStep(t) /\ scopes' = scopes
    BY DEF ThreadStep, InCall, Write, thread
  <2> QED
    BY <2>1, ThreadStepFacts DEF OwnStep
<1>6. LastInv'
  BY <1>3, <1>4, <1>5, OthersLast
<1>7. mutex.owner = t
  BY <1>2, TopHolds DEF Holding
<1>8. Opened' = Opened
  BY <1>4, <1>5 DEF Opened, OwnStep
<1>9. kind \in {"msg", "fatal"} => ~ P(n)
  BY <1>2, OwnMessage DEF InLog
<1>10. ASSUME NEW k \in DOMAIN sinks
       PROVE  (Pending(k) <=> P(k)) /\ (Pending(k)' <=> Q(k))
  <2>1. \A o \in Threads \ {t} : ~ Pends(stack[o], k, sinks[k].verbosity) /\ stack'[o] = stack[o]
    BY <1>5, <1>7, OthersDoNotPend DEF OwnStep
  <2>2. sinks'[k].verbosity = sinks[k].verbosity
    BY <1>1
  <2> QED
    BY <2>1, <2>2 DEF Pending
<1>11. l.indentation = IF kind \in {"trace", "signal"} THEN 0 ELSE Indentation(sinks[n].indentation)
  BY DEF Line
<1> DEFINE s == sinks[n]
<1>12. s \in SinkType /\ s.lines \in Seq(LineType) /\ Nested(s.lines) /\ Nest(n) /\ s.indentation \in Nat
  BY <1>1, SinkAt DEF NestingInv, NestInv, TypeInv
<1> HIDE DEF f, l, kind, P, Q
<1>13. s.indentation = Marks(s, "{") - Marks(s, "}") - Gap(n)
  BY <1>12 DEF Nest
<1>14. Gap(n) = (IF P(n) THEN 1 ELSE 0) /\ Gap(n)' = (IF Q(n) THEN 1 ELSE 0)
  BY <1>1, <1>10 DEF Gap
<1>15. Marks(s, "{") \in Nat /\ Marks(s, "}") \in Nat
  BY <1>12, MarksType
<1>16. Nested(sinks'[n].lines)
  <2> DEFINE m == Len(s.lines)
             A == Cardinality(OpenBefore(Append(s.lines, l), m + 1))
             B == Cardinality(ClosedUpTo(Append(s.lines, l), m + 1))
  <2>1. A = Marks(s, "{") /\ (l.kind = "}" => B = Marks(s, "}") + 1) /\ (l.kind # "}" => B = Marks(s, "}"))
    BY <1>1, <1>12, BracesAtEnd
  <2> HIDE DEF A, B
  <2>2. ASSUME l.kind \in {"msg", "{", "}", "fatal"}
        PROVE  l.indentation = Indentation(A - B)
    <3>1. l.indentation = Indentation(s.indentation)
      BY <1>1, <1>11, <2>2
    <3>2. CASE kind = "}"
      <4>1. Gap(n) = 1
        BY <1>4, <1>14, <3>2
      <4>3. A = Marks(s, "{") /\ B = Marks(s, "}") + 1
        BY <1>1, <2>1, <3>2
      <4>4. s.indentation = Marks(s, "{") - Marks(s, "}") - 1
        BY <1>13, <4>1
      <4>2. A - B = s.indentation
        BY <1>15, <4>3, <4>4, Reckoning
      <4> QED
        BY <3>1, <4>2
    <3>3. CASE kind # "}"
      <4>1. Gap(n) = 0
        BY <1>1, <1>4, <1>9, <1>14, <2>2, <3>3
      <4>3. A = Marks(s, "{") /\ B = Marks(s, "}")
        BY <1>1, <2>1, <3>3
      <4>4. s.indentation = Marks(s, "{") - Marks(s, "}") - 0
        BY <1>13, <4>1
      <4>2. A - B = s.indentation
        BY <1>15, <4>3, <4>4, Reckoning
      <4> QED
        BY <3>1, <4>2
    <3> QED
      BY <3>2, <3>3
  <2>3. EndNested(Append(s.lines, l), l, m)
    BY <2>2 DEF EndNested, A, B
  <2> HIDE DEF m
  <2>4. Nested(Append(s.lines, l))
    BY <1>1, <1>12, <2>3, SameNested DEF m
  <2> QED
    BY <1>1, <2>4
<1>17. Nest(n)'
  <2> DEFINE u == sinks'[n]
  <2>1. /\ kind = "{" => Marks(u, "{") = Marks(s, "{") + 1 /\ Marks(u, "}") = Marks(s, "}")
        /\ kind = "}" => Marks(u, "{") = Marks(s, "{") /\ Marks(u, "}") = Marks(s, "}") + 1
        /\ kind \notin Braces => Marks(u, "{") = Marks(s, "{") /\ Marks(u, "}") = Marks(s, "}")
    <3>1. u.lines = Append(s.lines, l)
      BY <1>1
    <3> HIDE DEF u, s
    <3>2. /\ l.kind = "{" => Marks(u, "{") = Marks(s, "{") + 1
          /\ l.kind # "{" => Marks(u, "{") = Marks(s, "{")
      BY <1>1, <1>12, <3>1, MarksAppend, ZenonT(40)
    <3>3. /\ l.kind = "}" => Marks(u, "}") = Marks(s, "}") + 1
          /\ l.kind # "}" => Marks(u, "}") = Marks(s, "}")
      BY <1>1, <1>12, <3>1, MarksAppend, ZenonT(40)
    <3> QED
      BY <1>1, <3>2, <3>3 DEF Braces
  <2>2. u.indentation = s.indentation
    BY <1>1
  <2> HIDE DEF u, s
  <2>3. u.indentation = Marks(u, "{") - Marks(u, "}") - Gap(n)'
    <3>1. CASE kind = "{"
      <4>1. Gap(n) = 0 /\ Gap(n)' = 1
        BY <1>4, <1>14, <3>1
      <4>2. s.indentation = Marks(s, "{") - Marks(s, "}") - 0
        BY <1>13, <4>1
      <4>3. Marks(u, "{") = Marks(s, "{") + 1 /\ Marks(u, "}") = Marks(s, "}")
        BY <2>1, <3>1
      <4>4. s.indentation = (Marks(s, "{") + 1) - Marks(s, "}") - 1
        BY <1>15, <4>2, Reckoning
      <4> QED
        BY <2>2, <4>1, <4>3, <4>4, Zenon
    <3>2. CASE kind = "}"
      <4>1. Gap(n) = 1 /\ Gap(n)' = 0
        BY <1>4, <1>14, <3>2
      <4>2. s.indentation = Marks(s, "{") - Marks(s, "}") - 1
        BY <1>13, <4>1
      <4>3. Marks(u, "{") = Marks(s, "{") /\ Marks(u, "}") = Marks(s, "}") + 1
        BY <2>1, <3>2
      <4>4. s.indentation = Marks(s, "{") - (Marks(s, "}") + 1) - 0
        BY <1>15, <4>2, Reckoning
      <4> QED
        BY <2>2, <4>1, <4>3, <4>4, Zenon
    <3>3. CASE kind \notin Braces
      <4>1. Gap(n)' = Gap(n)
        BY <1>1, <1>4, <1>14, <3>3
      <4> QED
        BY <1>13, <2>1, <2>2, <3>3, <4>1
    <3> QED
      BY <3>1, <3>2, <3>3 DEF Braces
  <2> QED
    BY <2>3 DEF Nest, u
<1>18. ASSUME NEW k \in DOMAIN sinks
       PROVE  Depth(k)' /\ Nest(k)' /\ Nested(sinks'[k].lines)
  <2>1. Depth(k) /\ Nest(k) /\ Nested(sinks[k].lines)
    BY DEF NestingInv, DepthInv, NestInv
  <2>2. sinks'[k].verbosity = sinks[k].verbosity /\ sinks'[k].indentation = sinks[k].indentation
    BY <1>1
  <2>3. Depth(k)'
    BY <1>8, <2>1, <2>2 DEF Depth
  <2>4. CASE k = n
    BY <1>16, <1>17, <2>3, <2>4
  <2>5. CASE k # n
    <3>1. sinks'[k] = sinks[k]
      BY <1>1, <2>5
    <3>2. Gap(k)' = Gap(k)
      BY <1>4, <1>10, <2>5 DEF Gap
    <3>3. sinks[k].indentation = Marks(sinks[k], "{") - Marks(sinks[k], "}") - Gap(k)
      BY <2>1 DEF Nest
    <3>4. Nest(k)'
      BY <3>1, <3>2, <3>3 DEF Nest
    <3> QED
      BY <2>1, <2>3, <3>1, <3>4
  <2> QED
    BY <2>4, <2>5
<1> QED
  BY <1>1, <1>6, <1>18 DEF DepthInv, NestInv

-----------------------------------------------------------------------------
(* The steps of a scope *)

LEMMA QuietSteps ==
  ASSUME TypeInv, NestingInv, NEW t \in Threads, OwnStep(t), Level, Quiet(t), scopes'[t] = scopes[t],
         stage = "running" => stage' = "running"
  PROVE  NestingInv'
<1>1. SameView(t)
  BY SameViewEnds DEF Quiet
<1>2. EarlyInv'
  BY EarlyStep DEF NestingInv, Quiet
<1> QED
  BY <1>1, <1>2, LevelStep DEF NestingInv

LEMMA OpenScopeStep ==
  ASSUME TypeInv, StacksInv, NestingInv, NEW t \in Threads, OwnStep(t), NEW v \in Scopes, OpenScope(t, v)
  PROVE  NestingInv'
<1>1. LastInv
  BY DEF NestingInv
<1>2. scopes' = scopes /\ sinks' = sinks /\ stage' = stage /\ stage = "running"
  BY DEF OpenScope, Calls, output
<1>3. SameView(t)
  BY <1>1, <1>2, OpenScopeEnds, SameViewEnds
<1>4. EarlyInv'
  BY <1>2, EarlyStep DEF NestingInv
<1> QED
  BY <1>2, <1>3, <1>4, LevelSteps, LevelStep DEF NestingInv

LEMMA HeadAndTail ==
  ASSUME NEW F, NEW s \in Seq(F), s # << >>
  PROVE  <<Head(s)>> \o Tail(s) = s
OBVIOUS

LEMMA CloseScopeStep ==
  ASSUME TypeInv, StacksInv, ScopesInv, NestingInv, NEW t \in Threads, OwnStep(t), CloseScope(t)
  PROVE  NestingInv'
<1>1. LastInv
  BY DEF NestingInv
<1>2. sinks' = sinks /\ stage' = stage
  BY DEF CloseScope, output
<1>3. /\ LastOK(stack'[t]) /\ scopes[t] # << >>
      /\ Closing(stack[t]) = << >> /\ Closing(stack'[t]) = <<Head(scopes[t])>>
      /\ scopes'[t] = Tail(scopes[t])
      /\ \A k, v : ~ Pends(stack[t], k, v) /\ ~ Pends(stack'[t], k, v)
  BY <1>1, CloseScopeEnds
<1>4. SameView(t)
  <2>1. scopes[t] \in Seq(Int)
    BY DEF TypeInv, ControlType
  <2>2. <<Head(scopes[t])>> \o Tail(scopes[t]) = scopes[t]
    BY <1>3, <2>1, HeadAndTail
  <2>3. << >> \o scopes[t] = scopes[t]
    BY <2>1
  <2> QED
    BY <1>3, <2>2, <2>3 DEF SameView
<1>5. stage = "running"
  BY <1>3 DEF NestingInv, EarlyInv
<1>6. EarlyInv'
  BY <1>2, <1>5, EarlyStep DEF NestingInv
<1> QED
  BY <1>2, <1>4, <1>6, LevelSteps, LevelStep DEF NestingInv

LEMMA IndentFacts ==
  ASSUME SinksType, NEW m \in MessageType, NEW d \in {-1, 1}, Indent(m, d)
  PROVE  /\ DOMAIN sinks' = DOMAIN sinks
         /\ \A k \in DOMAIN sinks :
              /\ sinks'[k].lines = sinks[k].lines /\ sinks'[k].verbosity = sinks[k].verbosity
              /\ m.verbosity <= sinks[k].verbosity /\ sinks[k].indentation + d >= 0 =>
                   sinks'[k].indentation = sinks[k].indentation + d
              /\ ~ (m.verbosity <= sinks[k].verbosity) => sinks'[k].indentation = sinks[k].indentation
<1>1. DOMAIN sinks' = DOMAIN sinks
  BY DEF Indent
<1>2. ASSUME NEW k \in DOMAIN sinks
      PROVE  /\ sinks'[k].lines = sinks[k].lines /\ sinks'[k].verbosity = sinks[k].verbosity
             /\ m.verbosity <= sinks[k].verbosity /\ sinks[k].indentation + d >= 0 =>
                  sinks'[k].indentation = sinks[k].indentation + d
             /\ ~ (m.verbosity <= sinks[k].verbosity) => sinks'[k].indentation = sinks[k].indentation
  <2>1. sinks[k] \in SinkType
    BY SinkAt
  <2> DEFINE r == [sinks[k] EXCEPT !.indentation = sinks[k].indentation + d]
  <2>2. sinks'[k] = IF m.verbosity <= sinks[k].verbosity /\ sinks[k].indentation + d >= 0 THEN r ELSE sinks[k]
    BY DEF Indent, Accepts
  <2>3. r.lines = sinks[k].lines /\ r.verbosity = sinks[k].verbosity /\ r.indentation = sinks[k].indentation + d
    BY <2>1 DEF SinkType
  <2> HIDE DEF r
  <2> QED
    BY <2>2, <2>3
<1> QED
  BY <1>1, <1>2

LEMMA OneUp ==
  ASSUME NEW i \in Nat, NEW a \in Nat, NEW b \in Nat
  PROVE  /\ i + 1 >= 0
         /\ i = a - b - 1 => i + 1 = a - b - 0
         /\ i = a - b - 0 => i + (-1) = a - b - 1
         /\ i = a - b - 0 => i = a - b - 0
OBVIOUS

LEMMA OneDown ==
  ASSUME NEW i \in Nat, NEW c \in Nat, i = c + 1
  PROVE  i + (-1) >= 0 /\ i + (-1) = c
OBVIOUS

(* The counters after a step whose sinks keep their lines. *)
LEMMA CountersStep ==
  ASSUME TypeInv, NestingInv, NEW t \in Threads, OwnStep(t), LastOK(stack'[t]),
         DOMAIN sinks' = DOMAIN sinks,
         \A k \in DOMAIN sinks : sinks'[k].lines = sinks[k].lines /\ sinks'[k].verbosity = sinks[k].verbosity,
         \A k \in DOMAIN sinks :
           /\ Depth(k)'
           /\ sinks'[k].indentation = Marks(sinks[k], "{") - Marks(sinks[k], "}") - Gap(k)'
  PROVE  LastInv' /\ DepthInv' /\ NestInv' /\ \A k \in DOMAIN sinks' : Nested(sinks'[k].lines)
<1>1. LastInv'
  BY OthersLast DEF NestingInv
<1>2. ASSUME NEW k \in DOMAIN sinks'
      PROVE  Depth(k)' /\ Nest(k)' /\ Nested(sinks'[k].lines)
  <2>1. k \in DOMAIN sinks /\ sinks'[k].lines = sinks[k].lines
    OBVIOUS
  <2>2. \A kind : Marks(sinks'[k], kind) = Marks(sinks[k], kind)
    BY <2>1 DEF Marks, LinesOf
  <2>3. Marks(sinks'[k], "{") = Marks(sinks[k], "{") /\ Marks(sinks'[k], "}") = Marks(sinks[k], "}")
    BY <2>2
  <2>4. sinks'[k].indentation = Marks(sinks'[k], "{") - Marks(sinks'[k], "}") - Gap(k)'
    BY <2>1, <2>3
  <2>5. Nest(k)'
    BY <2>4 DEF Nest
  <2>6. Nested(sinks'[k].lines)
    BY <2>1 DEF NestingInv
  <2> QED
    BY <2>1, <2>5, <2>6
<1> QED
  BY <1>1, <1>2 DEF DepthInv, NestInv

(* Only the thread that has the mutex can be between brace and counter. *)
LEMMA GapsOf ==
  ASSUME TypeInv, MutexInv, NEW t \in Threads, mutex.owner \in {t, NoThread}, OwnStep(t), NEW k \in DOMAIN sinks,
         sinks'[k].verbosity = sinks[k].verbosity
  PROVE  /\ Gap(k) = (IF Pends(stack[t], k, sinks[k].verbosity) THEN 1 ELSE 0)
         /\ Gap(k)' = (IF Pends(stack'[t], k, sinks[k].verbosity) THEN 1 ELSE 0)
<1>1. \A o \in Threads \ {t} : ~ Pends(stack[o], k, sinks[k].verbosity) /\ stack'[o] = stack[o]
  BY OthersDoNotPend DEF OwnStep
<1>2. Pending(k) <=> Pends(stack[t], k, sinks[k].verbosity)
  BY <1>1 DEF Pending
<1>3. Pending(k)' <=> Pends(stack'[t], k, sinks[k].verbosity)
  BY <1>1 DEF Pending
<1> QED
  BY <1>2, <1>3 DEF Gap

(* The scope enters scopes and the counters. *)
LEMMA OpenIndentStep ==
  ASSUME TypeInv, MutexInv, StacksInv, NestingInv, NEW t \in Threads, OwnStep(t), OpenIndent(t)
  PROVE  NestingInv'
<1> DEFINE m == Top(t).msg
           v == Top(t).msg.verbosity
           P(k) == Pends(stack[t], k, sinks[k].verbosity)
           Q(k) == Pends(stack'[t], k, sinks[k].verbosity)
           G == [o \in Threads |-> IF o = t THEN <<v>> \o Opened[t] ELSE Opened[o]]
<1>1. LastInv
  BY DEF NestingInv
<1>2. /\ stack[t] # << >> /\ Top(t).pc = "open indent" /\ Last(stack[t]).msg.kind \in Braces
      /\ LastOK(stack'[t]) /\ Closing(stack[t]) = << >> /\ Closing(stack'[t]) = << >>
      /\ \A k, w : Pends(stack[t], k, w) <=> v <= w
      /\ \A k, w : ~ Pends(stack'[t], k, w)
  BY <1>1, OpenIndentEnds
<1>3. Top(t) \in FrameType /\ m \in MessageType /\ v \in Int
  <2>1. Top(t) \in FrameType
    BY <1>2, TopOK
  <2> QED
    BY <2>1 DEF FrameType, MessageType
<1>4. mutex.owner = t
  BY <1>2, TopHolds DEF Holding
<1>5. scopes'[t] = <<v>> \o scopes[t] /\ stage' = stage /\ Indent(m, 1)
  BY DEF OpenIndent, TypeInv, ControlType
<1>6. EarlyInv'
  <2>1. stage = "running"
    BY <1>2 DEF NestingInv, EarlyInv
  <2> QED
    BY <1>5, <2>1, EarlyStep DEF NestingInv
<1>7. scopes[t] \in Seq(Int) /\ Opened \in [Threads -> Seq(Int)]
  BY OpenedType DEF TypeInv, ControlType
<1>8. Opened[t] = scopes[t]
  <2>1. Opened[t] = << >> \o scopes[t]
    BY <1>2 DEF Opened
  <2> QED
    BY <1>7, <2>1
<1> HIDE DEF m, v
<1>9. G \in [Threads -> Seq(Int)] /\ Deeper(Opened, G, t, v)
  BY <1>3, <1>7 DEF Deeper
<1>10. Opened' = G
  <2>1. ASSUME NEW o \in Threads
        PROVE  Closing(stack'[o]) \o scopes'[o] = G[o]
    <3>1. CASE o = t
      <4>1. Closing(stack'[t]) \o scopes'[t] = << >> \o (<<v>> \o scopes[t])
        BY <1>2, <1>5
      <4>2. <<v>> \o scopes[t] \in Seq(Int)
        BY <1>3, <1>7
      <4> QED
        BY <1>8, <3>1, <4>1, <4>2
    <3>2. CASE o # t
      BY <3>2 DEF OwnStep, Opened
    <3> QED
      BY <3>1, <3>2
  <2> HIDE DEF G
  <2>2. Opened' = [o \in Threads |-> Closing(stack'[o]) \o scopes'[o]]
    BY DEF Opened
  <2>3. Opened' = [o \in Threads |-> G[o]]
    BY <2>1, <2>2
  <2> QED
    BY <1>9, <2>3
<1> HIDE DEF G
<1>11. /\ DOMAIN sinks' = DOMAIN sinks
       /\ \A k \in DOMAIN sinks :
            /\ sinks'[k].lines = sinks[k].lines /\ sinks'[k].verbosity = sinks[k].verbosity
            /\ v <= sinks[k].verbosity /\ sinks[k].indentation + 1 >= 0 =>
                 sinks'[k].indentation = sinks[k].indentation + 1
            /\ ~ (v <= sinks[k].verbosity) => sinks'[k].indentation = sinks[k].indentation
  BY <1>3, <1>5, IndentFacts DEF TypeInv, m, v
<1>12. ASSUME NEW k \in DOMAIN sinks
       PROVE  Depth(k)' /\ sinks'[k].indentation = Marks(sinks[k], "{") - Marks(sinks[k], "}") - Gap(k)'
  <2> DEFINE s == sinks[k]
             w == sinks[k].verbosity
             a == Marks(s, "{")
             b == Marks(s, "}")
             i == s.indentation
             j == sinks'[k].indentation
  <2>1. s \in SinkType /\ w \in Int /\ i \in Nat
    BY SinkAt DEF TypeInv
  <2>2. a \in Nat /\ b \in Nat
    BY <2>1, MarksType
  <2>3. IsFiniteSet(OpenOf(Opened, w)) /\ i = Cardinality(OpenOf(Opened, w)) /\ i = a - b - Gap(k)
    BY DEF NestingInv, DepthInv, Depth, NestInv, Nest
  <2>4. Gap(k) = (IF v <= w THEN 1 ELSE 0) /\ Gap(k)' = 0
    BY <1>2, <1>4, <1>11, GapsOf
  <2>5. sinks'[k].verbosity = w /\ (v <= w /\ i + 1 >= 0 => j = i + 1) /\ (~ (v <= w) => j = i)
    BY <1>11
  <2> HIDE DEF a, b, i, j, w
  <2>6. /\ IsFiniteSet(OpenOf(G, w))
        /\ v <= w => Cardinality(OpenOf(G, w)) = i + 1
        /\ ~ (v <= w) => Cardinality(OpenOf(G, w)) = i
    <3>1. w \in Int /\ (IsFiniteSet(OpenOf(Opened, w)) \/ IsFiniteSet(OpenOf(G, w)))
      BY <2>1, <2>3
    <3>2. /\ IsFiniteSet(OpenOf(G, w))
          /\ v <= w => Cardinality(OpenOf(G, w)) = Cardinality(OpenOf(Opened, w)) + 1
          /\ ~ (v <= w) => Cardinality(OpenOf(G, w)) = Cardinality(OpenOf(Opened, w))
      BY <1>3, <1>7, <1>9, <3>1, OneMoreOpen
    <3> QED
      BY <2>3, <3>2
  <2>7. j = Cardinality(OpenOf(G, w)) /\ j = a - b - Gap(k)'
    <3>1. CASE v <= w
      <4>1. i = a - b - 1 /\ i \in Nat
        BY <2>1, <2>3, <2>4, <3>1 DEF i
      <4>2. i + 1 >= 0 /\ i + 1 = a - b - 0
        BY <2>2, <4>1, OneUp
      <4>3. j = i + 1
        BY <2>5, <3>1, <4>2
      <4> QED
        BY <2>4, <2>6, <3>1, <4>2, <4>3
    <3>2. CASE ~ (v <= w)
      <4>1. i = a - b - 0
        BY <2>3, <2>4, <3>2
      <4> QED
        BY <2>4, <2>5, <2>6, <3>2, <4>1
    <3> QED
      BY <3>1, <3>2
  <2>8. Depth(k)'
    <3>1. OpenOf(Opened, sinks[k].verbosity)' = OpenOf(G, w)
      BY <1>10, <2>5 DEF OpenOf
    <3> QED
      BY <2>6, <2>7, <3>1 DEF Depth, j
  <2> QED
    BY <2>7, <2>8 DEF a, b, j
<1>13. LastInv' /\ DepthInv' /\ NestInv' /\ \A k \in DOMAIN sinks' : Nested(sinks'[k].lines)
  BY <1>2, <1>11, <1>12, CountersStep
<1> QED
  BY <1>6, <1>13 DEF NestingInv

(* The scope, which has left scopes, leaves the counters. *)
LEMMA CloseIndentStep ==
  ASSUME TypeInv, MutexInv, StacksInv, NestingInv, NEW t \in Threads, OwnStep(t), CloseIndent(t)
  PROVE  NestingInv'
<1> DEFINE m == Top(t).msg
           v == Top(t).msg.verbosity
           G == [o \in Threads |-> IF o = t THEN scopes[t] ELSE Opened[o]]
<1>1. LastInv
  BY DEF NestingInv
<1>2. /\ stack[t] # << >> /\ Last(stack[t]).msg.kind \in Braces /\ LastOK(stack'[t])
      /\ Closing(stack[t]) = <<v>> /\ Closing(stack'[t]) = << >>
      /\ \A k, w : ~ Pends(stack[t], k, w)
      /\ \A k, w : Pends(stack'[t], k, w) <=> v <= w
  BY <1>1, CloseIndentEnds
<1>3. m \in MessageType /\ v \in Int
  <2>1. Top(t) \in FrameType
    BY <1>2, TopOK
  <2> QED
    BY <2>1 DEF FrameType, MessageType
<1>4. mutex.owner \in {t, NoThread}
  BY DEF CloseIndent, Lock
<1>5. scopes' = scopes /\ stage' = stage /\ Indent(m, -1)
  BY DEF CloseIndent, thread
<1>6. EarlyInv'
  <2>1. stage = "running"
    BY <1>2 DEF NestingInv, EarlyInv
  <2> QED
    BY <1>5, <2>1, EarlyStep DEF NestingInv
<1>7. scopes[t] \in Seq(Int) /\ Opened \in [Threads -> Seq(Int)]
  BY OpenedType DEF TypeInv, ControlType
<1> HIDE DEF m, v
<1>8. Opened[t] = <<v>> \o scopes[t]
  BY <1>2 DEF Opened
<1>9. G \in [Threads -> Seq(Int)] /\ Deeper(G, Opened, t, v)
  BY <1>3, <1>7, <1>8 DEF Deeper
<1>10. Opened' = G
  <2>1. ASSUME NEW o \in Threads
        PROVE  Closing(stack'[o]) \o scopes'[o] = G[o]
    <3>1. CASE o = t
      <4>1. Closing(stack'[t]) \o scopes'[t] = << >> \o scopes[t]
        BY <1>2, <1>5
      <4> QED
        BY <1>7, <3>1, <4>1
    <3>2. CASE o # t
      BY <3>2 DEF OwnStep, Opened
    <3> QED
      BY <3>1, <3>2
  <2> HIDE DEF G
  <2>2. Opened' = [o \in Threads |-> Closing(stack'[o]) \o scopes'[o]]
    BY DEF Opened
  <2>3. Opened' = [o \in Threads |-> G[o]]
    BY <2>1, <2>2
  <2> QED
    BY <1>9, <2>3
<1> HIDE DEF G
<1>11. /\ DOMAIN sinks' = DOMAIN sinks
       /\ \A k \in DOMAIN sinks :
            /\ sinks'[k].lines = sinks[k].lines /\ sinks'[k].verbosity = sinks[k].verbosity
            /\ v <= sinks[k].verbosity /\ sinks[k].indentation + (-1) >= 0 =>
                 sinks'[k].indentation = sinks[k].indentation + (-1)
            /\ ~ (v <= sinks[k].verbosity) => sinks'[k].indentation = sinks[k].indentation
  BY <1>3, <1>5, IndentFacts DEF TypeInv, m, v
<1>12. ASSUME NEW k \in DOMAIN sinks
       PROVE  Depth(k)' /\ sinks'[k].indentation = Marks(sinks[k], "{") - Marks(sinks[k], "}") - Gap(k)'
  <2> DEFINE s == sinks[k]
             w == sinks[k].verbosity
             a == Marks(s, "{")
             b == Marks(s, "}")
             i == s.indentation
             j == sinks'[k].indentation
             c == Cardinality(OpenOf(G, w))
  <2>1. s \in SinkType /\ w \in Int /\ i \in Nat
    BY SinkAt DEF TypeInv
  <2>2. a \in Nat /\ b \in Nat
    BY <2>1, MarksType
  <2>3. IsFiniteSet(OpenOf(Opened, w)) /\ i = Cardinality(OpenOf(Opened, w)) /\ i = a - b - Gap(k)
    BY DEF NestingInv, DepthInv, Depth, NestInv, Nest
  <2>4. Gap(k) = 0 /\ Gap(k)' = (IF v <= w THEN 1 ELSE 0)
    BY <1>2, <1>4, <1>11, GapsOf
  <2>5. sinks'[k].verbosity = w /\ (v <= w /\ i + (-1) >= 0 => j = i + (-1)) /\ (~ (v <= w) => j = i)
    BY <1>11
  <2> HIDE DEF a, b, i, j, w
  <2>6. /\ IsFiniteSet(OpenOf(G, w)) /\ c \in Nat
        /\ v <= w => i = c + 1
        /\ ~ (v <= w) => i = c
    <3>1. w \in Int /\ (IsFiniteSet(OpenOf(G, w)) \/ IsFiniteSet(OpenOf(Opened, w)))
      BY <2>1, <2>3
    <3>2. /\ IsFiniteSet(OpenOf(G, w)) /\ c \in Nat
          /\ v <= w => Cardinality(OpenOf(Opened, w)) = c + 1
          /\ ~ (v <= w) => Cardinality(OpenOf(Opened, w)) = c
      BY <1>3, <1>7, <1>9, <3>1, OneMoreOpen
    <3> QED
      BY <2>3, <3>2
  <2> HIDE DEF c
  <2>7. j = c /\ j = a - b - Gap(k)'
    <3>0. i = a - b - 0 /\ i \in Nat
      BY <2>1, <2>3, <2>4 DEF i
    <3>1. CASE v <= w
      <4>1. i + (-1) >= 0 /\ i + (-1) = c
        BY <2>6, <3>0, <3>1, OneDown
      <4>2. i + (-1) = a - b - 1
        BY <2>2, <3>0, OneUp
      <4>3. j = i + (-1)
        BY <2>5, <3>1, <4>1
      <4> QED
        BY <2>4, <3>1, <4>1, <4>2, <4>3
    <3>2. CASE ~ (v <= w)
      BY <2>4, <2>5, <2>6, <3>0, <3>2
    <3> QED
      BY <3>1, <3>2
  <2>8. Depth(k)'
    <3>1. OpenOf(Opened, sinks[k].verbosity)' = OpenOf(G, w)
      BY <1>10, <2>5 DEF OpenOf
    <3> QED
      BY <2>6, <2>7, <3>1 DEF Depth, j, c
  <2> QED
    BY <2>7, <2>8 DEF a, b, j
<1>13. LastInv' /\ DepthInv' /\ NestInv' /\ \A k \in DOMAIN sinks' : Nested(sinks'[k].lines)
  BY <1>2, <1>11, <1>12, CountersStep
<1> QED
  BY <1>6, <1>13 DEF NestingInv

-----------------------------------------------------------------------------
(* The steps before the threads run *)

LEMMA SetupInner ==
  ASSUME TypeInv, stack[Main] = << >>, NEW v \in {Info, Error}, Push(Main, Setup(v))
  PROVE  /\ LastOK(stack'[Main]) /\ Closing(stack'[Main]) = << >>
         /\ \A k, w : ~ Pends(stack'[Main], k, w)
         /\ \A o \in Threads \ {Main} : stack'[o] = stack[o]
<1> DEFINE b == "setup"
           f == Frame("format", Message(Main, b, v))
           s == stack'[Main]
<1>1. v \in Int /\ b \in Kinds /\ "format" \in PCs /\ b \notin Braces /\ Main \in Threads
  BY DEF Kinds, PCs, Info, Error, Braces, Threads
<1>2. Setup(v) = f
  BY DEF Setup
<1> HIDE DEF b
<1>3. f \in FrameType /\ f.pc = "format" /\ f.msg.kind \notin Braces
  BY <1>1, NewFrame
<1>4. s = <<f>> \o stack[Main] /\ stack[Main] \in Seq(FrameType) /\ \A o \in Threads \ {Main} : stack'[o] = stack[o]
  BY <1>1, <1>2 DEF Push, TypeInv, StackType
<1> HIDE DEF f, s
<1>5. s # << >> /\ Last(s) = f
  BY <1>3, <1>4, PushEnds
<1>6. Last(s).pc \notin OuterPC /\ LastOK(s)
  BY <1>3, <1>5 DEF OuterPC, LastOK, InLog
<1>7. Closing(s) = << >> /\ \A k, w : ~ Pends(s, k, w)
  BY <1>6, InnerEnds
<1> QED
  BY <1>4, <1>6, <1>7 DEF s

LEMMA NoMarks ==
  ASSUME NEW s, s.lines = << >>, NEW kind
  PROVE  Marks(s, kind) = 0
<1>1. LinesOf(s, kind) = {}
  BY DEF LinesOf
<1> QED
  BY <1>1, FS_EmptySet DEF Marks

(* No call and no scope: the counters are 0, of the sinks that come as of  *)
(* those that are there.                                                   *)
LEMMA FreshStep ==
  ASSUME TypeInv, NestingInv, \A o \in Threads : stack[o] = << >> /\ scopes[o] = << >>, scopes' = scopes,
         \A o \in Threads : /\ LastOK(stack'[o]) /\ Closing(stack'[o]) = << >>
                            /\ \A k, w : ~ Pends(stack'[o], k, w),
         \A k \in DOMAIN sinks' :
           \/ /\ k \in DOMAIN sinks /\ sinks'[k].lines = sinks[k].lines
              /\ sinks'[k].indentation = sinks[k].indentation
           \/ sinks'[k].lines = << >> /\ sinks'[k].indentation = 0
  PROVE  LastInv' /\ DepthInv' /\ NestInv' /\ \A k \in DOMAIN sinks' : Nested(sinks'[k].lines)
<1>1. LastInv'
  BY DEF LastInv
<1>2. \A o \in Threads : Opened[o] = << >> /\ Opened'[o] = << >>
  <2>1. \A o \in Threads : Closing(stack[o]) = << >>
    BY DEF Closing
  <2> QED
    BY <2>1 DEF Opened
<1>3. ASSUME NEW k \in DOMAIN sinks'
      PROVE  Depth(k)' /\ Nest(k)' /\ Nested(sinks'[k].lines)
  <2> DEFINE s == sinks'[k]
  <2>1. Gap(k)' = 0
    BY DEF Gap, Pending
  <2>2. s.indentation = 0 /\ 0 = Marks(s, "{") - Marks(s, "}") - 0 /\ Nested(s.lines)
    <3>1. CASE k \in DOMAIN sinks /\ s.lines = sinks[k].lines /\ s.indentation = sinks[k].indentation
      <4>1. Depth(k) /\ Nest(k) /\ Nested(sinks[k].lines)
        BY <3>1 DEF NestingInv, DepthInv, NestInv
      <4>2. sinks[k].indentation = 0
        BY <1>2, <4>1, NoneOpen DEF Depth
      <4>3. Gap(k) = 0
        <5>1. \A o \in Threads : ~ Pends(stack[o], k, sinks[k].verbosity)
          BY EmptyEnds
        <5> QED
          BY <5>1 DEF Gap, Pending
      <4> HIDE DEF s
      <4>4. \A kind : Marks(s, kind) = Marks(sinks[k], kind)
        BY <3>1 DEF Marks, LinesOf
      <4>5. Marks(s, "{") = Marks(sinks[k], "{") /\ Marks(s, "}") = Marks(sinks[k], "}")
        BY <4>4
      <4>6. 0 = Marks(s, "{") - Marks(s, "}") - 0
        BY <4>1, <4>2, <4>3, <4>5, Zenon DEF Nest
      <4> QED
        BY <3>1, <4>1, <4>2, <4>6
    <3>2. CASE s.lines = << >> /\ s.indentation = 0
      <4> HIDE DEF s
      <4>1. \A kind : Marks(s, kind) = 0
        BY <3>2, NoMarks
      <4>2. Marks(s, "{") = 0 /\ Marks(s, "}") = 0
        BY <4>1
      <4>3. Nested(s.lines)
        <5>1. DOMAIN s.lines = {}
          BY <3>2
        <5> QED
          BY <5>1 DEF Nested
      <4>4. 0 = Marks(s, "{") - Marks(s, "}") - 0
        <5>1. 0 = 0 - 0 - 0
          OBVIOUS
        <5> QED
          BY <4>2, <5>1, Zenon
      <4> QED
        BY <3>2, <4>3, <4>4
    <3> QED
      BY <3>1, <3>2
  <2>3. Nest(k)'
    BY <2>1, <2>2 DEF Nest
  <2>4. Depth(k)'
    <3>1. IsFiniteSet(OpenOf(Opened', s.verbosity)) /\ Cardinality(OpenOf(Opened', s.verbosity)) = 0
      BY <1>2, NoneOpen
    <3> QED
      BY <2>2, <3>1 DEF Depth, OpenOf
  <2> QED
    BY <2>2, <2>3, <2>4
<1> QED
  BY <1>1, <1>3 DEF DepthInv, NestInv

-----------------------------------------------------------------------------
(* Every step *)

QuietStep(t) ==
  \/ Format(t) \/ LockMessage(t) \/ Trace(t) \/ Flush(t) \/ LogReturns(t) \/ FatalEnds(t)
  \/ OpenBrace(t) \/ CloseReturns(t) \/ HandlerFlushes(t) \/ HandlerFlushesAgain(t) \/ CallDefaultHandler(t)
  \/ AbortF(t) \/ Signal(t) \/ \E v \in Messages : LogF(t, v)

LEMMA FourSteps ==
  ASSUME NEW t \in Threads, ThreadStep(t)
  PROVE  \/ QuietStep(t) \/ Write(t) \/ OpenIndent(t) \/ CloseIndent(t) \/ CloseScope(t)
         \/ \E v \in Scopes : OpenScope(t, v)
BY DEF ThreadStep, InCall, QuietStep

LEMMA QuietStepNesting ==
  ASSUME TypeInv, StacksInv, NestingInv, NEW t \in Threads, OwnStep(t), QuietStep(t), stage' = stage
  PROVE  NestingInv'
<1>1. LastInv
  BY DEF NestingInv
<1>2. Quiet(t)
  <2>1. CallDefaultHandler(t) => Quiet(t)
    BY <1>1, QuietStill DEF CallDefaultHandler
  <2> QED
    BY <1>1, <2>1, FormatQuiet, LockMessageQuiet, TraceQuiet, FlushQuiet, LogReturnsQuiet, FatalEndsQuiet, OpenBraceQuiet,
       CloseReturnsQuiet, HandlerQuiet, HandlerAgainQuiet, CallsQuiet DEF QuietStep
<1>3. Level
  <2>1. sinks' = sinks \/ FlushAll \/ Flush(t)
    BY DEF QuietStep, Format, LockMessage, Trace, LogReturns, FatalEnds, OpenBrace, CloseReturns, HandlerFlushes,
       HandlerFlushesAgain, CallDefaultHandler, AbortF, Signal, LogF, output
  <2> QED
    BY <2>1, LevelSteps
<1>4. scopes' = scopes
  BY DEF QuietStep, Format, LockMessage, Trace, Flush, LogReturns, FatalEnds, OpenBrace, CloseReturns, HandlerFlushes,
     HandlerFlushesAgain, CallDefaultHandler, AbortF, Signal, LogF, thread
<1> QED
  BY <1>2, <1>3, <1>4, QuietSteps

LEMMA WriteNesting ==
  ASSUME TypeInv, MutexInv, StacksInv, NestingInv, NEW t \in Threads, OwnStep(t), Write(t)
  PROVE  NestingInv'
<1>1. scopes' = scopes /\ stage' = stage /\ LastInv
  BY DEF Write, thread, NestingInv
<1>2. PICK n : n = NextSink(Top(t))
  OBVIOUS
<1>3. NoNewScope(stack[t], stack'[t])
  BY <1>1, <1>2, WriteEnds
<1>4. EarlyInv'
  BY <1>1, <1>3, EarlyStep DEF NestingInv
<1> QED
  BY <1>4, WriteStep DEF NestingInv

LEMMA ThreadNesting ==
  ASSUME TypeInv, MutexInv, StacksInv, ScopesInv, NestingInv, NEW t \in Threads, ThreadStep(t)
  PROVE  NestingInv'
<1>1. OwnStep(t) /\ stage' = stage
  BY ThreadStepFacts DEF OwnStep
<1> QED
  BY <1>1, FourSteps, QuietStepNesting, WriteNesting, OpenIndentStep, CloseIndentStep, CloseScopeStep, OpenScopeStep

LEMMA EmptyBefore ==
  ASSUME PoolInv, EarlyInv, Idle(Main), stage # "running"
  PROVE  \A o \in Threads : stack[o] = << >> /\ scopes[o] = << >>
BY DEF PoolInv, EarlyInv, Idle

LEMMA MainNesting ==
  ASSUME TypeInv, StacksInv, PoolInv, NestingInv, MainStep
  PROVE  NestingInv'
<1>1. Main \in Threads /\ LastInv /\ EarlyInv
  BY DEF Threads, NestingInv
<1>2. scopes' = scopes
  BY DEF MainStep, InitLoguru, SetLoglevel, AddFile, StartThreads, Exit, thread
<1>3. ASSUME Quiet(Main), Level, stage = "running" => stage' = "running",
             \A o \in Threads \ {Main} : stack'[o] = stack[o]
      PROVE  NestingInv'
  <2>1. OwnStep(Main) /\ scopes'[Main] = scopes[Main]
    BY <1>2, <1>3 DEF OwnStep
  <2> QED
    BY <1>1, <1>3, <2>1, QuietSteps
<1>4. ASSUME NEW v \in {Info, Error}, Push(Main, Setup(v)), stack[Main] = << >>
      PROVE  Quiet(Main) /\ \A o \in Threads \ {Main} : stack'[o] = stack[o]
  BY <1>1, <1>4, SetupQuiet, SetupInner
<1>5. CASE InitLoguru
  <2>1. Push(Main, Setup(Info)) /\ stack[Main] = << >> /\ sinks' = sinks /\ stage # "running"
    BY <1>5 DEF InitLoguru, Idle, output
  <2> QED
    BY <1>3, <1>4, <2>1, LevelSteps
<1>6. CASE StartThreads \/ Exit
  <2>1. stack' = stack /\ (sinks' = sinks \/ FlushAll) /\ (stage' = stage \/ stage # "running")
    BY <1>6 DEF StartThreads, Exit, output
  <2>2. Quiet(Main)
    BY <1>1, <2>1, QuietStill
  <2> QED
    BY <1>3, <2>1, <2>2, LevelSteps
<1>7. CASE SetLoglevel
  <2>1. stack' = stack /\ stage # "running" /\ Idle(Main) /\ sinks' = [sinks EXCEPT ![1].verbosity = Loglevel]
    BY <1>7 DEF SetLoglevel
  <2>2. \A o \in Threads : stack[o] = << >> /\ scopes[o] = << >>
    BY <1>1, <2>1, EmptyBefore
  <2>3. \A o \in Threads : LastOK(stack'[o]) /\ Closing(stack'[o]) = << >> /\ \A k, w : ~ Pends(stack'[o], k, w)
    BY <2>1, <2>2, EmptyEnds DEF LastOK
  <2>4. ASSUME NEW k \in DOMAIN sinks'
        PROVE  k \in DOMAIN sinks /\ sinks'[k].lines = sinks[k].lines /\ sinks'[k].indentation = sinks[k].indentation
    <3>1. k \in DOMAIN sinks
      BY <2>1
    <3>2. sinks[k] \in SinkType
      BY <3>1, SinkAt DEF TypeInv
    <3>3. sinks'[k] = [sinks[k] EXCEPT !.verbosity = Loglevel] \/ sinks'[k] = sinks[k]
      BY <2>1, <3>1
    <3> QED
      BY <3>1, <3>2, <3>3 DEF SinkType
  <2>5. LastInv' /\ DepthInv' /\ NestInv' /\ \A k \in DOMAIN sinks' : Nested(sinks'[k].lines)
    BY <1>2, <2>2, <2>3, <2>4, FreshStep
  <2>6. EarlyInv'
    BY <1>2, <2>1, <2>2 DEF EarlyInv
  <2> QED
    BY <2>5, <2>6 DEF NestingInv
<1>8. CASE AddFile
  <2>1. /\ Idle(Main) /\ stage # "running" /\ stage' = stage /\ stack[Main] = << >>
        /\ \/ AddCallback(Head(files)) /\ Push(Main, Setup(Info))
           \/ sinks' = sinks /\ Push(Main, Setup(Error))
    BY <1>8 DEF AddFile, Idle, output
  <2>2. CASE sinks' = sinks /\ Push(Main, Setup(Error))
    BY <1>3, <1>4, <2>1, <2>2, LevelSteps
  <2>3. CASE AddCallback(Head(files)) /\ Push(Main, Setup(Info))
    <3>1. \A o \in Threads : stack[o] = << >> /\ scopes[o] = << >>
      BY <1>1, <2>1, EmptyBefore
    <3>2. \A o \in Threads : LastOK(stack'[o]) /\ Closing(stack'[o]) = << >> /\ \A k, w : ~ Pends(stack'[o], k, w)
      <4>1. LastOK(stack'[Main]) /\ Closing(stack'[Main]) = << >> /\ (\A k, w : ~ Pends(stack'[Main], k, w))
            /\ \A o \in Threads \ {Main} : stack'[o] = << >>
        BY <2>1, <2>3, <3>1, SetupInner
      <4> QED
        BY <4>1, EmptyEnds DEF LastOK
    <3>3. ASSUME NEW k \in DOMAIN sinks'
          PROVE  \/ /\ k \in DOMAIN sinks /\ sinks'[k].lines = sinks[k].lines
                    /\ sinks'[k].indentation = sinks[k].indentation
                 \/ sinks'[k].lines = << >> /\ sinks'[k].indentation = 0
      <4> DEFINE new == Sink(Head(files))
      <4>1. sinks' = Append(sinks, new) /\ new.lines = << >> /\ new.indentation = 0
        BY <2>3 DEF AddCallback, Sink
      <4>2. sinks \in Seq(SinkType)
        BY DEF TypeInv, SinksType
      <4> HIDE DEF new
      <4>3. (k \in DOMAIN sinks /\ sinks'[k] = sinks[k]) \/ sinks'[k] = new
        BY <4>1, <4>2
      <4> QED
        BY <4>1, <4>3
    <3>4. LastInv' /\ DepthInv' /\ NestInv' /\ \A k \in DOMAIN sinks' : Nested(sinks'[k].lines)
      BY <1>2, <3>1, <3>2, <3>3, FreshStep
    <3>5. EarlyInv'
      <4>1. Quiet(Main) /\ OwnStep(Main)
        BY <1>2, <1>4, <2>1, <2>3 DEF OwnStep
      <4> QED
        BY <1>1, <1>2, <2>1, <4>1, EarlyStep DEF Quiet
    <3> QED
      BY <3>4, <3>5 DEF NestingInv
  <2> QED
    BY <2>1, <2>2, <2>3
<1> QED
  BY <1>5, <1>6, <1>7, <1>8 DEF MainStep

LEMMA StepNesting ==
  ASSUME TypeInv, MutexInv, StacksInv, ScopesInv, PoolInv, NestingInv, [Next]_vars
  PROVE  NestingInv'
<1>1. CASE UNCHANGED vars
  <2>1. Main \in Threads /\ LastInv
    BY DEF Threads, NestingInv
  <2>2. sinks' = sinks /\ scopes' = scopes /\ stack' = stack /\ stage' = stage
    BY <1>1 DEF vars, output, thread
  <2>3. Quiet(Main)
    BY <2>1, <2>2, QuietStill
  <2> QED
    BY <2>1, <2>2, <2>3, LevelSteps, QuietSteps DEF OwnStep
<1> QED
  BY <1>1, TwoKinds, ThreadNesting, MainNesting

LEMMA InitNesting == Init => NestingInv
<1> SUFFICES ASSUME Init
             PROVE  NestingInv
  OBVIOUS
<1>1. \A o \in Threads : stack[o] = << >> /\ scopes[o] = << >>
  BY DEF Init
<1>2. LastInv /\ EarlyInv
  BY <1>1 DEF LastInv, LastOK, EarlyInv
<1>3. DOMAIN sinks = {1} /\ sinks[1].lines = << >> /\ sinks[1].indentation = 0
  BY DEF Init, Sink
<1>4. \A o \in Threads : Opened[o] = << >>
  BY <1>1 DEF Opened, Closing
<1>5. Depth(1)
  BY <1>3, <1>4, NoneOpen DEF Depth
<1>6. Gap(1) = 0
  <2>1. \A o \in Threads : ~ Pends(stack[o], 1, sinks[1].verbosity)
    BY <1>1, EmptyEnds
  <2> QED
    BY <2>1 DEF Gap, Pending
<1>7. Nest(1)
  <2>1. Marks(sinks[1], "{") = 0 /\ Marks(sinks[1], "}") = 0
    BY <1>3, NoMarks
  <2>2. 0 = 0 - 0 - 0
    OBVIOUS
  <2> QED
    BY <1>3, <1>6, <2>1, <2>2, Zenon DEF Nest
<1>8. Nested(sinks[1].lines)
  <2>1. DOMAIN sinks[1].lines = {}
    BY <1>3
  <2> QED
    BY <2>1 DEF Nested
<1> QED
  BY <1>2, <1>3, <1>5, <1>7, <1>8 DEF NestingInv, DepthInv, NestInv

(* In every sink a line is indented by the scopes that are open at its     *)
(* place, of all threads, but fifty at most: LogScopeRAII writes its brace *)
(* and moves the counters under one hold of the mutex, so that no line of  *)
(* another thread comes between the two.                                   *)
THEOREM LinesAreNested == Spec => []IndentedByNesting
<1>1. LogInv /\ NestingInv /\ [Next]_vars => NestingInv'
  BY StepNesting DEF LogInv
<1>2. NestingInv => IndentedByNesting
  BY NestedSinks DEF NestingInv
<1> QED
  BY <1>1, <1>2, InitNesting, InitLog, StepLog, PTL DEF Spec

-----------------------------------------------------------------------------
(* What was told.  A sink has the messages of a thread that have returned  *)
(* and at most one more, of the call that goes on.                         *)

(* The message of f is in the k-th sink, of verbosity v. *)
Says(f, k, v) == f.msg.kind \in Spoken /\ Reached(f, k) /\ f.msg.verbosity <= v

(* The messages in the k-th sink whose calls have not returned. *)
Voice(s, k, v) == {s[j].msg : j \in {i \in DOMAIN s : Says(s[i], k, v)}}

(* One of them is not flushed. *)
Busy(s, k, v) == \E j \in DOMAIN s : Says(s[j], k, v) /\ s[j].pc = "flush" /\ s[j].sink = k

Hums(s) == \E j \in DOMAIN s : s[j].msg.kind \in Spoken

LinesBy(ls, t) == {j \in DOMAIN ls : ls[j].by = t /\ ls[j].kind \in Spoken}

Upto(ms, v) == {i \in DOMAIN ms : ms[i].verbosity <= v}

(* n of the lines are flushed, and ms is what t has said. *)
Told(ls, n, ms, t, v, M, b) ==
  /\ \A i \in Upto(ms, v) :
       \E j \in LinesBy(ls, t) : Rank(j, LinesBy(ls, t)) = Rank(i, Upto(ms, v)) /\ Tells(ls[j], t, ms[i])
  /\ Cardinality(LinesBy(ls, t)) = Cardinality(Upto(ms, v)) + (IF M = {} THEN 0 ELSE 1)
  /\ \A m \in M : \E j \in LinesBy(ls, t) : Rank(j, LinesBy(ls, t)) = Cardinality(LinesBy(ls, t)) /\ Tells(ls[j], t, m)
  /\ \A j \in LinesBy(ls, t) :
       j > n => Rank(j, LinesBy(ls, t)) = Cardinality(LinesBy(ls, t)) /\ b /\ M # {}

ToldTo(k, t) ==
  Told(sinks[k].lines, sinks[k].flushed, said[t], t, sinks[k].verbosity,
       Voice(stack[t], k, sinks[k].verbosity), Busy(stack[t], k, sinks[k].verbosity))

SaidType == said \in [Threads -> Seq(MessageType)]

(* Nothing is said before the threads run. *)
SilentInv == stage # "running" => \A t \in Threads : said[t] = << >> /\ ~ Hums(stack[t])

ToldInv == SaidType /\ SilentInv /\ \A t \in Threads, k \in DOMAIN sinks : ToldTo(k, t)

LEMMA OnePlace ==
  ASSUME NEW A, NEW n \in Nat, A \subseteq 1 .. n
  PROVE  /\ IsFiniteSet(A) /\ Cardinality(A) \in Nat
         /\ Cardinality(A \cup {n + 1}) = Cardinality(A) + 1
         /\ \A j \in A : Rank(j, A \cup {n + 1}) = Rank(j, A) /\ Rank(j, A) \in Nat /\ Rank(j, A) <= Cardinality(A)
         /\ Rank(n + 1, A \cup {n + 1}) = Cardinality(A) + 1
<1>1. IsFiniteSet(A) /\ n + 1 \notin A
  <2>1. IsFiniteSet(1 .. n) /\ n + 1 \notin 1 .. n
    BY FS_Interval
  <2> QED
    BY <2>1, FS_Subset
<1>2. Cardinality(A) \in Nat /\ Cardinality(A \cup {n + 1}) = Cardinality(A) + 1
  BY <1>1, FS_CardinalityType, FS_AddElement
<1>3. ASSUME NEW j \in A
      PROVE  Rank(j, A \cup {n + 1}) = Rank(j, A) /\ Rank(j, A) \in Nat /\ Rank(j, A) <= Cardinality(A)
  <2>1. {i \in A \cup {n + 1} : i <= j} = {i \in A : i <= j}
    <3>1. ~ (n + 1 <= j)
      OBVIOUS
    <3> QED
      BY <3>1
  <2>2. IsFiniteSet({i \in A : i <= j}) /\ Cardinality({i \in A : i <= j}) <= Cardinality(A)
    BY <1>1, FS_Subset
  <2>3. Cardinality({i \in A : i <= j}) \in Nat
    BY <2>2, FS_CardinalityType
  <2> QED
    BY <2>1, <2>2, <2>3 DEF Rank
<1>4. {i \in A \cup {n + 1} : i <= n + 1} = A \cup {n + 1}
  <2>1. \A i \in A \cup {n + 1} : i <= n + 1
    OBVIOUS
  <2> QED
    BY <2>1
<1> QED
  BY <1>1, <1>2, <1>3, <1>4 DEF Rank

LEMMA RankCut ==
  ASSUME NEW A, NEW n \in Nat, A \subseteq 1 .. n, NEW c \in Nat
  PROVE  /\ Cardinality({j \in A : j <= c}) <= Cardinality(A) /\ Cardinality({j \in A : j <= c}) \in Nat
         /\ \A j \in A : j <= c => Rank(j, {i \in A : i <= c}) = Rank(j, A)
<1>1. IsFiniteSet(A)
  BY OnePlace
<1>2. IsFiniteSet({j \in A : j <= c}) /\ Cardinality({j \in A : j <= c}) <= Cardinality(A)
  BY <1>1, FS_Subset
<1>3. Cardinality({j \in A : j <= c}) \in Nat
  BY <1>2, FS_CardinalityType
<1>4. ASSUME NEW j \in A, j <= c
      PROVE  {i \in {x \in A : x <= c} : i <= j} = {i \in A : i <= j}
  <2>1. \A i \in A : i <= j => i <= c
    BY <1>4
  <2> QED
    BY <2>1
<1> QED
  BY <1>2, <1>3, <1>4 DEF Rank

LEMMA PlacesFacts ==
  ASSUME NEW ls \in Seq(LineType), NEW ms \in Seq(MessageType), NEW t, NEW v
  PROVE  /\ Len(ls) \in Nat /\ LinesBy(ls, t) \subseteq 1 .. Len(ls)
         /\ Len(ms) \in Nat /\ Upto(ms, v) \subseteq 1 .. Len(ms)
         /\ Cardinality(LinesBy(ls, t)) \in Nat /\ Cardinality(Upto(ms, v)) \in Nat
<1>1. /\ Len(ls) \in Nat /\ LinesBy(ls, t) \subseteq 1 .. Len(ls)
      /\ Len(ms) \in Nat /\ Upto(ms, v) \subseteq 1 .. Len(ms)
  BY DEF LinesBy, Upto
<1> QED
  BY <1>1, OnePlace

LEMMA FlushedTold ==
  ASSUME NEW ls \in Seq(LineType), NEW ms, NEW t, NEW v, NEW M, NEW b, NEW n \in Nat, NEW N \in Nat, NEW c,
         Told(ls, n, ms, t, v, M, b), N >= n, (b => c) \/ N >= Len(ls)
  PROVE  Told(ls, N, ms, t, v, M, c)
<1>1. ASSUME NEW j \in LinesBy(ls, t), j > N
      PROVE  Rank(j, LinesBy(ls, t)) = Cardinality(LinesBy(ls, t)) /\ c /\ M # {}
  <2>1. j \in 1 .. Len(ls) /\ Len(ls) \in Nat
    BY DEF LinesBy
  <2>2. j > n /\ ~ (N >= Len(ls))
    BY <1>1, <2>1
  <2> QED
    BY <2>2 DEF Told
<1> QED
  BY <1>1 DEF Told

LEMMA LinesByAppend ==
  ASSUME NEW ls \in Seq(LineType), NEW l \in LineType, NEW t, NEW u, u = Append(ls, l)
  PROVE  /\ l.by = t /\ l.kind \in Spoken => LinesBy(u, t) = LinesBy(ls, t) \cup {Len(ls) + 1}
         /\ ~ (l.by = t /\ l.kind \in Spoken) => LinesBy(u, t) = LinesBy(ls, t)
<1> DEFINE n == Len(ls)
<1>1. n \in Nat /\ DOMAIN u = 1 .. n + 1 /\ DOMAIN ls = 1 .. n /\ u[n + 1] = l /\ \A j \in 1 .. n : u[j] = ls[j]
  BY AppendProperties
<1> HIDE DEF n
<1>2. 1 .. n + 1 = 1 .. n \cup {n + 1}
  BY <1>1
<1>3. /\ l.by = t /\ l.kind \in Spoken => LinesBy(u, t) = LinesBy(ls, t) \cup {n + 1}
      /\ ~ (l.by = t /\ l.kind \in Spoken) => LinesBy(u, t) = LinesBy(ls, t)
  BY <1>1, <1>2 DEF LinesBy
<1> QED
  BY <1>3 DEF n

(* u begins with the lines of ls and goes on with l. *)
Longer(u, ls, l) == u[Len(ls) + 1] = l /\ \A j \in 1 .. Len(ls) : u[j] = ls[j]

LEMMA AppendIsLonger ==
  ASSUME NEW ls \in Seq(LineType), NEW l \in LineType, NEW u, u = Append(ls, l)
  PROVE  Longer(u, ls, l)
BY AppendProperties DEF Longer

LEMMA LinesKept ==
  ASSUME NEW ls \in Seq(LineType), NEW l, NEW t, NEW u, Longer(u, ls, l), NEW j \in LinesBy(ls, t)
  PROVE  u[j] = ls[j]
<1>1. j \in 1 .. Len(ls)
  BY DEF LinesBy
<1> QED
  BY <1>1 DEF Longer

(* A line that is not of t's calls. *)
LEMMA OtherLineTold ==
  ASSUME NEW ls \in Seq(LineType), NEW l \in LineType, NEW ms, NEW t, NEW v, NEW M, NEW b, NEW n,
         Told(ls, n, ms, t, v, M, b), ~ (l.by = t /\ l.kind \in Spoken)
  PROVE  Told(Append(ls, l), n, ms, t, v, M, b)
<1>1. PICK u : u = Append(ls, l)
  OBVIOUS
<1>2. LinesBy(u, t) = LinesBy(ls, t)
  BY <1>1, LinesByAppend
<1>3. Longer(u, ls, l)
  BY <1>1, AppendIsLonger
<1>4. \A j \in LinesBy(ls, t) : u[j] = ls[j]
  BY <1>3, LinesKept
<1>5. Told(u, n, ms, t, v, M, b)
  BY <1>2, <1>4 DEF Told
<1> QED
  BY <1>1, <1>5, Zenon

(* A line of t's call. *)
LEMMA OwnLineTold ==
  ASSUME NEW ls \in Seq(LineType), NEW l \in LineType, NEW ms \in Seq(MessageType), NEW t, NEW v, NEW b, NEW c, NEW n, NEW m,
         Told(ls, n, ms, t, v, {}, b), l.by = t, l.kind \in Spoken, Tells(l, t, m), c
  PROVE  Told(Append(ls, l), n, ms, t, v, {m}, c)
<1>12. PICK u : u = Append(ls, l)
  OBVIOUS
<1> DEFINE A == LinesBy(ls, t)
           k == Len(ls)
           B == A \cup {k + 1}
           T == Upto(ms, v)
<1>13. LinesBy(u, t) = B
  BY <1>12, LinesByAppend, ZenonT(40)
<1>14. Longer(u, ls, l)
  BY <1>12, AppendIsLonger
<1>1. LinesBy(u, t) = B /\ u[k + 1] = l /\ \A j \in A : u[j] = ls[j]
  BY <1>13, <1>14, LinesKept DEF Longer
<1>2. k \in Nat /\ A \subseteq 1 .. k /\ Cardinality(A) \in Nat /\ Cardinality(T) \in Nat
  BY PlacesFacts
<1>3. /\ \A i \in T : \E j \in A : Rank(j, A) = Rank(i, T) /\ Tells(ls[j], t, ms[i])
      /\ Cardinality(A) = Cardinality(T) + 0
      /\ \A j \in A : ~ (j > n)
  BY DEF Told
<1> HIDE DEF A, k, T
<1>4. /\ Cardinality(B) = Cardinality(A) + 1 /\ Rank(k + 1, B) = Cardinality(A) + 1
      /\ \A j \in A : Rank(j, B) = Rank(j, A)
  BY <1>2, OnePlace
<1> HIDE DEF B
<1>5. A \subseteq B /\ k + 1 \in B /\ \A j \in B : j \in A \/ j = k + 1
  BY DEF B
<1>6. ASSUME NEW i \in T
      PROVE  \E j \in B : Rank(j, B) = Rank(i, T) /\ Tells(u[j], t, ms[i])
  <2>1. PICK j \in A : Rank(j, A) = Rank(i, T) /\ Tells(ls[j], t, ms[i])
    BY <1>3
  <2> QED
    BY <1>1, <1>4, <1>5, <2>1
<1>7. Cardinality(B) = Cardinality(T) + 1
  BY <1>2, <1>3, <1>4
<1>8. Rank(k + 1, B) = Cardinality(B) /\ Tells(u[k + 1], t, m)
  BY <1>1, <1>4
<1>9. \A j \in B : j > n => Rank(j, B) = Cardinality(B)
  BY <1>3, <1>5, <1>8
<1>10. Told(u, n, ms, t, v, {m}, c)
  BY <1>1, <1>5, <1>6, <1>7, <1>8, <1>9 DEF Told, T
<1> QED
  BY <1>10, <1>12

(* The call of m returns. *)
LEMMA ReturnTold ==
  ASSUME NEW ls \in Seq(LineType), NEW ms \in Seq(MessageType), NEW m \in MessageType, NEW t, NEW v \in Int, NEW n,
         NEW M, NEW b, NEW c, Told(ls, n, ms, t, v, M, b), ~ b, IF m.verbosity <= v THEN M = {m} ELSE M = {}
  PROVE  Told(ls, n, Append(ms, m), t, v, {}, c)
<1> DEFINE A == LinesBy(ls, t)
           T == Upto(ms, v)
           k == Len(ms)
           q == Append(ms, m)
           S == Upto(q, v)
<1>1. k \in Nat /\ T \subseteq 1 .. k /\ Cardinality(A) \in Nat /\ Cardinality(T) \in Nat
  BY PlacesFacts
<1>2. q[k + 1] = m /\ \A i \in 1 .. k : q[i] = ms[i]
  BY AppendProperties
<1>3. S = IF m.verbosity <= v THEN T \cup {k + 1} ELSE T
  <2>1. DOMAIN q = 1 .. k + 1 /\ DOMAIN ms = 1 .. k
    BY AppendProperties
  <2>2. 1 .. k + 1 = 1 .. k \cup {k + 1}
    BY <1>1
  <2> HIDE DEF q, k
  <2> QED
    BY <1>2, <2>1, <2>2 DEF Upto
<1>4. /\ \A i \in T : \E j \in A : Rank(j, A) = Rank(i, T) /\ Tells(ls[j], t, ms[i])
      /\ Cardinality(A) = Cardinality(T) + (IF M = {} THEN 0 ELSE 1)
      /\ \A x \in M : \E j \in A : Rank(j, A) = Cardinality(A) /\ Tells(ls[j], t, x)
      /\ \A j \in A : ~ (j > n)
  BY DEF Told
<1>5. /\ Cardinality(T \cup {k + 1}) = Cardinality(T) + 1 /\ Rank(k + 1, T \cup {k + 1}) = Cardinality(T) + 1
      /\ \A i \in T : Rank(i, T \cup {k + 1}) = Rank(i, T)
  <2> HIDE DEF T, k
  <2> QED
    BY <1>1, OnePlace
<1> HIDE DEF A, T, k, q, S
<1>6. CASE m.verbosity <= v
  <2>1. S = T \cup {k + 1} /\ M = {m}
    BY <1>3, <1>6
  <2>2. Cardinality(A) = Cardinality(T) + 1
    BY <1>4, <2>1
  <2>3. Cardinality(A) = Cardinality(S) + 0
    BY <1>1, <1>5, <2>1, <2>2
  <2>4. ASSUME NEW i \in S
        PROVE  \E j \in A : Rank(j, A) = Rank(i, S) /\ Tells(ls[j], t, q[i])
    <3>1. CASE i \in T
      <4>1. PICK j \in A : Rank(j, A) = Rank(i, T) /\ Tells(ls[j], t, ms[i])
        BY <1>4, <3>1
      <4> QED
        BY <1>1, <1>2, <1>5, <2>1, <3>1, <4>1
    <3>2. CASE i = k + 1
      <4>1. PICK j \in A : Rank(j, A) = Cardinality(A) /\ Tells(ls[j], t, m)
        BY <1>4, <2>1
      <4> QED
        BY <1>2, <1>5, <2>1, <2>2, <3>2, <4>1
    <3> QED
      BY <2>1, <3>1, <3>2
  <2> QED
    BY <1>4, <2>3, <2>4 DEF Told, A, S, q
<1>7. CASE ~ (m.verbosity <= v)
  <2>1. S = T /\ M = {}
    BY <1>3, <1>7
  <2>2. ASSUME NEW i \in S
        PROVE  \E j \in A : Rank(j, A) = Rank(i, S) /\ Tells(ls[j], t, q[i])
    <3>1. PICK j \in A : Rank(j, A) = Rank(i, T) /\ Tells(ls[j], t, ms[i])
      BY <1>4, <2>1
    <3> QED
      BY <1>1, <1>2, <2>1, <3>1
  <2>3. Cardinality(A) = Cardinality(S) + 0
    BY <1>4, <2>1
  <2> QED
    BY <1>4, <2>2, <2>3 DEF Told, A, S, q
<1> QED
  BY <1>6, <1>7

(* Nothing said: the verbosity of the sink does not matter. *)
LEMMA NothingTold ==
  ASSUME NEW ls, NEW n, NEW t, NEW v, NEW w, NEW b, NEW c, Told(ls, n, << >>, t, v, {}, b)
  PROVE  Told(ls, n, << >>, t, w, {}, c)
<1>1. Upto(<< >>, v) = {} /\ Upto(<< >>, w) = {}
  BY DEF Upto
<1> QED
  BY <1>1 DEF Told

LEMMA EmptySinkTold ==
  ASSUME NEW n, NEW t, NEW v, NEW b
  PROVE  Told(<< >>, n, << >>, t, v, {}, b)
<1>1. Upto(<< >>, v) = {} /\ LinesBy(<< >>, t) = {}
  BY DEF Upto, LinesBy
<1>2. Cardinality({}) = 0 /\ 0 = 0 + 0
  BY FS_EmptySet
<1> QED
  BY <1>1, <1>2 DEF Told

(* The lines at the places D are the messages T of ms, and at most one more. *)
Kept(D, T, ls, t, ms) ==
  /\ \A i \in T : \E j \in D : Rank(j, D) = Rank(i, T) /\ Tells(ls[j], t, ms[i])
  /\ Cardinality(D) <= Cardinality(T) + 1

LEMMA ToldIsDurable ==
  ASSUME NEW ls \in Seq(LineType), NEW ms \in Seq(MessageType), NEW t, NEW v, NEW M, NEW b, NEW n \in Nat,
         Told(ls, n, ms, t, v, M, b)
  PROVE  Kept({j \in LinesBy(ls, t) : j <= n}, Upto(ms, v), ls, t, ms)
<1> DEFINE A == LinesBy(ls, t)
           T == Upto(ms, v)
           D == {j \in A : j <= n}
<1>1. /\ Len(ls) \in Nat /\ A \subseteq 1 .. Len(ls) /\ Len(ms) \in Nat /\ T \subseteq 1 .. Len(ms)
      /\ Cardinality(A) \in Nat /\ Cardinality(T) \in Nat
  BY PlacesFacts
<1>2. /\ \A i \in T : \E j \in A : Rank(j, A) = Rank(i, T) /\ Tells(ls[j], t, ms[i])
      /\ Cardinality(A) = Cardinality(T) + (IF M = {} THEN 0 ELSE 1)
      /\ \A j \in A : j > n => Rank(j, A) = Cardinality(A) /\ M # {}
  BY DEF Told
<1> HIDE DEF A, T
<1>3. Cardinality(D) <= Cardinality(A) /\ Cardinality(D) \in Nat /\ \A j \in A : j <= n => Rank(j, D) = Rank(j, A)
  BY <1>1, RankCut
<1>4. Cardinality(D) <= Cardinality(T) + 1
  <2> HIDE DEF D
  <2> QED
    BY <1>1, <1>2, <1>3
<1>5. ASSUME NEW i \in T
      PROVE  \E j \in D : Rank(j, D) = Rank(i, T) /\ Tells(ls[j], t, ms[i])
  <2>1. PICK j \in A : Rank(j, A) = Rank(i, T) /\ Tells(ls[j], t, ms[i])
    BY <1>2
  <2>2. Rank(i, T) <= Cardinality(T)
    BY <1>1, OnePlace
  <2>3. ASSUME j > n
        PROVE  FALSE
    <3>1. Rank(j, A) = Cardinality(A) /\ Cardinality(A) = Cardinality(T) + 1
      BY <1>2, <2>3
    <3> QED
      BY <1>1, <2>1, <2>2, <3>1
  <2>4. j <= n
    BY <1>1, <2>3
  <2> QED
    BY <1>3, <2>1, <2>4
<1> QED
  BY <1>4, <1>5 DEF A, T, Kept

-----------------------------------------------------------------------------
(* What the calls of a thread say, frame by frame *)

(* u is f on top of s. *)
OnTop(u, f, s) == DOMAIN u = 1 .. Len(s) + 1 /\ u[1] = f /\ \A j \in 1 .. Len(s) : u[j + 1] = s[j]

LEMMA PushOn ==
  ASSUME NEW s \in Seq(FrameType), NEW f \in FrameType
  PROVE  OnTop(<<f>> \o s, f, s)
<1> DEFINE u == <<f>> \o s
<1>1. u \in Seq(FrameType) /\ Len(u) = Len(s) + 1 /\ Len(s) \in Nat /\ u[1] = f /\ \A j \in 2 .. Len(s) + 1 : u[j] = s[j - 1]
  BY PushFacts
<1>2. DOMAIN u = 1 .. Len(s) + 1
  BY <1>1
<1> HIDE DEF u
<1>3. ASSUME NEW j \in 1 .. Len(s)
      PROVE  u[j + 1] = s[j]
  <2>1. j + 1 \in 2 .. Len(s) + 1 /\ (j + 1) - 1 = j
    BY <1>1
  <2> QED
    BY <1>1, <2>1
<1>4. OnTop(u, f, s)
  BY <1>1, <1>2, <1>3 DEF OnTop
<1> QED
  BY <1>4 DEF u

LEMMA TopOn ==
  ASSUME NEW s \in Seq(FrameType), s # << >>, NEW g \in FrameType
  PROVE  OnTop(s, s[1], Tail(s)) /\ OnTop([s EXCEPT ![1] = g], g, Tail(s))
<1> DEFINE u == [s EXCEPT ![1] = g]
           r == Tail(s)
           n == Len(s)
<1>1. r \in Seq(FrameType) /\ Len(r) = n - 1 /\ n \in Nat \ {0} /\ DOMAIN s = 1 .. n /\ \A j \in 1 .. n - 1 : r[j] = s[j + 1]
  BY TailFacts
<1>2. u \in Seq(FrameType) /\ Len(u) = n /\ DOMAIN u = 1 .. n /\ u[1] = g /\ \A j \in 2 .. n : u[j] = s[j]
  BY TopFacts
<1> HIDE DEF u, r, n
<1>3. Len(r) + 1 = n
  BY <1>1
<1>4. ASSUME NEW j \in 1 .. Len(r)
      PROVE  s[j + 1] = r[j] /\ u[j + 1] = r[j]
  <2>1. j + 1 \in 2 .. n /\ j \in 1 .. n - 1
    BY <1>1
  <2> QED
    BY <1>1, <1>2, <2>1
<1>5. OnTop(s, s[1], r) /\ OnTop(u, g, r)
  BY <1>1, <1>2, <1>3, <1>4 DEF OnTop
<1> QED
  BY <1>5 DEF u, r

BusyFrame(f, k, v) == Says(f, k, v) /\ f.pc = "flush" /\ f.sink = k

LEMMA OnTopPlaces ==
  ASSUME NEW u, NEW f, NEW s \in Seq(FrameType), OnTop(u, f, s)
  PROVE  /\ 1 \in DOMAIN u /\ \A j \in DOMAIN s : j + 1 \in DOMAIN u /\ u[j + 1] = s[j]
         /\ \A i \in DOMAIN u : u[i] = f \/ \E j \in DOMAIN s : u[i] = s[j]
<1>1. Len(s) \in Nat /\ DOMAIN s = 1 .. Len(s)
  OBVIOUS
<1>2. DOMAIN u = 1 .. Len(s) + 1 /\ u[1] = f /\ \A j \in 1 .. Len(s) : u[j + 1] = s[j]
  BY DEF OnTop
<1>3. ASSUME NEW i \in DOMAIN u, i # 1
      PROVE  \E j \in DOMAIN s : u[i] = s[j]
  <2>1. i - 1 \in 1 .. Len(s) /\ (i - 1) + 1 = i
    BY <1>1, <1>2, <1>3
  <2> QED
    BY <1>1, <1>2, <2>1
<1>4. 1 \in DOMAIN u /\ \A j \in DOMAIN s : j + 1 \in DOMAIN u
  BY <1>1, <1>2
<1> QED
  BY <1>1, <1>2, <1>3, <1>4

LEMMA OnTopVoice ==
  ASSUME NEW u, NEW f, NEW s \in Seq(FrameType), OnTop(u, f, s), NEW k, NEW v
  PROVE  /\ Says(f, k, v) => Voice(u, k, v) = Voice(s, k, v) \cup {f.msg}
         /\ ~ Says(f, k, v) => Voice(u, k, v) = Voice(s, k, v)
         /\ Busy(u, k, v) <=> Busy(s, k, v) \/ BusyFrame(f, k, v)
         /\ Hums(u) <=> Hums(s) \/ f.msg.kind \in Spoken
<1>1. u[1] = f /\ 1 \in DOMAIN u /\ \A j \in DOMAIN s : j + 1 \in DOMAIN u /\ u[j + 1] = s[j]
  BY OnTopPlaces DEF OnTop
<1>2. \A i \in DOMAIN u : u[i] = f \/ \E j \in DOMAIN s : u[i] = s[j]
  BY OnTopPlaces
<1>3. ASSUME NEW m
      PROVE  m \in Voice(u, k, v) <=> m \in Voice(s, k, v) \/ (Says(f, k, v) /\ m = f.msg)
  BY <1>1, <1>2 DEF Voice
<1>4. Busy(u, k, v) <=> Busy(s, k, v) \/ BusyFrame(f, k, v)
  BY <1>1, <1>2 DEF Busy, BusyFrame
<1>5. Hums(u) <=> Hums(s) \/ f.msg.kind \in Spoken
  BY <1>1, <1>2 DEF Hums
<1> QED
  BY <1>3, <1>4, <1>5

LEMMA SilentVoice ==
  ASSUME NEW s, ~ Hums(s), NEW k, NEW v
  PROVE  Voice(s, k, v) = {} /\ ~ Busy(s, k, v)
BY DEF Hums, Voice, Busy, Says

LEMMA EmptyIsSilent == ~ Hums(<< >>)
BY DEF Hums

LEMMA NotReached ==
  ASSUME NEW f, f.pc \notin {"write", "flush"} \/ f.msg.kind \notin Spoken, NEW k, NEW v
  PROVE  ~ Says(f, k, v) /\ ~ BusyFrame(f, k, v)
BY DEF Says, Reached, BusyFrame

(* Below a call that speaks there is its scope, at most. *)
LEMMA SoleVoice ==
  ASSUME NEW t, NEW s \in Seq(FrameType), s # << >>, StackOK(t, s), s[1].pc \in InLog, s[1].msg.kind \in Spoken,
         NEW k, NEW v
  PROVE  Voice(Tail(s), k, v) = {} /\ ~ Busy(Tail(s), k, v)
<1> DEFINE r == Tail(s)
           n == Len(s)
<1>1. r \in Seq(FrameType) /\ Len(r) = n - 1 /\ DOMAIN r = 1 .. n - 1 /\ n \in Nat \ {0} /\ \A j \in 1 .. n - 1 : r[j] = s[j + 1]
  BY TailFacts
<1>2. \A j \in 1 .. n - 1 : OnTopOf(s[j], s[j + 1])
  BY DEF StackOK
<1> HIDE DEF r, n
<1>3. n # 1 => r[1].pc \in {"open indent", "close end"}
  <2> SUFFICES ASSUME n # 1
               PROVE  r[1].pc \in {"open indent", "close end"}
    OBVIOUS
  <2>1. 1 \in 1 .. n - 1 /\ 1 + 1 = 2
    BY <1>1
  <2>2. OnTopOf(s[1], s[2]) /\ r[1] = s[2]
    BY <1>1, <1>2, <2>1
  <2> QED
    BY <2>2 DEF OnTopOf, Spoken, InLog, InHandler
<1>4. n = 1 \/ n = 2
  <2> SUFFICES ASSUME n # 1, n # 2
               PROVE  FALSE
    OBVIOUS
  <2>1. 1 \in 1 .. n - 1 /\ 2 \in 1 .. n - 1 /\ 1 + 1 = 2
    BY <1>1
  <2>2. OnTopOf(s[2], s[2 + 1]) /\ r[1] = s[2]
    BY <1>1, <1>2, <2>1
  <2> QED
    BY <1>3, <2>2 DEF OnTopOf, InLog, InHandler
<1>5. \A j \in DOMAIN r : r[j].pc \notin {"write", "flush"}
  <2>1. \A j \in 1 .. n - 1 : j = 1 /\ n # 1
    BY <1>1, <1>4
  <2> QED
    BY <1>1, <1>3, <2>1
<1>6. \A j \in DOMAIN r : ~ Says(r[j], k, v)
  BY <1>5, NotReached
<1>7. Voice(r, k, v) = {} /\ ~ Busy(r, k, v)
  BY <1>6 DEF Voice, Busy
<1> QED
  BY <1>7 DEF r

-----------------------------------------------------------------------------
(* The steps that tell nothing *)

(* The sinks hear nothing new of t, and what it goes on with is flushed. *)
Mute(t) ==
  /\ \A k \in DOMAIN sinks :
       /\ Voice(stack'[t], k, sinks[k].verbosity) = Voice(stack[t], k, sinks[k].verbosity)
       /\ Busy(stack[t], k, sinks[k].verbosity) =>
            Busy(stack'[t], k, sinks[k].verbosity) \/ sinks'[k].flushed = Len(sinks[k].lines)
  /\ Hums(stack'[t]) => Hums(stack[t]) \/ stage = "running"

LEMMA MuteTurn ==
  ASSUME TypeInv, NEW t \in Threads, stack[t] # << >>, NEW g \in FrameType, Turns(t, g), g.msg = Top(t).msg,
         \A k \in DOMAIN sinks :
           /\ Says(g, k, sinks[k].verbosity) <=> Says(Top(t), k, sinks[k].verbosity)
           /\ BusyFrame(Top(t), k, sinks[k].verbosity) => sinks'[k].flushed = Len(sinks[k].lines)
  PROVE  Mute(t)
<1> DEFINE s == stack[t]
           u == stack'[t]
           f == Top(t)
           r == Tail(s)
<1>1. s \in Seq(FrameType) /\ f = s[1] /\ u = [s EXCEPT ![1] = g] /\ r \in Seq(FrameType)
  BY TopIsFrame DEF TypeInv, StackType, Turns
<1>2. OnTop(s, f, r) /\ OnTop(u, g, r)
  BY <1>1, TopOn
<1> HIDE DEF r, s, u, f
<1>3. ASSUME NEW k \in DOMAIN sinks
      PROVE  /\ Voice(u, k, sinks[k].verbosity) = Voice(s, k, sinks[k].verbosity)
             /\ Busy(s, k, sinks[k].verbosity) => Busy(u, k, sinks[k].verbosity) \/ sinks'[k].flushed = Len(sinks[k].lines)
  <2> DEFINE v == sinks[k].verbosity
  <2>1. /\ Says(g, k, v) <=> Says(f, k, v)
        /\ BusyFrame(f, k, v) => sinks'[k].flushed = Len(sinks[k].lines)
    BY DEF f
  <2>2. g.msg = f.msg
    BY DEF f
  <2> HIDE DEF v
  <2>3. /\ Says(g, k, v) => Voice(u, k, v) = Voice(r, k, v) \cup {g.msg}
        /\ ~ Says(g, k, v) => Voice(u, k, v) = Voice(r, k, v)
        /\ Busy(u, k, v) <=> Busy(r, k, v) \/ BusyFrame(g, k, v)
    BY <1>1, <1>2, OnTopVoice
  <2>4. /\ Says(f, k, v) => Voice(s, k, v) = Voice(r, k, v) \cup {f.msg}
        /\ ~ Says(f, k, v) => Voice(s, k, v) = Voice(r, k, v)
        /\ Busy(s, k, v) <=> Busy(r, k, v) \/ BusyFrame(f, k, v)
    BY <1>1, <1>2, OnTopVoice
  <2> QED
    BY <2>1, <2>2, <2>3, <2>4 DEF v
<1>4. Hums(u) => Hums(s)
  BY <1>1, <1>2, OnTopVoice DEF f
<1> QED
  BY <1>3, <1>4 DEF Mute, s, u

LEMMA MuteInvoke ==
  ASSUME TypeInv, NEW t \in Threads, stack[t] # << >>, NEW f \in FrameType, NEW g \in FrameType, Invokes(t, f, g),
         g.msg = Top(t).msg, f.msg.kind \in Spoken => Top(t).msg.kind \in Spoken,
         \A h \in {f, g, Top(t)} : h.pc \notin {"write", "flush"} \/ h.msg.kind \notin Spoken
  PROVE  Mute(t)
<1> DEFINE s == stack[t]
           u == stack'[t]
           r == Tail(s)
           w == <<g>> \o r
<1>1. s \in Seq(FrameType) /\ Top(t) = s[1] /\ u = <<f, g>> \o r /\ r \in Seq(FrameType)
  BY TopIsFrame DEF TypeInv, StackType, Invokes
<1>2. w \in Seq(FrameType) /\ u = <<f>> \o w
  BY <1>1, PushFacts, TwoAreOneByOne, SMTT(30)
<1>3. OnTop(s, Top(t), r) /\ OnTop(w, g, r) /\ OnTop(u, f, w)
  BY <1>1, <1>2, TopOn, PushOn
<1> HIDE DEF s, u, r, w
<1>4. ASSUME NEW k, NEW v
      PROVE  Voice(u, k, v) = Voice(s, k, v) /\ (Busy(u, k, v) <=> Busy(s, k, v))
  <2>1. \A h \in {f, g, Top(t)} : ~ Says(h, k, v) /\ ~ BusyFrame(h, k, v)
    BY NotReached
  <2>2. Voice(u, k, v) = Voice(w, k, v) /\ (Busy(u, k, v) <=> Busy(w, k, v))
    BY <1>2, <1>3, <2>1, OnTopVoice
  <2>3. Voice(w, k, v) = Voice(r, k, v) /\ (Busy(w, k, v) <=> Busy(r, k, v))
    BY <1>1, <1>3, <2>1, OnTopVoice
  <2>4. Voice(s, k, v) = Voice(r, k, v) /\ (Busy(s, k, v) <=> Busy(r, k, v))
    BY <1>1, <1>3, <2>1, OnTopVoice
  <2> QED
    BY <2>2, <2>3, <2>4
<1>5. Hums(u) => Hums(s)
  <2>1. (Hums(u) <=> Hums(w) \/ f.msg.kind \in Spoken) /\ (Hums(w) <=> Hums(r) \/ g.msg.kind \in Spoken)
        /\ (Hums(s) <=> Hums(r) \/ Top(t).msg.kind \in Spoken)
    BY <1>1, <1>2, <1>3, OnTopVoice
  <2> QED
    BY <2>1
<1> QED
  BY <1>4, <1>5 DEF Mute, s, u

LEMMA MuteReturn ==
  ASSUME TypeInv, NEW t \in Threads, stack[t] # << >>, Return(t),
         Top(t).pc \notin {"write", "flush"} \/ Top(t).msg.kind \notin Spoken
  PROVE  Mute(t)
<1> DEFINE s == stack[t]
           u == stack'[t]
<1>1. s \in Seq(FrameType) /\ Top(t) = s[1] /\ Top(t) \in FrameType /\ u = Tail(s) /\ u \in Seq(FrameType)
  BY TopIsFrame DEF TypeInv, StackType, Return
<1>2. OnTop(s, Top(t), u)
  BY <1>1, TopOn
<1> HIDE DEF s, u
<1>3. ASSUME NEW k, NEW v
      PROVE  Voice(u, k, v) = Voice(s, k, v) /\ (Busy(u, k, v) <=> Busy(s, k, v))
  <2>1. ~ Says(Top(t), k, v) /\ ~ BusyFrame(Top(t), k, v)
    BY NotReached
  <2> QED
    BY <1>1, <1>2, <2>1, OnTopVoice
<1>4. Hums(u) => Hums(s)
  BY <1>1, <1>2, OnTopVoice
<1> QED
  BY <1>3, <1>4 DEF Mute, s, u

LEMMA MutePush ==
  ASSUME TypeInv, NEW t \in Threads, NEW f \in FrameType, Push(t, f), f.pc \notin {"write", "flush"},
         f.msg.kind \notin Spoken \/ stage = "running"
  PROVE  Mute(t)
<1> DEFINE s == stack[t]
           u == stack'[t]
<1>1. s \in Seq(FrameType) /\ u = <<f>> \o s
  BY DEF TypeInv, StackType, Push
<1>2. OnTop(u, f, s)
  BY <1>1, PushOn
<1> HIDE DEF s, u
<1>3. ASSUME NEW k, NEW v
      PROVE  Voice(u, k, v) = Voice(s, k, v) /\ (Busy(u, k, v) <=> Busy(s, k, v))
  <2>1. ~ Says(f, k, v) /\ ~ BusyFrame(f, k, v)
    BY NotReached
  <2> QED
    BY <1>1, <1>2, <2>1, OnTopVoice
<1>4. Hums(u) => Hums(s) \/ stage = "running"
  BY <1>1, <1>2, OnTopVoice
<1> QED
  BY <1>3, <1>4 DEF Mute, s, u

LEMMA MuteStill ==
  ASSUME NEW t \in Threads, stack'[t] = stack[t]
  PROVE  Mute(t)
BY DEF Mute

-----------------------------------------------------------------------------
LEMMA FormatMute ==
  ASSUME TypeInv, NEW t \in Threads, Format(t)
  PROVE  Mute(t)
<1> DEFINE f == Top(t)
           g == [f EXCEPT !.pc = "lock"]
<1>1. stack[t] # << >> /\ f.pc = "format" /\ f \in FrameType /\ Goto(t, "lock") /\ "lock" \in PCs /\ StackType
  BY AtTop DEF Format, PCs, Holding, TypeInv
<1>2. g \in FrameType /\ Turns(t, g)
  BY <1>1, GotoTurns
<1>3. g.pc = "lock" /\ g.msg = f.msg
  BY <1>1 DEF FrameType
<1> HIDE DEF g
<1>4. \A k \in DOMAIN sinks : /\ ~ Says(g, k, sinks[k].verbosity) /\ ~ Says(f, k, sinks[k].verbosity)
                              /\ ~ BusyFrame(f, k, sinks[k].verbosity)
  BY <1>1, <1>3, NotReached
<1> QED
  BY <1>1, <1>2, <1>3, <1>4, MuteTurn

LEMMA LockMessageMute ==
  ASSUME TypeInv, StacksInv, NEW t \in Threads, LockMessage(t)
  PROVE  Mute(t)
<1> DEFINE f == Top(t)
           p == IF f.msg.verbosity = Fatal THEN "trace" ELSE "write"
           g == [f EXCEPT !.pc = p]
<1>1. stack[t] # << >> /\ f.pc = "lock" /\ f \in FrameType /\ Goto(t, p) /\ p \in PCs /\ StackType
  BY AtTop DEF LockMessage, PCs, Holding, TypeInv
<1>2. p \in {"trace", "write"}
  OBVIOUS
<1> HIDE DEF p
<1>3. g \in FrameType /\ Turns(t, g)
  BY <1>1, GotoTurns
<1>4. FrameOK(t, f)
  BY <1>1, TopOK
<1>5. g.pc = p /\ g.msg = f.msg /\ g.sink = 1
  BY <1>1, <1>4 DEF FrameType, FrameOK
<1> HIDE DEF g
<1>6. ASSUME NEW k \in DOMAIN sinks, NEW v
      PROVE  ~ Says(g, k, v) /\ ~ Says(f, k, v) /\ ~ BusyFrame(f, k, v)
  <2>1. k \in Nat \ {0}
    BY SinkAt DEF TypeInv
  <2>2. ~ Reached(g, k)
    BY <1>2, <1>5, <2>1 DEF Reached
  <2>3. ~ Says(f, k, v) /\ ~ BusyFrame(f, k, v)
    BY <1>1, NotReached
  <2> QED
    BY <2>2, <2>3 DEF Says
<1> QED
  BY <1>1, <1>3, <1>5, <1>6, MuteTurn

LEMMA UnspokenTurn ==
  ASSUME TypeInv, NEW t \in Threads, stack[t] # << >>, NEW g \in FrameType, Turns(t, g), g.msg = Top(t).msg,
         Top(t).msg.kind \notin Spoken
  PROVE  Mute(t)
<1>1. \A k \in DOMAIN sinks : /\ ~ Says(g, k, sinks[k].verbosity) /\ ~ Says(Top(t), k, sinks[k].verbosity)
                              /\ ~ BusyFrame(Top(t), k, sinks[k].verbosity)
  BY NotReached
<1> QED
  BY <1>1, MuteTurn

LEMMA TraceMute ==
  ASSUME TypeInv, StacksInv, NEW t \in Threads, Trace(t)
  PROVE  Mute(t)
<1> DEFINE f == Top(t)
           g == [f EXCEPT !.pc = "write"]
           h == RawLog(t)
<1>1. /\ stack[t] # << >> /\ f.pc = "trace" /\ f \in FrameType /\ StackType /\ "write" \in PCs
      /\ CallThen(t, h, "write") \/ Goto(t, "write")
  BY AtTop DEF Trace, PCs, Holding, TypeInv
<1>2. FrameOK(t, f)
  BY <1>1, TopOK
<1>3. f.msg.kind \notin Spoken
  BY <1>1, <1>2 DEF FrameOK, Spoken
<1>4. h \in FrameType /\ h.msg.kind \notin Spoken
  BY RawLogFacts DEF Spoken
<1>5. g.msg = f.msg
  BY <1>1 DEF FrameType
<1>6. g \in FrameType /\ (Invokes(t, h, g) \/ Turns(t, g))
  BY <1>1, GotoTurns, CallThenInvokes
<1> HIDE DEF g, h
<1> QED
  BY <1>1, <1>3, <1>4, <1>5, <1>6, UnspokenTurn, MuteInvoke

LEMMA FlushMute ==
  ASSUME TypeInv, NEW t \in Threads, Flush(t)
  PROVE  Mute(t)
<1> DEFINE f == Top(t)
           g == [f EXCEPT !.pc = "write", !.sink = f.sink + 1]
<1>1. stack[t] # << >> /\ f.pc = "flush" /\ f.sink \in Nat \ {0} /\ f \in FrameType
  BY AtTop DEF Flush
<1>2. g \in FrameType /\ Turns(t, g) /\ sinks' = [sinks EXCEPT ![f.sink] = Flushed(sinks[f.sink])]
  BY <1>1, FlushForm
<1>3. g.pc = "write" /\ g.msg = f.msg /\ g.sink = f.sink + 1
  BY <1>1 DEF FrameType
<1> HIDE DEF f, g
<1>4. ASSUME NEW k \in DOMAIN sinks, NEW v
      PROVE  /\ Says(g, k, v) <=> Says(f, k, v)
             /\ BusyFrame(f, k, v) => sinks'[k].flushed = Len(sinks[k].lines)
  <2>1. k \in Nat \ {0} /\ sinks[k] \in SinkType
    BY SinkAt DEF TypeInv
  <2>2. Reached(g, k) <=> Reached(f, k)
    BY <1>1, <1>3, <2>1 DEF Reached
  <2>3. f.sink = k => sinks'[k] = Flushed(sinks[k])
    BY <1>2
  <2>4. Flushed(sinks[k]).flushed = Len(sinks[k].lines)
    BY <2>1, FlushedFacts
  <2> QED
    BY <1>3, <2>2, <2>3, <2>4 DEF Says, BusyFrame
<1> QED
  BY <1>1, <1>2, <1>3, <1>4, MuteTurn DEF f

LEMMA FatalEndsMute ==
  ASSUME TypeInv, StacksInv, NEW t \in Threads, FatalEnds(t)
  PROVE  Mute(t)
<1>1. stack[t] # << >> /\ Top(t).msg.verbosity = Fatal /\ (Return(t) \/ stack' = stack)
  BY AtTop DEF FatalEnds, Written
<1>2. FrameOK(t, Top(t))
  BY <1>1, TopOK
<1>3. Top(t).msg.kind \notin Spoken
  BY <1>1, <1>2 DEF FrameOK, Spoken
<1> QED
  BY <1>1, <1>3, MuteReturn, MuteStill

LEMMA ScopeMute ==
  ASSUME TypeInv, NEW t \in Threads, OpenBrace(t) \/ CloseIndent(t)
  PROVE  Mute(t)
<1>1. PICK p \in {"open", "close"} : \E q \in {"open indent", "close end"} :
        At(t, p) /\ CallThen(t, Frame("format", Top(t).msg), q)
  BY DEF OpenBrace, CloseIndent
<1>2. PICK q \in {"open indent", "close end"} : At(t, p) /\ CallThen(t, Frame("format", Top(t).msg), q)
  BY <1>1
<1> DEFINE f == Top(t)
           h == Frame("format", f.msg)
           g == [f EXCEPT !.pc = q]
<1>3. /\ stack[t] # << >> /\ f.pc = p /\ h \in FrameType /\ h.pc = "format" /\ h.msg = f.msg
      /\ g \in FrameType /\ g.pc = q /\ g.msg = f.msg /\ Invokes(t, h, g)
  BY <1>2, ScopeForm
<1> HIDE DEF f, g, h
<1>4. \A x \in {h, g, f} : x.pc \notin {"write", "flush"}
  BY <1>3
<1> QED
  BY <1>3, <1>4, MuteInvoke DEF f

LEMMA ScopeReturnMute ==
  ASSUME TypeInv, NEW t \in Threads, OpenIndent(t) \/ CloseReturns(t)
  PROVE  Mute(t)
<1>1. stack[t] # << >> /\ Top(t).pc \in {"open indent", "close end"} /\ Return(t)
  BY AtTop DEF OpenIndent, CloseReturns
<1> QED
  BY <1>1, MuteReturn

LEMMA HandlerMute ==
  ASSUME TypeInv, StacksInv, NEW t \in Threads, HandlerFlushes(t)
  PROVE  Mute(t)
<1> DEFINE f == Top(t)
           h == Frame("format", f.msg)
           g == [f EXCEPT !.pc = "flush and kill"]
<1>1. /\ stack[t] # << >> /\ f.pc = "caught" /\ f \in FrameType
      /\ h \in FrameType /\ h.pc = "format" /\ g \in FrameType /\ g.pc = "flush and kill" /\ Invokes(t, h, g)
  BY HandlerForm
<1>2. h.msg = f.msg /\ g.msg = f.msg
  BY HandlerForm
<1> HIDE DEF f, g, h
<1>3. \A x \in {h, g, f} : x.pc \notin {"write", "flush"}
  BY <1>1
<1> QED
  BY <1>1, <1>2, <1>3, MuteInvoke DEF f

LEMMA HandlerAgainMute ==
  ASSUME TypeInv, StacksInv, NEW t \in Threads, HandlerFlushesAgain(t)
  PROVE  Mute(t)
<1> DEFINE f == Top(t)
           g == [f EXCEPT !.pc = "kill"]
<1>1. stack[t] # << >> /\ f.pc = "flush and kill" /\ Goto(t, "kill") /\ "kill" \in PCs /\ StackType /\ f \in FrameType
  BY AtTop DEF HandlerFlushesAgain, PCs, Holding, TypeInv
<1>2. g \in FrameType /\ Turns(t, g)
  BY <1>1, GotoTurns
<1>3. FrameOK(t, f)
  BY <1>1, TopOK
<1>4. g.msg = f.msg
  BY <1>1 DEF FrameType
<1>5. f.msg.kind \notin Spoken
  BY <1>1, <1>3 DEF FrameOK, Spoken, InHandler
<1> HIDE DEF g
<1> QED
  BY <1>1, <1>2, <1>4, <1>5, UnspokenTurn

LEMMA CallsMute ==
  ASSUME TypeInv, NEW t \in Threads, EarlyInv, ScopesInv,
         \/ AbortF(t) \/ Signal(t) \/ CloseScope(t) \/ (\E v \in Messages : LogF(t, v))
         \/ \E v \in Scopes : OpenScope(t, v)
  PROVE  Mute(t)
<1>1. Fatal \in Int /\ {"msg", "fatal", "signal", "{", "}"} \subseteq Kinds
      /\ {"format", "caught", "open", "close"} \subseteq PCs \ {"write", "flush"}
  BY DEF Kinds, PCs, Holding, Fatal
<1>2. ASSUME NEW p \in PCs \ {"write", "flush"}, NEW k \in Kinds, NEW v \in Int,
             NEW f, f = Frame(p, Message(t, k, v)) \/ \E b \in LibcStates : f = [Frame(p, Message(t, k, v)) EXCEPT !.in_libc = b],
             Push(t, f), k \notin Spoken \/ stage = "running"
      PROVE  Mute(t)
  <2>1. p \in PCs /\ p \notin {"write", "flush"}
    OBVIOUS
  <2>2. f = Frame(p, Message(t, k, v)) \/ \E b \in LibcStates : f = [Frame(p, Message(t, k, v)) EXCEPT !.in_libc = b]
    BY <1>2
  <2>3. f \in FrameType /\ f.pc = p /\ f.msg.kind = k
    BY <2>1, <2>2, NewFrame
  <2> QED
    BY <1>2, <2>1, <2>3, MutePush
<1>3. ASSUME NEW v \in Messages, LogF(t, v)
      PROVE  Mute(t)
  <2>1. v \in Int
    BY LoguruAssumption DEF Error
  <2>2. (Push(t, Frame("format", Message(t, "msg", v))) \/ stack' = stack) /\ stage = "running"
    BY <1>3 DEF LogF, Calls
  <2> QED
    BY <1>1, <1>2, <2>1, <2>2, MuteStill
<1>4. ASSUME NEW v \in Scopes, OpenScope(t, v)
      PROVE  Mute(t)
  <2>1. v \in Int
    BY LoguruAssumption DEF Info
  <2>2. (Push(t, Frame("open", Message(t, "{", v))) \/ stack' = stack) /\ stage = "running"
    BY <1>4 DEF OpenScope, Calls
  <2> QED
    BY <1>1, <1>2, <2>1, <2>2, MuteStill
<1>5. AbortF(t) => Mute(t)
  BY <1>1, <1>2 DEF AbortF, LogAndAbort, Calls
<1>6. ASSUME CloseScope(t)
      PROVE  Mute(t)
  <2>1. scopes[t] # << >> /\ Push(t, Frame("close", Message(t, "}", Head(scopes[t])))) /\ stage = "running"
    BY <1>6 DEF CloseScope, EarlyInv
  <2>2. scopes[t] \in Seq(Int)
    BY DEF TypeInv, ControlType
  <2>3. Head(scopes[t]) \in Int
    BY <2>1, <2>2, HeadTailProperties
  <2> QED
    BY <1>1, <1>2, <2>1, <2>3
<1>7. ASSUME Signal(t)
      PROVE  Mute(t)
  <2>1. PICK b \in LibcStates : Push(t, [Frame("caught", Message(t, "signal", Fatal)) EXCEPT !.in_libc = b])
    BY <1>7, SignalPushes
  <2>2. "signal" \notin Spoken
    BY DEF Spoken
  <2> QED
    BY <1>1, <1>2, <2>1, <2>2
<1> QED
  BY <1>3, <1>4, <1>5, <1>6, <1>7

LEMMA SetupMute ==
  ASSUME TypeInv, NEW v \in {Info, Error}, Push(Main, Setup(v))
  PROVE  Mute(Main) /\ (~ Hums(stack[Main]) => ~ Hums(stack'[Main]))
<1> DEFINE f == Setup(v)
<1>1. v \in Int /\ "setup" \in Kinds /\ "format" \in PCs /\ Main \in Threads
  BY DEF Kinds, PCs, Threads, Info, Error
<1>2. f \in FrameType /\ f.pc = "format" /\ f.msg.kind = "setup"
  BY <1>1, NewFrame DEF Setup
<1>3. f.msg.kind \notin Spoken
  BY <1>2 DEF Spoken
<1>4. stack[Main] \in Seq(FrameType) /\ stack'[Main] = <<f>> \o stack[Main]
  BY <1>1 DEF TypeInv, StackType, Push
<1> HIDE DEF f
<1>5. OnTop(stack'[Main], f, stack[Main])
  BY <1>2, <1>4, PushOn
<1>6. ~ Hums(stack[Main]) => ~ Hums(stack'[Main])
  BY <1>3, <1>4, <1>5, OnTopVoice
<1> QED
  BY <1>1, <1>2, <1>3, <1>6, MutePush DEF f

-----------------------------------------------------------------------------
(* Every step *)

LEMMA ToldAt ==
  ASSUME ToldInv, TypeInv, NEW t \in Threads, NEW k \in DOMAIN sinks
  PROVE  ToldTo(k, t) /\ said[t] \in Seq(MessageType) /\ sinks[k].lines \in Seq(LineType)
         /\ sinks[k].flushed \in Nat /\ Len(sinks[k].lines) \in Nat /\ sinks[k].verbosity \in Int
<1>1. sinks[k] \in SinkType
  BY DEF TypeInv, SinksType
<1> QED
  BY <1>1 DEF ToldInv, SaidType, SinkType

LEMMA KeepingStep ==
  ASSUME TypeInv, TypeInv', ToldInv, NEW t \in Threads, OwnStep(t), Keeping, Mute(t), said' = said,
         stage = "running" => stage' = "running"
  PROVE  ToldInv'
<1>1. ASSUME NEW o \in Threads, NEW k \in DOMAIN sinks'
      PROVE  ToldTo(k, o)'
  <2> DEFINE v == sinks[k].verbosity
  <2>1. /\ k \in DOMAIN sinks /\ sinks'[k].lines = sinks[k].lines /\ sinks'[k].verbosity = v
        /\ sinks'[k].flushed >= sinks[k].flushed
    BY <1>1 DEF Keeping
  <2>2. sinks'[k].flushed \in Nat
    <3>1. sinks'[k] \in SinkType
      BY <1>1 DEF TypeInv, SinksType
    <3> QED
      BY <3>1 DEF SinkType
  <2>3. /\ Voice(stack'[o], k, v) = Voice(stack[o], k, v)
        /\ Busy(stack[o], k, v) => Busy(stack'[o], k, v) \/ sinks'[k].flushed = Len(sinks[k].lines)
    <3>1. CASE o = t
      BY <2>1, <3>1 DEF Mute
    <3>2. CASE o # t
      BY <3>2 DEF OwnStep
    <3> QED
      BY <3>1, <3>2
  <2>4. /\ sinks[k].lines \in Seq(LineType) /\ sinks[k].flushed \in Nat /\ Len(sinks[k].lines) \in Nat
        /\ Told(sinks[k].lines, sinks[k].flushed, said[o], o, v, Voice(stack[o], k, v), Busy(stack[o], k, v))
    BY <2>1, ToldAt DEF ToldTo
  <2> HIDE DEF v
  <2>5. (Busy(stack[o], k, v) => Busy(stack'[o], k, v)) \/ sinks'[k].flushed >= Len(sinks[k].lines)
    BY <2>2, <2>3, <2>4
  <2>6. Told(sinks[k].lines, sinks'[k].flushed, said[o], o, v, Voice(stack[o], k, v), Busy(stack'[o], k, v))
    BY <2>1, <2>2, <2>4, <2>5, FlushedTold
  <2> QED
    BY <2>1, <2>3, <2>6 DEF ToldTo
<1>2. SilentInv'
  <2> SUFFICES ASSUME stage' # "running", NEW o \in Threads
               PROVE  said'[o] = << >> /\ ~ Hums(stack'[o])
    BY DEF SilentInv
  <2>1. stage # "running" /\ said[o] = << >> /\ ~ Hums(stack[o])
    BY DEF ToldInv, SilentInv
  <2> QED
    BY <2>1 DEF Mute, OwnStep
<1> QED
  BY <1>1, <1>2 DEF ToldInv, SaidType

LEMMA WriteTold ==
  ASSUME TypeInv, TypeInv', StacksInv, ToldInv, NEW t \in Threads, OwnStep(t), Write(t)
  PROVE  ToldInv'
<1> DEFINE f == Top(t)
           n == NextSink(f)
           g == [f EXCEPT !.pc = "flush", !.sink = n]
           l == Line(sinks[n], f.msg)
           s == stack[t]
           u == stack'[t]
           r == Tail(s)
<1>1. /\ s # << >> /\ f.pc = "write" /\ f \in FrameType /\ n \in DOMAIN sinks /\ n >= f.sink /\ Accepts(sinks[n], f.msg)
      /\ \A i \in DOMAIN sinks : i >= f.sink /\ i < n => ~ Accepts(sinks[i], f.msg)
      /\ g \in FrameType /\ Turns(t, g)
  BY WriteForm
<1>2. /\ DOMAIN sinks' = DOMAIN sinks /\ \A k \in DOMAIN sinks \ {n} : sinks'[k] = sinks[k]
      /\ sinks'[n].lines = Append(sinks[n].lines, l)
      /\ sinks'[n].verbosity = sinks[n].verbosity /\ sinks'[n].flushed = sinks[n].flushed
  BY WriteSinks
<1>3. said' = said /\ stage' = stage
  BY DEF Write, thread
<1>4. g.pc = "flush" /\ g.msg = f.msg /\ g.sink = n /\ f.msg \in MessageType /\ f.sink \in Nat \ {0}
  BY <1>1 DEF FrameType
<1>5. FrameOK(t, f) /\ StackOK(t, s) /\ s \in Seq(FrameType) /\ f = s[1]
  BY <1>1, TopOK
<1>6. l \in LineType /\ l.by = t /\ l.kind = f.msg.kind /\ Tells(l, t, f.msg)
  <2>1. sinks[n] \in SinkType
    BY <1>1 DEF TypeInv, SinksType
  <2>2. l \in LineType
    BY <1>4, <2>1, LineIsLine
  <2>3. l.by = f.msg.by /\ l.kind = f.msg.kind /\ l.verbosity = f.msg.verbosity
    BY DEF Line
  <2>4. f.msg.by = t
    BY <1>5 DEF FrameOK
  <2>5. f.msg = [by |-> t, kind |-> f.msg.kind, verbosity |-> f.msg.verbosity]
    BY <1>4, <2>4 DEF MessageType
  <2> QED
    BY <2>2, <2>3, <2>4, <2>5 DEF Tells, Message
<1>7. r \in Seq(FrameType) /\ OnTop(s, f, r) /\ OnTop(u, g, r)
  <2>1. u = [s EXCEPT ![1] = g]
    BY <1>1, <1>5 DEF TypeInv, StackType, Turns
  <2> QED
    BY <1>1, <1>5, <2>1, TopOn, TailFacts
<1> HIDE DEF f, n, g, l, s, u, r
<1>8. ASSUME NEW k \in DOMAIN sinks, k # n, NEW v, v = sinks[k].verbosity
      PROVE  Voice(u, k, v) = Voice(s, k, v) /\ (Busy(s, k, v) => Busy(u, k, v))
  <2>1. k \in Nat \ {0} /\ n \in Nat \ {0}
    BY <1>1, SinkAt DEF TypeInv
  <2>2. f.msg.verbosity <= v => ~ (k >= f.sink /\ k < n)
    BY <1>1, <1>8 DEF Accepts
  <2>3. (Reached(g, k) <=> k <= n) /\ (Reached(f, k) <=> k < f.sink)
    BY <1>1, <1>4 DEF Reached
  <2>4. f.msg.verbosity <= v => (Reached(g, k) <=> Reached(f, k))
    BY <1>1, <1>4, <1>8, <2>1, <2>2, <2>3
  <2>5. Says(g, k, v) <=> Says(f, k, v)
    BY <1>4, <2>4 DEF Says
  <2>6. ~ BusyFrame(f, k, v)
    BY <1>1 DEF BusyFrame
  <2>7. /\ Says(g, k, v) => Voice(u, k, v) = Voice(r, k, v) \cup {g.msg}
        /\ ~ Says(g, k, v) => Voice(u, k, v) = Voice(r, k, v)
        /\ Busy(u, k, v) <=> Busy(r, k, v) \/ BusyFrame(g, k, v)
    BY <1>7, OnTopVoice
  <2>8. /\ Says(f, k, v) => Voice(s, k, v) = Voice(r, k, v) \cup {f.msg}
        /\ ~ Says(f, k, v) => Voice(s, k, v) = Voice(r, k, v)
        /\ Busy(s, k, v) <=> Busy(r, k, v) \/ BusyFrame(f, k, v)
    BY <1>7, OnTopVoice
  <2> QED
    BY <1>4, <2>5, <2>6, <2>7, <2>8
<1>9. ASSUME NEW v, v = sinks[n].verbosity, f.msg.kind \in Spoken
      PROVE  Voice(s, n, v) = {} /\ Voice(u, n, v) = {f.msg} /\ Busy(u, n, v)
  <2>1. Voice(r, n, v) = {} /\ ~ Busy(r, n, v)
    BY <1>1, <1>5, <1>9, SoleVoice DEF InLog, r
  <2>2. n \in Nat \ {0}
    BY <1>1, SinkAt DEF TypeInv
  <2>3. ~ Says(f, n, v)
    BY <1>1, <1>4, <2>2 DEF Says, Reached
  <2>4. Says(g, n, v) /\ BusyFrame(g, n, v)
    BY <1>1, <1>4, <1>9, <2>2 DEF Says, Reached, BusyFrame, Accepts
  <2>5. Voice(s, n, v) = Voice(r, n, v)
    BY <1>7, <2>3, OnTopVoice
  <2>6. Voice(u, n, v) = Voice(r, n, v) \cup {g.msg} /\ (Busy(u, n, v) <=> Busy(r, n, v) \/ BusyFrame(g, n, v))
    BY <1>7, <2>4, OnTopVoice
  <2> QED
    BY <1>4, <2>1, <2>4, <2>5, <2>6
<1>10. ASSUME NEW v, f.msg.kind \notin Spoken
       PROVE  Voice(u, n, v) = Voice(s, n, v) /\ (Busy(u, n, v) <=> Busy(s, n, v))
  <2>1. ~ Says(f, n, v) /\ ~ Says(g, n, v) /\ ~ BusyFrame(f, n, v) /\ ~ BusyFrame(g, n, v)
    BY <1>4, <1>10, NotReached
  <2>2. Voice(u, n, v) = Voice(r, n, v) /\ (Busy(u, n, v) <=> Busy(r, n, v))
    BY <1>7, <2>1, OnTopVoice
  <2>3. Voice(s, n, v) = Voice(r, n, v) /\ (Busy(s, n, v) <=> Busy(r, n, v))
    BY <1>7, <2>1, OnTopVoice
  <2> QED
    BY <2>2, <2>3
<1>11. ASSUME NEW o \in Threads, NEW k \in DOMAIN sinks
       PROVE  ToldTo(k, o)'
  <2> DEFINE v == sinks[k].verbosity
             ls == sinks[k].lines
             c == sinks[k].flushed
  <2>1. /\ ls \in Seq(LineType) /\ c \in Nat /\ Len(ls) \in Nat /\ said[o] \in Seq(MessageType)
        /\ Told(ls, c, said[o], o, v, Voice(stack[o], k, v), Busy(stack[o], k, v))
    BY ToldAt DEF ToldTo
  <2>2. sinks'[k].verbosity = v /\ sinks'[k].flushed = c
        /\ sinks'[k].lines = IF k = n THEN Append(ls, l) ELSE ls
    BY <1>2
  <2>3. ASSUME o # t
        PROVE  Told(sinks'[k].lines, c, said[o], o, v, Voice(stack'[o], k, v), Busy(stack'[o], k, v))
    <3>1. stack'[o] = stack[o]
      BY <2>3 DEF OwnStep
    <3>2. ~ (l.by = o /\ l.kind \in Spoken)
      BY <1>6, <2>3
    <3> HIDE DEF v, ls, c
    <3>3. Told(Append(ls, l), c, said[o], o, v, Voice(stack[o], k, v), Busy(stack[o], k, v))
      BY <1>6, <2>1, <3>2, OtherLineTold
    <3> QED
      BY <2>1, <2>2, <3>1, <3>3
  <2>4. ASSUME o = t, k # n
        PROVE  Told(sinks'[k].lines, c, said[o], o, v, Voice(u, k, v), Busy(u, k, v))
    <3>1. Voice(u, k, v) = Voice(s, k, v) /\ (Busy(s, k, v) => Busy(u, k, v))
      BY <1>8, <2>4
    <3>2. Told(ls, c, said[o], o, v, Voice(s, k, v), Busy(s, k, v))
      BY <2>1, <2>4 DEF s
    <3> HIDE DEF v, ls, c
    <3>3. c >= c
      BY <2>1
    <3>4. Told(ls, c, said[o], o, v, Voice(s, k, v), Busy(u, k, v))
      BY <2>1, <3>1, <3>2, <3>3, FlushedTold
    <3> QED
      BY <2>2, <2>4, <3>1, <3>4
  <2>5. ASSUME o = t, k = n, f.msg.kind \notin Spoken
        PROVE  Told(sinks'[k].lines, c, said[o], o, v, Voice(u, k, v), Busy(u, k, v))
    <3>1. Voice(u, k, v) = Voice(s, k, v) /\ (Busy(u, k, v) <=> Busy(s, k, v))
      BY <1>10, <2>5
    <3>2. ~ (l.by = o /\ l.kind \in Spoken)
      BY <1>6, <2>5
    <3>3. Told(ls, c, said[o], o, v, Voice(s, k, v), Busy(s, k, v))
      BY <2>1, <2>5 DEF s
    <3> HIDE DEF v, ls, c
    <3>4. Told(Append(ls, l), c, said[o], o, v, Voice(s, k, v), Busy(s, k, v))
      BY <1>6, <2>1, <3>2, <3>3, OtherLineTold
    <3>5. c >= c
      BY <2>1
    <3> DEFINE w == Append(ls, l)
    <3>6. w \in Seq(LineType) /\ Told(w, c, said[o], o, v, Voice(s, k, v), Busy(s, k, v))
      BY <1>6, <2>1, <3>4, AppendProperties
    <3>8. Busy(s, k, v) => Busy(u, k, v)
      BY <3>1
    <3> HIDE DEF w
    <3>7. Told(w, c, said[o], o, v, Voice(s, k, v), Busy(u, k, v))
      BY <2>1, <3>5, <3>6, <3>8, FlushedTold
    <3> QED
      BY <2>2, <2>5, <3>1, <3>7 DEF w
  <2>6. ASSUME o = t, k = n, f.msg.kind \in Spoken
        PROVE  Told(sinks'[k].lines, c, said[o], o, v, Voice(u, k, v), Busy(u, k, v))
    <3>1. Voice(s, k, v) = {} /\ Voice(u, k, v) = {f.msg} /\ Busy(u, k, v)
      BY <1>9, <2>6
    <3>2. Told(ls, c, said[o], o, v, {}, Busy(s, k, v))
      BY <2>1, <2>6, <3>1 DEF s
    <3> HIDE DEF v, ls, c
    <3>3. Told(Append(ls, l), c, said[o], o, v, {f.msg}, Busy(u, k, v))
      BY <1>6, <2>1, <2>6, <3>1, <3>2, OwnLineTold
    <3> QED
      BY <2>2, <2>6, <3>1, <3>3
  <2> HIDE DEF v, c
  <2>7. Told(sinks'[k].lines, c, said[o], o, v, Voice(stack'[o], k, v), Busy(stack'[o], k, v))
    BY <2>3, <2>4, <2>5, <2>6 DEF u
  <2> QED
    BY <1>3, <2>2, <2>7 DEF ToldTo
<1>12. SilentInv'
  <2>1. Hums(u) => Hums(s)
    BY <1>4, <1>7, OnTopVoice
  <2>2. \A o \in Threads : Hums(stack'[o]) => Hums(stack[o])
    BY <2>1 DEF OwnStep, u, s
  <2> QED
    BY <1>3, <2>2 DEF ToldInv, SilentInv
<1> QED
  BY <1>2, <1>3, <1>11, <1>12 DEF ToldInv, SaidType

LEMMA LogReturnsTold ==
  ASSUME TypeInv, TypeInv', StacksInv, ToldInv, NEW t \in Threads, OwnStep(t), LogReturns(t)
  PROVE  ToldInv'
<1> DEFINE f == Top(t)
           s == stack[t]
           u == stack'[t]
<1>1. s # << >> /\ f.pc = "write" /\ f \in FrameType /\ Written(t) /\ Return(t) /\ sinks' = sinks /\ max_out' = max_out
  BY AtTop DEF LogReturns, Written, output
<1>2. stage' = stage /\ said' = IF f.msg.kind \in Spoken THEN [said EXCEPT ![t] = Append(said[t], f.msg)] ELSE said
  BY DEF LogReturns
<1>3. Keeping
  BY <1>1, UnchangedKeeps DEF TypeInv, output
<1>4. CASE f.msg.kind \notin Spoken
  <2>1. Mute(t)
    BY <1>1, <1>4, MuteReturn
  <2> QED
    BY <1>2, <1>3, <1>4, <2>1, KeepingStep
<1>5. CASE f.msg.kind \in Spoken
  <2>1. StackOK(t, s) /\ s \in Seq(FrameType) /\ f = s[1] /\ f.msg \in MessageType
    BY <1>1, TopOK DEF FrameType
  <2>2. u = Tail(s) /\ Tail(s) \in Seq(FrameType)
    BY <1>1, <2>1, TailFacts DEF TypeInv, StackType, Return
  <2>3. OnTop(s, f, u)
    BY <1>1, <2>1, <2>2, TopOn
  <2>11. u \in Seq(FrameType)
    BY <2>2
  <2>4. said \in [Threads -> Seq(MessageType)]
    BY DEF ToldInv, SaidType
  <2>5. said'[t] = Append(said[t], f.msg) /\ \A o \in Threads \ {t} : said'[o] = said[o]
    BY <1>2, <1>5, <2>4
  <2>6. SaidType'
    <3>1. Append(said[t], f.msg) \in Seq(MessageType)
      BY <2>1, <2>4, AppendProperties
    <3> QED
      BY <1>2, <2>4, <3>1 DEF SaidType
  <2>7. \A k \in DOMAIN sinks : f.msg.verbosity <= sinks[k].verbosity => Reached(f, k)
    BY <1>1, WrittenReached
  <2> HIDE DEF f, s, u
  <2>8. ASSUME NEW k \in DOMAIN sinks, NEW v, v = sinks[k].verbosity
        PROVE  /\ IF f.msg.verbosity <= v THEN Voice(s, k, v) = {f.msg} ELSE Voice(s, k, v) = {}
               /\ ~ Busy(s, k, v) /\ Voice(u, k, v) = {}
    <3>1. Voice(u, k, v) = {} /\ ~ Busy(u, k, v)
      BY <1>1, <1>5, <2>1, <2>2, SoleVoice DEF InLog
    <3>2. Says(f, k, v) <=> f.msg.verbosity <= v
      BY <1>5, <2>7, <2>8 DEF Says
    <3>3. ~ BusyFrame(f, k, v)
      BY <1>1 DEF BusyFrame
    <3>4. /\ Says(f, k, v) => Voice(s, k, v) = Voice(u, k, v) \cup {f.msg}
          /\ ~ Says(f, k, v) => Voice(s, k, v) = Voice(u, k, v)
          /\ Busy(s, k, v) <=> Busy(u, k, v) \/ BusyFrame(f, k, v)
      BY <2>3, <2>11, OnTopVoice
    <3> QED
      BY <3>1, <3>2, <3>3, <3>4
  <2>9. ASSUME NEW o \in Threads, NEW k \in DOMAIN sinks
        PROVE  ToldTo(k, o)'
    <3> DEFINE v == sinks[k].verbosity
               ls == sinks[k].lines
               c == sinks[k].flushed
    <3>1. /\ ls \in Seq(LineType) /\ c \in Nat /\ v \in Int /\ said[o] \in Seq(MessageType)
          /\ Told(ls, c, said[o], o, v, Voice(stack[o], k, v), Busy(stack[o], k, v))
      BY ToldAt DEF ToldTo
    <3>2. ASSUME o = t
          PROVE  Told(ls, c, said'[o], o, v, Voice(u, k, v), Busy(u, k, v))
      <4>1. /\ IF f.msg.verbosity <= v THEN Voice(s, k, v) = {f.msg} ELSE Voice(s, k, v) = {}
            /\ ~ Busy(s, k, v) /\ Voice(u, k, v) = {}
        BY <2>8
      <4>2. Told(ls, c, said[t], t, v, Voice(s, k, v), Busy(s, k, v))
        BY <3>1, <3>2 DEF s
      <4> HIDE DEF v, ls, c
      <4>3. Told(ls, c, Append(said[t], f.msg), t, v, {}, Busy(u, k, v))
        BY <2>1, <3>1, <3>2, <4>1, <4>2, ReturnTold
      <4> QED
        BY <2>5, <3>2, <4>1, <4>3
    <3>3. ASSUME o # t
          PROVE  Told(ls, c, said'[o], o, v, Voice(stack'[o], k, v), Busy(stack'[o], k, v))
      <4>1. stack'[o] = stack[o] /\ said'[o] = said[o]
        BY <2>5, <3>3 DEF OwnStep
      <4> QED
        BY <3>1, <4>1
    <3>4. Told(ls, c, said'[o], o, v, Voice(stack'[o], k, v), Busy(stack'[o], k, v))
      BY <3>2, <3>3 DEF u
    <3> QED
      BY <1>1, <3>4 DEF ToldTo
  <2>10. SilentInv'
    <3>1. Hums(s)
      BY <1>5, <2>2, <2>3, OnTopVoice
    <3> QED
      BY <1>2, <3>1 DEF ToldInv, SilentInv, s
  <2> QED
    BY <1>1, <2>6, <2>9, <2>10 DEF ToldInv
<1> QED
  BY <1>4, <1>5

-----------------------------------------------------------------------------
(* Nothing was said: a sink that comes, or takes another verbosity, has all *)
(* that was told.                                                          *)
LEMMA FreshTold ==
  ASSUME TypeInv, ToldInv, stage # "running", said' = said, \A o \in Threads : ~ Hums(stack'[o]),
         \A k \in DOMAIN sinks' :
           \/ k \in DOMAIN sinks /\ sinks'[k].lines = sinks[k].lines /\ sinks'[k].flushed = sinks[k].flushed
           \/ sinks'[k].lines = << >>
  PROVE  ToldInv'
<1>1. \A o \in Threads : said[o] = << >> /\ ~ Hums(stack[o])
  BY DEF ToldInv, SilentInv
<1>2. ASSUME NEW o \in Threads, NEW k \in DOMAIN sinks'
      PROVE  ToldTo(k, o)'
  <2> DEFINE w == sinks'[k].verbosity
             b == Busy(stack'[o], k, w)
  <2>1. Voice(stack'[o], k, w) = {} /\ said'[o] = << >>
    BY <1>1, SilentVoice
  <2>2. CASE sinks'[k].lines = << >>
    <3>1. Told(<< >>, sinks'[k].flushed, << >>, o, w, {}, b)
      BY EmptySinkTold
    <3> QED
      BY <2>1, <2>2, <3>1 DEF ToldTo
  <2>3. CASE k \in DOMAIN sinks /\ sinks'[k].lines = sinks[k].lines /\ sinks'[k].flushed = sinks[k].flushed
    <3> DEFINE v == sinks[k].verbosity
    <3>1. ToldTo(k, o)
      BY <2>3 DEF ToldInv
    <3>2. Voice(stack[o], k, v) = {}
      BY <1>1, SilentVoice
    <3>3. Told(sinks[k].lines, sinks[k].flushed, << >>, o, v, {}, Busy(stack[o], k, v))
      BY <1>1, <3>1, <3>2 DEF ToldTo
    <3> HIDE DEF v, w, b
    <3>4. Told(sinks[k].lines, sinks[k].flushed, << >>, o, w, {}, b)
      BY <3>3, NothingTold
    <3> QED
      BY <2>1, <2>3, <3>4 DEF ToldTo, w, b
  <2> QED
    BY <1>2, <2>2, <2>3
<1>3. SilentInv'
  BY <1>1 DEF SilentInv
<1> QED
  BY <1>2, <1>3 DEF ToldInv, SaidType

LEMMA MainTold ==
  ASSUME TypeInv, TypeInv', PoolInv, EarlyInv, ToldInv, MainStep
  PROVE  ToldInv'
<1>1. Main \in Threads /\ SinksType /\ said' = said
  BY DEF Threads, TypeInv, MainStep, InitLoguru, SetLoglevel, AddFile, StartThreads, Exit, thread
<1>2. scopes' = scopes
  BY DEF MainStep, InitLoguru, SetLoglevel, AddFile, StartThreads, Exit, thread
<1>3. ASSUME NEW v \in {Info, Error}, Push(Main, Setup(v))
      PROVE  OwnStep(Main)
  BY <1>2, <1>3 DEF Push, OwnStep, TypeInv, StackType
<1>4. CASE InitLoguru
  <2>1. Push(Main, Setup(Info)) /\ UNCHANGED output /\ stage # "running"
    BY <1>4 DEF InitLoguru
  <2>2. Mute(Main) /\ OwnStep(Main) /\ Keeping
    BY <1>1, <1>3, <2>1, SetupMute, UnchangedKeeps
  <2> QED
    BY <1>1, <2>1, <2>2, KeepingStep
<1>5. CASE StartThreads \/ Exit
  <2>1. stack' = stack /\ (UNCHANGED output \/ (FlushAll /\ UNCHANGED max_out)) /\ (stage' = stage \/ stage # "running")
    BY <1>5 DEF StartThreads, Exit
  <2>2. Mute(Main) /\ OwnStep(Main) /\ Keeping
    BY <1>1, <1>2, <2>1, MuteStill, UnchangedKeeps, FlushAllKeeps DEF OwnStep
  <2> QED
    BY <1>1, <2>1, <2>2, KeepingStep
<1>6. CASE SetLoglevel
  <2>1. stack' = stack /\ stage # "running" /\ sinks' = [sinks EXCEPT ![1].verbosity = Loglevel]
    BY <1>6 DEF SetLoglevel
  <2>2. ASSUME NEW k \in DOMAIN sinks'
        PROVE  k \in DOMAIN sinks /\ sinks'[k].lines = sinks[k].lines /\ sinks'[k].flushed = sinks[k].flushed
    <3>1. k \in DOMAIN sinks
      BY <2>1
    <3>2. sinks[k] \in SinkType
      BY <1>1, <3>1, SinkAt
    <3>3. sinks'[k] = [sinks[k] EXCEPT !.verbosity = Loglevel] \/ sinks'[k] = sinks[k]
      BY <2>1, <3>1
    <3> QED
      BY <3>1, <3>2, <3>3 DEF SinkType
  <2>3. \A o \in Threads : ~ Hums(stack'[o])
    BY <2>1 DEF ToldInv, SilentInv
  <2> QED
    BY <1>1, <2>1, <2>2, <2>3, FreshTold
<1>7. CASE AddFile
  <2>1. /\ stage # "running" /\ stage' = stage
        /\ \/ AddCallback(Head(files)) /\ Push(Main, Setup(Info))
           \/ UNCHANGED output /\ Push(Main, Setup(Error))
    BY <1>7 DEF AddFile
  <2>2. CASE UNCHANGED output /\ Push(Main, Setup(Error))
    <3>1. Mute(Main) /\ OwnStep(Main) /\ Keeping
      BY <1>1, <1>3, <2>2, SetupMute, UnchangedKeeps
    <3> QED
      BY <1>1, <2>1, <3>1, KeepingStep
  <2>3. CASE AddCallback(Head(files)) /\ Push(Main, Setup(Info))
    <3>1. \A o \in Threads : ~ Hums(stack'[o])
      <4>1. \A o \in Threads : ~ Hums(stack[o])
        BY <2>1 DEF ToldInv, SilentInv
      <4>2. OwnStep(Main) /\ (~ Hums(stack[Main]) => ~ Hums(stack'[Main]))
        BY <1>3, <2>3, SetupMute
      <4> QED
        BY <1>1, <4>1, <4>2 DEF OwnStep
    <3>2. ASSUME NEW k \in DOMAIN sinks'
          PROVE  \/ k \in DOMAIN sinks /\ sinks'[k].lines = sinks[k].lines /\ sinks'[k].flushed = sinks[k].flushed
                 \/ sinks'[k].lines = << >>
      <4> DEFINE new == Sink(Head(files))
      <4>1. sinks' = Append(sinks, new) /\ new.lines = << >>
        BY <2>3 DEF AddCallback, Sink
      <4>2. sinks \in Seq(SinkType)
        BY <1>1 DEF SinksType
      <4> HIDE DEF new
      <4>3. (k \in DOMAIN sinks /\ sinks'[k] = sinks[k]) \/ sinks'[k] = new
        BY <4>1, <4>2
      <4> QED
        BY <4>1, <4>3
    <3> QED
      BY <1>1, <2>1, <3>1, <3>2, FreshTold
  <2> QED
    BY <2>1, <2>2, <2>3
<1> QED
  BY <1>4, <1>5, <1>6, <1>7 DEF MainStep

LEMMA ThreadMute ==
  ASSUME TypeInv, StacksInv, ScopesInv, EarlyInv, NEW t \in Threads, ThreadStep(t), ~ Write(t), ~ LogReturns(t)
  PROVE  Mute(t) /\ said' = said
<1>1. CASE InCall(t)
  <2>1. CallDefaultHandler(t) => Mute(t)
    BY MuteStill DEF CallDefaultHandler
  <2>2. Mute(t)
    BY <1>1, <2>1, FormatMute, LockMessageMute, TraceMute, FlushMute, FatalEndsMute, ScopeMute, ScopeReturnMute,
       HandlerMute, HandlerAgainMute DEF InCall
  <2>3. said' = said
    BY <1>1 DEF InCall, Format, LockMessage, Trace, Flush, FatalEnds, OpenBrace, OpenIndent,
       CloseIndent, CloseReturns, HandlerFlushes, HandlerFlushesAgain, CallDefaultHandler, thread
  <2> QED
    BY <2>2, <2>3
<1>2. CASE ~ InCall(t)
  <2>1. said' = said
    BY <1>2 DEF ThreadStep, AbortF, CloseScope, Signal, LogF, OpenScope, thread
  <2>2. Mute(t)
    BY <1>2, CallsMute DEF ThreadStep
  <2> QED
    BY <2>1, <2>2
<1> QED
  BY <1>1, <1>2

LEMMA ThreadTold ==
  ASSUME TypeInv, TypeInv', StacksInv, ScopesInv, EarlyInv, ToldInv, NEW t \in Threads, ThreadStep(t)
  PROVE  ToldInv'
<1>1. OwnStep(t) /\ stage' = stage /\ (Keeping \/ Write(t))
  BY ThreadStepFacts DEF OwnStep
<1>2. CASE ~ Write(t) /\ ~ LogReturns(t)
  BY <1>1, <1>2, ThreadMute, KeepingStep
<1> QED
  BY <1>1, <1>2, WriteTold, LogReturnsTold

LEMMA StepTold ==
  ASSUME TypeInv, TypeInv', StacksInv, ScopesInv, PoolInv, EarlyInv, ToldInv, [Next]_vars
  PROVE  ToldInv'
<1>1. CASE UNCHANGED vars
  <2>1. Main \in Threads /\ SinksType
    BY DEF Threads, TypeInv
  <2>2. UNCHANGED output /\ scopes' = scopes /\ stack' = stack /\ stage' = stage /\ said' = said
    BY <1>1 DEF vars, thread
  <2>3. Mute(Main) /\ OwnStep(Main) /\ Keeping
    BY <2>1, <2>2, MuteStill, UnchangedKeeps DEF OwnStep
  <2> QED
    BY <2>1, <2>2, <2>3, KeepingStep
<1> QED
  BY <1>1, TwoKinds, ThreadTold, MainTold

LEMMA InitTold == Init => ToldInv
<1> SUFFICES ASSUME Init
             PROVE  ToldInv
  OBVIOUS
<1>1. \A o \in Threads : stack[o] = << >> /\ said[o] = << >>
  BY DEF Init
<1>2. said \in [Threads -> Seq(MessageType)] /\ SilentInv
  BY <1>1, EmptyIsSilent DEF Init, SilentInv
<1>3. DOMAIN sinks = {1} /\ sinks[1].lines = << >>
  BY DEF Init, Sink
<1>4. ASSUME NEW o \in Threads
      PROVE  ToldTo(1, o)
  <2> DEFINE v == sinks[1].verbosity
             b == Busy(stack[o], 1, v)
  <2>1. Voice(stack[o], 1, v) = {}
    BY <1>1, EmptyIsSilent, SilentVoice
  <2>2. Told(<< >>, sinks[1].flushed, << >>, o, v, {}, b)
    BY EmptySinkTold
  <2> QED
    BY <1>1, <1>3, <2>1, <2>2 DEF ToldTo
<1> QED
  BY <1>2, <1>3, <1>4 DEF ToldInv, SaidType

LEMMA ToldIsKept == TypeInv /\ ToldInv => NothingLost
<1> SUFFICES ASSUME TypeInv, ToldInv, NEW k \in DOMAIN sinks, NEW t \in Threads
             PROVE  Kept(DurableOf(sinks[k], t), AcceptedOf(sinks[k], t), sinks[k].lines, t, said[t])
  BY DEF NothingLost, Range, Kept
<1> DEFINE ls == sinks[k].lines
           n == sinks[k].flushed
           v == sinks[k].verbosity
           M == Voice(stack[t], k, v)
           b == Busy(stack[t], k, v)
<1>1. /\ ls \in Seq(LineType) /\ n \in Nat /\ n <= Len(ls) /\ Len(ls) \in Nat /\ said[t] \in Seq(MessageType)
      /\ Told(ls, n, said[t], t, v, M, b)
  BY ToldAt, SinkAt DEF ToldTo, TypeInv
<1>2. AcceptedOf(sinks[k], t) = Upto(said[t], v)
  BY DEF AcceptedOf, Upto, Accepts
<1>3. DurableOf(sinks[k], t) = {j \in LinesBy(ls, t) : j <= n}
  BY <1>1 DEF DurableOf, LinesBy
<1> HIDE DEF ls, n, v, M, b
<1>4. Kept({j \in LinesBy(ls, t) : j <= n}, Upto(said[t], v), ls, t, said[t])
  BY <1>1, ToldIsDurable
<1> QED
  BY <1>2, <1>3, <1>4 DEF ls

(* A message whose call has returned is in every sink that accepts it,     *)
(* flushed, once and in the order of its thread's calls, whatever the other *)
(* threads, the signals and an abort do meanwhile: Write and Flush follow  *)
(* each other under one hold of the mutex, and a line stays where it is.   *)
THEOREM NothingIsLost == Spec => []NothingLost
<1>1. LogInv /\ NestingInv /\ ToldInv /\ [Next]_vars => ToldInv'
  <2> SUFFICES ASSUME LogInv, NestingInv, ToldInv, [Next]_vars
               PROVE  ToldInv'
    OBVIOUS
  <2>1. LogInv'
    BY StepLog
  <2> QED
    BY <2>1, StepTold DEF LogInv, NestingInv
<1>2. LogInv /\ NestingInv /\ [Next]_vars => NestingInv'
  BY StepNesting DEF LogInv
<1>3. LogInv /\ ToldInv => NothingLost
  BY ToldIsKept DEF LogInv
<1> QED
  BY <1>1, <1>2, <1>3, InitNesting, InitLog, StepLog, InitTold, PTL DEF Spec

-----------------------------------------------------------------------------
(* How many steps a call, and a stack of calls, has left *)

LEMMA StepsAt ==
  ASSUME NEW f, NEW n
  PROVE  /\ f.pc = "format" => StepsLeft(f, n) = LogSteps(f.msg, n) + 1
         /\ f.pc = "lock" => StepsLeft(f, n) = LogSteps(f.msg, n)
         /\ f.pc = "trace" => StepsLeft(f, n) = 2 * SinkSteps(n) + 2
         /\ f.pc = "write" => StepsLeft(f, n) = SinkSteps(n + 1 - f.sink)
         /\ f.pc = "flush" => StepsLeft(f, n) = 2 * (n + 1 - f.sink)
         /\ f.pc = "open" \/ f.pc = "close" => StepsLeft(f, n) = LogSteps(f.msg, n) + 3
         /\ f.pc = "caught" => StepsLeft(f, n) = LogSteps(f.msg, n) + 4
         /\ f.pc = "flush and kill" => StepsLeft(f, n) = 2
         /\ f.pc = "open indent" \/ f.pc = "close end" \/ f.pc = "kill" => StepsLeft(f, n) = 1
BY Zenon DEF StepsLeft

LEMMA LogStepsFacts ==
  ASSUME NEW m, NEW n \in Nat
  PROVE  /\ SinkSteps(n) = 2 * n + 1 /\ LogSteps(m, n) \in Nat /\ LogSteps(m, n) > SinkSteps(n)
         /\ m.verbosity = Fatal => LogSteps(m, n) = 2 * SinkSteps(n) + 3
         /\ m.verbosity # Fatal => LogSteps(m, n) = SinkSteps(n) + 1
BY DEF SinkSteps, LogSteps

(* The sink of a call is one of the n, or it has gone through all.         *)
Fits(f, n) == f.sink <= n + 1 /\ (f.pc = "flush" => f.sink <= n)

LEMMA StepsPositive ==
  ASSUME NEW f \in FrameType, NEW n \in Nat, Fits(f, n)
  PROVE  StepsLeft(f, n) \in Nat /\ StepsLeft(f, n) > 0
<1>1. f.sink \in Nat \ {0} /\ f.pc \in PCs
  BY DEF FrameType
<1>2. SinkSteps(n) = 2 * n + 1 /\ LogSteps(f.msg, n) \in Nat /\ LogSteps(f.msg, n) > SinkSteps(n)
  BY LogStepsFacts
<1>3. CASE f.pc = "write"
  <2>1. StepsLeft(f, n) = 2 * (n + 1 - f.sink) + 1
    BY <1>3, StepsAt DEF SinkSteps
  <2> QED
    BY <1>1, <2>1 DEF Fits
<1>4. CASE f.pc = "flush"
  <2>1. StepsLeft(f, n) = 2 * (n + 1 - f.sink)
    BY <1>4, StepsAt
  <2> QED
    BY <1>1, <1>4, <2>1 DEF Fits
<1>5. CASE f.pc \in {"format", "lock", "open", "close", "caught"}
  <2>1. StepsLeft(f, n) \in {LogSteps(f.msg, n), LogSteps(f.msg, n) + 1, LogSteps(f.msg, n) + 3, LogSteps(f.msg, n) + 4}
    BY <1>5, StepsAt
  <2> QED
    BY <1>2, <2>1
<1>6. CASE f.pc \in {"trace", "flush and kill", "open indent", "close end", "kill"}
  <2>1. StepsLeft(f, n) \in {2 * SinkSteps(n) + 2, 2, 1}
    BY <1>6, StepsAt
  <2> QED
    BY <1>2, <2>1
<1> QED
  BY <1>1, <1>3, <1>4, <1>5, <1>6 DEF PCs, Holding

Fitting(s, n) == \A j \in 1 .. Len(s) : Fits(s[j], n)

TotalSteps(s, n) == SumFunction([j \in DOMAIN s |-> StepsLeft(s[j], n)])

LEMMA TotalNat ==
  ASSUME NEW s \in Seq(FrameType), NEW n \in Nat, Fitting(s, n)
  PROVE  TotalSteps(s, n) \in Nat
<1>1. DOMAIN s = 1 .. Len(s) /\ Len(s) \in Nat /\ \A j \in 1 .. Len(s) : s[j] \in FrameType
  OBVIOUS
<1>2. IsFiniteSet(DOMAIN s)
  BY <1>1, FS_Interval
<1> DEFINE w == [j \in DOMAIN s |-> StepsLeft(s[j], n)]
<1>3. w \in [DOMAIN s -> Nat]
  BY <1>1, StepsPositive DEF Fitting
<1> HIDE DEF w
<1>4. SumFunction(w) \in Nat
  BY <1>2, <1>3, SumNat
<1> QED
  BY <1>4 DEF TotalSteps, w

LEMMA TotalPush ==
  ASSUME NEW s \in Seq(FrameType), NEW f \in FrameType, NEW n \in Nat, Fitting(s, n), Fits(f, n)
  PROVE  /\ Fitting(<<f>> \o s, n)
         /\ TotalSteps(<<f>> \o s, n) = StepsLeft(f, n) + TotalSteps(s, n)
<1> DEFINE u == <<f>> \o s
           m == Len(s)
           v == [j \in DOMAIN u |-> StepsLeft(u[j], n)]
           w == [j \in DOMAIN s |-> StepsLeft(s[j], n)]
           D == 1 .. m + 1
           B == 1 .. m
           A == 2 .. m + 1
           r == [j \in A |-> v[j]]
           h == [j \in A |-> j - 1]
<1>1. /\ u \in Seq(FrameType) /\ Len(u) = m + 1 /\ m \in Nat /\ u[1] = f
      /\ \A j \in 2 .. m + 1 : u[j] = s[j - 1]
  BY PushFacts
<1>2. \A j \in 1 .. m : s[j] \in FrameType /\ Fits(s[j], n)
  BY DEF Fitting
<1>3. \A j \in 1 .. m + 1 : u[j] \in FrameType /\ Fits(u[j], n)
  <2> SUFFICES ASSUME NEW j \in 1 .. m + 1
               PROVE  u[j] \in FrameType /\ Fits(u[j], n)
    OBVIOUS
  <2>1. CASE j = 1
    BY <1>1, <2>1
  <2>2. CASE j # 1
    <3>1. j \in 2 .. m + 1 /\ j - 1 \in 1 .. m
      BY <1>1, <2>2
    <3> HIDE DEF u
    <3> QED
      BY <1>1, <1>2, <3>1
  <2> QED
    BY <2>1, <2>2
<1>4. Fitting(u, n)
  BY <1>1, <1>3 DEF Fitting
<1>5. DOMAIN u = D /\ DOMAIN s = B
  BY <1>1
<1> HIDE DEF u, m
<1>6. v \in [D -> Int] /\ w \in [B -> Int]
  <2>1. \A j \in D : StepsLeft(u[j], n) \in Int
    BY <1>3, StepsPositive
  <2>2. \A j \in B : StepsLeft(s[j], n) \in Int
    BY <1>2, StepsPositive
  <2> QED
    BY <1>5, <2>1, <2>2
<1>7. IsFiniteSet(D) /\ IsFiniteSet(A) /\ IsFiniteSet(B) /\ 1 \in D /\ A = D \ {1}
  <2>1. m + 1 \in Int /\ m \in Int /\ 1 \in D /\ A = D \ {1}
    BY <1>1
  <2>2. IsFiniteSet(D) /\ IsFiniteSet(A) /\ IsFiniteSet(B)
    BY <2>1, FS_Interval
  <2> QED
    BY <2>1, <2>2
<1>8. SumFunction(v) = v[1] + SumFunction([j \in D \ {1} |-> v[j]])
  <2>1. v \in [D -> Int] /\ IsFiniteSet(D) /\ 1 \in D
    BY <1>6, <1>7
  <2> HIDE DEF v, D
  <2> QED
    BY <2>1, SumRemove
<1>9. v[1] = StepsLeft(f, n)
  BY <1>1, <1>5, <1>7
<1>10. SumFunction(r) = SumFunction(w)
  <2>1. r \in [A -> Int] /\ h \in [A -> B]
    BY <1>1, <1>6
  <2>2. \A x, y \in A : h[x] = h[y] => x = y
    BY <1>1
  <2>3. \A x \in A : r[x] = w[h[x]]
    BY <1>1, <1>5, <2>1
  <2>4. \A y \in B : ~ \A x \in A : h[x] # y
    <3> SUFFICES ASSUME NEW y \in B
                 PROVE  \E x \in A : h[x] = y
      OBVIOUS
    <3>1. y + 1 \in A /\ h[y + 1] = y
      BY <1>1
    <3> QED
      BY <3>1
  <2>5. IsFiniteSet(A) /\ IsFiniteSet(B) /\ w \in [B -> Int]
    BY <1>6, <1>7
  <2>6. \A y \in B : (\A x \in A : h[x] # y) => w[y] = 0
    BY <2>4
  <2> HIDE DEF r, h, w, A, B
  <2>7. Renames(h, A, r, B, w)
    BY <2>1, <2>2, <2>3, <2>5, <2>6 DEF Renames
  <2> QED
    BY <2>5, <2>7, SumRenamed
<1>11. SumFunction(v) = StepsLeft(f, n) + SumFunction(w)
  BY <1>7, <1>8, <1>9, <1>10, Zenon
<1> QED
  BY <1>4, <1>11 DEF TotalSteps, u

(* A stack is its top and the rest. *)
LEMMA TotalTop ==
  ASSUME NEW s \in Seq(FrameType), s # << >>, NEW n \in Nat, Fitting(s, n)
  PROVE  /\ Fits(Head(s), n) /\ Fitting(Tail(s), n) /\ Tail(s) \in Seq(FrameType) /\ Head(s) \in FrameType
         /\ TotalSteps(s, n) = StepsLeft(Head(s), n) + TotalSteps(Tail(s), n)
<1>1. s = <<Head(s)>> \o Tail(s) /\ Head(s) = s[1] /\ 1 \in 1 .. Len(s) /\ Head(s) \in FrameType
  OBVIOUS
<1>2. /\ Tail(s) \in Seq(FrameType) /\ Len(Tail(s)) = Len(s) - 1 /\ Len(s) \in Nat
      /\ \A j \in 1 .. Len(s) - 1 : Tail(s)[j] = s[j + 1] /\ j + 1 \in 1 .. Len(s)
  BY TailFacts
<1>3. Fits(Head(s), n) /\ Fitting(Tail(s), n)
  <2> DEFINE r == Tail(s)
  <2> HIDE DEF r
  <2>1. Len(r) = Len(s) - 1 /\ \A j \in 1 .. Len(s) - 1 : r[j] = s[j + 1] /\ j + 1 \in 1 .. Len(s)
    BY <1>2 DEF r
  <2>2. Fitting(r, n)
    BY <2>1 DEF Fitting
  <2> QED
    BY <1>1, <2>2 DEF Fitting, r
<1>4. TotalSteps(<<Head(s)>> \o Tail(s), n) = StepsLeft(Head(s), n) + TotalSteps(Tail(s), n)
  BY <1>1, <1>2, <1>3, TotalPush
<1> QED
  BY <1>1, <1>2, <1>3, <1>4, Zenon

-----------------------------------------------------------------------------
(* Each step of a call *)

(* Thread t, whose stack fits n sinks, has fewer steps left afterwards. *)
Shrinks(t, n) == Fitting(stack'[t], n) /\ TotalSteps(stack'[t], n) < TotalSteps(stack[t], n)

LEMMA TurnShrinks ==
  ASSUME StackType, NEW t \in Threads, stack[t] # << >>, NEW n \in Nat, Fitting(stack[t], n),
         NEW g \in FrameType, Turns(t, g), Fits(g, n), StepsLeft(g, n) < StepsLeft(Top(t), n)
  PROVE  Shrinks(t, n)
<1> DEFINE r == Tail(stack[t])
<1>1. /\ stack[t] \in Seq(FrameType) /\ stack'[t] = [stack[t] EXCEPT ![1] = g]
      /\ Top(t) = Head(stack[t])
  BY DEF StackType, Turns, Top
<1>2. /\ Fits(Top(t), n) /\ Fitting(r, n) /\ r \in Seq(FrameType) /\ Top(t) \in FrameType
      /\ TotalSteps(stack[t], n) = StepsLeft(Top(t), n) + TotalSteps(r, n)
  BY <1>1, TotalTop
<1>3. stack'[t] = <<g>> \o r
  BY <1>1
<1> HIDE DEF r
<1>4. Fitting(<<g>> \o r, n) /\ TotalSteps(<<g>> \o r, n) = StepsLeft(g, n) + TotalSteps(r, n)
  BY <1>2, TotalPush
<1>5. TotalSteps(r, n) \in Nat /\ StepsLeft(g, n) \in Nat /\ StepsLeft(Top(t), n) \in Nat
  BY <1>2, TotalNat, StepsPositive
<1>6. StepsLeft(g, n) + TotalSteps(r, n) < StepsLeft(Top(t), n) + TotalSteps(r, n)
  BY <1>5
<1> QED
  BY <1>2, <1>3, <1>4, <1>6, Zenon DEF Shrinks

LEMMA InvokeShrinks ==
  ASSUME StackType, NEW t \in Threads, stack[t] # << >>, NEW n \in Nat, Fitting(stack[t], n),
         NEW f \in FrameType, NEW g \in FrameType, Invokes(t, f, g), Fits(f, n), Fits(g, n),
         StepsLeft(f, n) + StepsLeft(g, n) < StepsLeft(Top(t), n)
  PROVE  Shrinks(t, n)
<1> DEFINE r == Tail(stack[t])
           u == <<g>> \o r
<1>1. /\ stack[t] \in Seq(FrameType) /\ stack'[t] = <<f, g>> \o r
      /\ Top(t) = Head(stack[t])
  BY DEF StackType, Invokes, Top
<1>2. /\ Fits(Top(t), n) /\ Fitting(r, n) /\ r \in Seq(FrameType) /\ Top(t) \in FrameType
      /\ TotalSteps(stack[t], n) = StepsLeft(Top(t), n) + TotalSteps(r, n)
  BY <1>1, TotalTop
<1> HIDE DEF r
<1>3. stack'[t] = <<f>> \o u
  BY <1>1, <1>2, TwoAreOneByOne
<1>4. u \in Seq(FrameType) /\ Fitting(u, n) /\ TotalSteps(u, n) = StepsLeft(g, n) + TotalSteps(r, n)
  BY <1>2, TotalPush
<1> HIDE DEF u
<1>5. Fitting(<<f>> \o u, n) /\ TotalSteps(<<f>> \o u, n) = StepsLeft(f, n) + TotalSteps(u, n)
  BY <1>4, TotalPush
<1>6. /\ TotalSteps(r, n) \in Nat /\ StepsLeft(f, n) \in Nat /\ StepsLeft(g, n) \in Nat
      /\ StepsLeft(Top(t), n) \in Nat
  BY <1>2, TotalNat, StepsPositive
<1>7. StepsLeft(f, n) + (StepsLeft(g, n) + TotalSteps(r, n)) < StepsLeft(Top(t), n) + TotalSteps(r, n)
  BY <1>6
<1> QED
  BY <1>2, <1>3, <1>4, <1>5, <1>7, Zenon DEF Shrinks

LEMMA ReturnShrinks ==
  ASSUME StackType, NEW t \in Threads, stack[t] # << >>, NEW n \in Nat, Fitting(stack[t], n), Return(t)
  PROVE  Shrinks(t, n)
<1> DEFINE r == Tail(stack[t])
<1>1. stack[t] \in Seq(FrameType) /\ stack'[t] = r
  BY DEF StackType, Return
<1>2. /\ Fits(Head(stack[t]), n) /\ Fitting(r, n) /\ r \in Seq(FrameType) /\ Head(stack[t]) \in FrameType
      /\ TotalSteps(stack[t], n) = StepsLeft(Head(stack[t]), n) + TotalSteps(r, n)
  BY <1>1, TotalTop
<1> HIDE DEF r
<1>3. TotalSteps(r, n) \in Nat /\ StepsLeft(Head(stack[t]), n) \in Nat /\ StepsLeft(Head(stack[t]), n) > 0
  BY <1>2, TotalNat, StepsPositive
<1>4. TotalSteps(r, n) < TotalSteps(stack[t], n)
  BY <1>2, <1>3
<1> QED
  BY <1>1, <1>2, <1>4, Zenon DEF Shrinks

LEMMA GoingOn ==
  ASSUME NEW f \in FrameType, NEW p \in PCs
  PROVE  /\ [f EXCEPT !.pc = p] \in FrameType
         /\ [f EXCEPT !.pc = p].pc = p /\ [f EXCEPT !.pc = p].msg = f.msg /\ [f EXCEPT !.pc = p].sink = f.sink
BY DEF FrameType

LEMMA GotoShrinks ==
  ASSUME StackType, NEW t \in Threads, stack[t] # << >>, NEW n \in Nat, Fitting(stack[t], n),
         NEW p \in PCs \ {"flush"}, Goto(t, p), StepsLeft([Top(t) EXCEPT !.pc = p], n) < StepsLeft(Top(t), n)
  PROVE  Shrinks(t, n)
<1>1. Top(t) \in FrameType /\ stack[t] \in Seq(FrameType) /\ Top(t) = Head(stack[t])
  BY TopIsFrame DEF Top
<1>2. Fits(Top(t), n)
  BY <1>1, TotalTop
<1>3. [Top(t) EXCEPT !.pc = p] \in FrameType /\ Turns(t, [Top(t) EXCEPT !.pc = p])
  BY GotoTurns
<1>4. Fits([Top(t) EXCEPT !.pc = p], n)
  BY <1>1, <1>2, GoingOn DEF Fits
<1> QED
  BY <1>3, <1>4, TurnShrinks

(* What the invariants say of the top of t's stack. *)
LEMMA TopFits ==
  ASSUME TypeInv, StacksInv, NEW t \in Threads, stack[t] # << >>, NEW n \in Nat, Fitting(stack[t], n)
  PROVE  /\ StackType /\ Top(t) \in FrameType /\ FrameOK(t, Top(t)) /\ Fits(Top(t), n)
         /\ SinkSteps(n) = 2 * n + 1 /\ LogSteps(Top(t).msg, n) \in Nat
<1>1. StackType /\ stack[t] \in Seq(FrameType) /\ Top(t) \in FrameType /\ Top(t) = stack[t][1] /\ Top(t) = Head(stack[t])
  BY TopIsFrame DEF TypeInv, Top
<1>2. 1 \in 1 .. Len(stack[t])
  BY <1>1
<1>3. FrameOK(t, Top(t))
  BY <1>1, <1>2 DEF StacksInv, StackOK
<1>4. Fits(Top(t), n)
  BY <1>1, TotalTop
<1> QED
  BY <1>1, <1>3, <1>4, LogStepsFacts

LEMMA FormatShrinks ==
  ASSUME TypeInv, StacksInv, NEW t \in Threads, Format(t), NEW n \in Nat, Fitting(stack[t], n)
  PROVE  Shrinks(t, n)
<1>1. stack[t] # << >> /\ Top(t).pc = "format" /\ Goto(t, "lock") /\ "lock" \in PCs \ {"flush"}
  BY AtTop DEF Format, PCs
<1>2. StackType /\ Top(t) \in FrameType /\ LogSteps(Top(t).msg, n) \in Nat
  BY <1>1, TopFits
<1> DEFINE g == [Top(t) EXCEPT !.pc = "lock"]
<1>3. g.pc = "lock" /\ g.msg = Top(t).msg
  BY <1>1, <1>2, GoingOn
<1> HIDE DEF g
<1>4. StepsLeft(g, n) = LogSteps(Top(t).msg, n) /\ StepsLeft(Top(t), n) = LogSteps(Top(t).msg, n) + 1
  BY <1>1, <1>3, StepsAt
<1>5. StepsLeft(g, n) < StepsLeft(Top(t), n)
  BY <1>2, <1>4
<1> QED
  BY <1>1, <1>2, <1>5, GotoShrinks DEF g

LEMMA LockMessageShrinks ==
  ASSUME TypeInv, StacksInv, NEW t \in Threads, LockMessage(t), NEW n \in Nat, Fitting(stack[t], n)
  PROVE  Shrinks(t, n)
<1> DEFINE p == IF Top(t).msg.verbosity = Fatal THEN "trace" ELSE "write"
           g == [Top(t) EXCEPT !.pc = p]
<1>1. stack[t] # << >> /\ Top(t).pc = "lock" /\ Goto(t, p) /\ p \in PCs \ {"flush"}
  BY AtTop DEF LockMessage, PCs, Holding
<1>2. StackType /\ Top(t) \in FrameType /\ Top(t).sink = 1 /\ SinkSteps(n) = 2 * n + 1
  BY <1>1, TopFits DEF FrameOK
<1>3. g.pc = p /\ g.sink = 1
  BY <1>1, <1>2, GoingOn
<1>4. StepsLeft(Top(t), n) = LogSteps(Top(t).msg, n)
  BY <1>1, StepsAt
<1> HIDE DEF g
<1>5. StepsLeft(g, n) < StepsLeft(Top(t), n)
  <2>1. CASE Top(t).msg.verbosity = Fatal
    <3>1. StepsLeft(g, n) = 2 * SinkSteps(n) + 2
      BY <1>3, <2>1, StepsAt
    <3>2. LogSteps(Top(t).msg, n) = 2 * SinkSteps(n) + 3
      BY <2>1, LogStepsFacts
    <3> QED
      BY <1>2, <1>4, <3>1, <3>2
  <2>2. CASE Top(t).msg.verbosity # Fatal
    <3>1. StepsLeft(g, n) = SinkSteps(n + 1 - 1)
      BY <1>3, <2>2, StepsAt
    <3>2. n + 1 - 1 = n
      OBVIOUS
    <3>3. StepsLeft(g, n) = SinkSteps(n)
      BY <3>1, <3>2, Zenon
    <3>4. LogSteps(Top(t).msg, n) = SinkSteps(n) + 1
      BY <2>2, LogStepsFacts
    <3> QED
      BY <1>2, <1>4, <3>3, <3>4
  <2> QED
    BY <2>1, <2>2
<1> HIDE DEF p
<1> QED
  BY <1>1, <1>2, <1>5, GotoShrinks DEF g

LEMMA TraceShrinks ==
  ASSUME TypeInv, StacksInv, NEW t \in Threads, Trace(t), NEW n \in Nat, Fitting(stack[t], n)
  PROVE  Shrinks(t, n)
<1> DEFINE g == [Top(t) EXCEPT !.pc = "write"]
           f == RawLog(t)
<1>1. stack[t] # << >> /\ Top(t).pc = "trace" /\ "write" \in PCs \ {"flush"}
  BY AtTop DEF Trace, PCs, Holding
<1>2. StackType /\ Top(t) \in FrameType /\ Top(t).sink = 1 /\ SinkSteps(n) = 2 * n + 1
  BY <1>1, TopFits DEF FrameOK
<1>3. g \in FrameType /\ g.pc = "write" /\ g.sink = 1
  BY <1>1, <1>2, GoingOn
<1>4. f \in FrameType /\ f.pc = "lock" /\ f.sink = 1 /\ f.msg.verbosity # Fatal
  BY RawLogFacts DEF Error, Fatal
<1> HIDE DEF f, g
<1>5. StepsLeft(Top(t), n) = 2 * SinkSteps(n) + 2
  BY <1>1, StepsAt
<1>6. StepsLeft(g, n) = SinkSteps(n)
  <2>1. StepsLeft(g, n) = SinkSteps(n + 1 - 1)
    BY <1>3, StepsAt
  <2>2. n + 1 - 1 = n
    OBVIOUS
  <2> QED
    BY <2>1, <2>2, Zenon
<1>7. StepsLeft(f, n) = SinkSteps(n) + 1
  <2>1. StepsLeft(f, n) = LogSteps(f.msg, n)
    BY <1>4, StepsAt
  <2>2. LogSteps(f.msg, n) = SinkSteps(n) + 1
    BY <1>4, LogStepsFacts
  <2> QED
    BY <2>1, <2>2
<1>8. CASE Goto(t, "write")
  <2>1. StepsLeft(g, n) < StepsLeft(Top(t), n)
    BY <1>2, <1>5, <1>6
  <2> QED
    BY <1>1, <1>2, <1>8, <2>1, GotoShrinks DEF g
<1>9. CASE CallThen(t, f, "write")
  <2>1. Invokes(t, f, g)
    BY <1>1, <1>2, <1>9, CallThenInvokes DEF g
  <2>2. Fits(f, n) /\ Fits(g, n)
    BY <1>3, <1>4 DEF Fits
  <2>3. StepsLeft(f, n) + StepsLeft(g, n) < StepsLeft(Top(t), n)
    BY <1>2, <1>5, <1>6, <1>7
  <2> QED
    BY <1>1, <1>2, <1>3, <1>4, <2>1, <2>2, <2>3, InvokeShrinks
<1> QED
  BY <1>8, <1>9 DEF Trace, f

LEMMA WriteShrinks ==
  ASSUME TypeInv, StacksInv, NEW t \in Threads, Write(t), NEW n \in Nat, Fitting(stack[t], n), n = Len(sinks)
  PROVE  Shrinks(t, n)
<1> DEFINE k == NextSink(Top(t))
           g == [Top(t) EXCEPT !.pc = "flush", !.sink = k]
<1>1. /\ stack[t] # << >> /\ Top(t).pc = "write" /\ Top(t) \in FrameType
      /\ k \in DOMAIN sinks /\ k >= Top(t).sink /\ g \in FrameType /\ Turns(t, g)
  BY WriteForm
<1>2. StackType /\ Top(t).sink \in Nat
  BY <1>1 DEF TypeInv, FrameType
<1>3. k \in 1 .. n
  BY <1>1 DEF TypeInv, SinksType
<1>4. g.pc = "flush" /\ g.sink = k
  BY <1>1 DEF FrameType
<1> HIDE DEF g, k
<1>5. StepsLeft(Top(t), n) = 2 * (n + 1 - Top(t).sink) + 1 /\ StepsLeft(g, n) = 2 * (n + 1 - k)
  BY <1>1, <1>4, StepsAt DEF SinkSteps
<1>6. StepsLeft(g, n) < StepsLeft(Top(t), n)
  BY <1>1, <1>2, <1>3, <1>5
<1>7. Fits(g, n)
  BY <1>3, <1>4 DEF Fits
<1> QED
  BY <1>1, <1>2, <1>6, <1>7, TurnShrinks

LEMMA FlushShrinks ==
  ASSUME TypeInv, StacksInv, NEW t \in Threads, Flush(t), NEW n \in Nat, Fitting(stack[t], n)
  PROVE  Shrinks(t, n)
<1> DEFINE k == Top(t).sink
           g == [Top(t) EXCEPT !.pc = "write", !.sink = k + 1]
<1>1. /\ stack[t] # << >> /\ Top(t).pc = "flush" /\ Top(t) \in FrameType
      /\ g \in FrameType /\ Turns(t, g)
  BY FlushForm
<1>2. StackType /\ k \in Nat /\ k <= n
  BY <1>1, TopFits DEF FrameType, Fits
<1>3. g.pc = "write" /\ g.sink = k + 1
  BY <1>1 DEF FrameType
<1> HIDE DEF g
<1>4. StepsLeft(Top(t), n) = 2 * (n + 1 - k)
  BY <1>1, StepsAt
<1>7. StepsLeft(g, n) = 2 * (n + 1 - (k + 1)) + 1
  <2>1. StepsLeft(g, n) = SinkSteps(n + 1 - g.sink)
    BY <1>3, StepsAt
  <2> HIDE DEF k
  <2> QED
    BY <1>3, <2>1, Zenon DEF SinkSteps
<1> HIDE DEF k
<1>5. StepsLeft(g, n) < StepsLeft(Top(t), n)
  BY <1>2, <1>4, <1>7
<1>6. Fits(g, n)
  BY <1>2, <1>3 DEF Fits
<1> QED
  BY <1>1, <1>2, <1>5, <1>6, TurnShrinks

LEMMA NewFits ==
  ASSUME NEW f, NEW n \in Nat, f.pc = "format", f.sink = 1
  PROVE  Fits(f, n)
BY DEF Fits

LEMMA BraceSteps ==
  ASSUME NEW f, NEW g, NEW m, NEW n \in Nat, f.pc = "format", f.sink = 1, f.msg = m, StepsLeft(g, n) = 1
  PROVE  Fits(f, n) /\ StepsLeft(f, n) + StepsLeft(g, n) < LogSteps(m, n) + 3
<1>1. Fits(f, n)
  BY DEF Fits
<1>2. StepsLeft(f, n) = LogSteps(m, n) + 1
  BY StepsAt
<1>3. LogSteps(m, n) \in Nat
  BY LogStepsFacts
<1> QED
  BY <1>1, <1>2, <1>3

LEMMA BraceShrinks ==
  ASSUME TypeInv, StacksInv, NEW t \in Threads, NEW p \in {"open", "close"}, NEW q \in {"open indent", "close end"},
         At(t, p), CallThen(t, Frame("format", Top(t).msg), q), NEW n \in Nat, Fitting(stack[t], n)
  PROVE  Shrinks(t, n)
<1> DEFINE f == Frame("format", Top(t).msg)
           g == [Top(t) EXCEPT !.pc = q]
<1>1. /\ stack[t] # << >> /\ Top(t).pc = p /\ f \in FrameType /\ f.pc = "format" /\ f.sink = 1 /\ f.msg = Top(t).msg
      /\ g \in FrameType /\ g.pc = q /\ Invokes(t, f, g)
  BY ScopeForm
<1>2. StackType /\ Top(t) \in FrameType /\ Fits(Top(t), n)
  BY <1>1, TopFits
<1>3. g.sink = Top(t).sink
  BY <1>1, <1>2 DEF FrameType
<1> HIDE DEF f, g
<1>4. StepsLeft(Top(t), n) = LogSteps(Top(t).msg, n) + 3 /\ StepsLeft(g, n) = 1 /\ g.pc # "flush"
  BY <1>1, StepsAt, Zenon
<1>5. Fits(f, n) /\ StepsLeft(f, n) + StepsLeft(g, n) < StepsLeft(Top(t), n)
  BY <1>1, <1>4, BraceSteps, Zenon
<1>6. Fits(g, n)
  BY <1>2, <1>3, <1>4, Zenon DEF Fits
<1> QED
  BY <1>1, <1>2, <1>5, <1>6, InvokeShrinks, Zenon

LEMMA HandlerFlushesShrinks ==
  ASSUME TypeInv, StacksInv, NEW t \in Threads, HandlerFlushes(t), NEW n \in Nat, Fitting(stack[t], n)
  PROVE  Shrinks(t, n)
<1> DEFINE f == Frame("format", Top(t).msg)
           g == [Top(t) EXCEPT !.pc = "flush and kill"]
<1>1. /\ stack[t] # << >> /\ Top(t).pc = "caught" /\ f \in FrameType /\ f.pc = "format"
      /\ g \in FrameType /\ g.pc = "flush and kill" /\ Invokes(t, f, g)
  BY HandlerForm
<1>2. StackType /\ Top(t) \in FrameType /\ Fits(Top(t), n) /\ LogSteps(Top(t).msg, n) \in Nat
  BY <1>1, TopFits
<1>3. f.msg = Top(t).msg /\ f.sink = 1
  BY HandlerForm
<1>7. g.sink = Top(t).sink
  BY <1>1, <1>2 DEF FrameType
<1> HIDE DEF f, g
<1>4. /\ StepsLeft(Top(t), n) = LogSteps(Top(t).msg, n) + 4
      /\ StepsLeft(f, n) = LogSteps(Top(t).msg, n) + 1 /\ StepsLeft(g, n) = 2
  BY <1>1, <1>3, StepsAt
<1>5. StepsLeft(f, n) + StepsLeft(g, n) < StepsLeft(Top(t), n)
  BY <1>2, <1>4
<1>6. Fits(f, n)
  BY <1>1, <1>3, NewFits, Zenon
<1>8. Fits(g, n)
  BY <1>1, <1>2, <1>7, Zenon DEF Fits
<1> QED
  BY <1>1, <1>2, <1>5, <1>6, <1>8, InvokeShrinks

LEMMA HandlerFlushesAgainShrinks ==
  ASSUME TypeInv, StacksInv, NEW t \in Threads, HandlerFlushesAgain(t), NEW n \in Nat, Fitting(stack[t], n)
  PROVE  Shrinks(t, n)
<1>1. stack[t] # << >> /\ Top(t).pc = "flush and kill" /\ Goto(t, "kill") /\ "kill" \in PCs \ {"flush"}
  BY AtTop DEF HandlerFlushesAgain, PCs
<1>2. StackType /\ Top(t) \in FrameType
  BY <1>1, TopFits
<1> DEFINE g == [Top(t) EXCEPT !.pc = "kill"]
<1>3. g.pc = "kill"
  BY <1>1, <1>2, GoingOn
<1> HIDE DEF g
<1>4. StepsLeft(g, n) = 1 /\ StepsLeft(Top(t), n) = 2
  BY <1>1, <1>3, StepsAt
<1>5. StepsLeft(g, n) < StepsLeft(Top(t), n)
  BY <1>4
<1> QED
  BY <1>1, <1>2, <1>5, GotoShrinks DEF g

(* A step of a call brings its thread nearer to the end of its calls, or   *)
(* is the end of the program.                                              *)
LEMMA InCallShrinks ==
  ASSUME TypeInv, StacksInv, NEW t \in Threads, InCall(t), NEW n \in Nat, Fitting(stack[t], n), n = Len(sinks)
  PROVE  Shrinks(t, n) \/ stack' = stack
<1>1. CASE LogReturns(t) \/ OpenIndent(t) \/ CloseReturns(t) \/ FatalEnds(t)
  <2>1. stack[t] # << >> /\ StackType
    BY <1>1 DEF LogReturns, OpenIndent, CloseReturns, FatalEnds, Written, At, TypeInv
  <2>2. Return(t) \/ stack' = stack
    BY <1>1 DEF LogReturns, OpenIndent, CloseReturns, FatalEnds
  <2> QED
    BY <2>1, <2>2, ReturnShrinks
<1>2. CASE OpenBrace(t)
  BY <1>2, BraceShrinks DEF OpenBrace
<1>3. CASE CloseIndent(t)
  BY <1>3, BraceShrinks DEF CloseIndent
<1>4. CASE CallDefaultHandler(t)
  BY <1>4 DEF CallDefaultHandler
<1> QED
  BY <1>1, <1>2, <1>3, <1>4, FormatShrinks, LockMessageShrinks, TraceShrinks, WriteShrinks, FlushShrinks,
     HandlerFlushesShrinks, HandlerFlushesAgainShrinks DEF InCall

(* Every call fits the sinks there are. *)
StepsInv == signals \in Nat /\ \A t \in Threads : Fitting(stack[t], Len(sinks))

(* No thread's step adds to its calls, but for a signal. *)
Shorter ==
  \A t \in Threads :
    stack[t] # << >> /\ stack'[t] # stack[t] => signals' > signals \/ ThreadSteps(t)' < ThreadSteps(t)

LEMMA NoneFits == ASSUME NEW n PROVE Fitting(<< >>, n)
BY DEF Fitting

(* A new call of thread t. *)
NewCall(t) == \E f : Push(t, f) /\ f.sink = 1 /\ f.pc # "flush"

LEMMA NewCallFits ==
  ASSUME StackType, NEW t \in Threads, NewCall(t), NEW n \in Nat, Fitting(stack[t], n)
  PROVE  Fitting(stack'[t], n) /\ \A o \in Threads \ {t} : stack'[o] = stack[o]
<1>1. PICK f : Push(t, f) /\ f.sink = 1 /\ f.pc # "flush"
  BY DEF NewCall
<1> DEFINE s == stack[t]
           u == <<f>> \o s
           F == FrameType \cup {f}
<1>2. stack'[t] = u /\ \A o \in Threads \ {t} : stack'[o] = stack[o]
  BY <1>1 DEF StackType, Push
<1>3. s \in Seq(F) /\ f \in F
  BY DEF StackType
<1> HIDE DEF F, s
<1>4. Len(u) = Len(s) + 1 /\ Len(s) \in Nat /\ u[1] = f /\ \A j \in 2 .. Len(s) + 1 : u[j] = s[j - 1]
  BY <1>3, PushFacts
<1> HIDE DEF u
<1>5. Fits(f, n)
  BY <1>1 DEF Fits
<1>6. \A j \in 1 .. Len(s) : Fits(s[j], n)
  BY DEF Fitting, s
<1>7. ASSUME NEW j \in 1 .. Len(u)
      PROVE  Fits(u[j], n)
  <2>1. CASE j = 1
    BY <1>4, <1>5, <2>1
  <2>2. CASE j # 1
    <3>1. j \in 2 .. Len(s) + 1 /\ j - 1 \in 1 .. Len(s)
      BY <1>4, <2>2
    <3> QED
      BY <1>4, <1>6, <3>1
  <2> QED
    BY <2>1, <2>2
<1> QED
  BY <1>2, <1>7 DEF Fitting

LEMMA FramesAreNew ==
  ASSUME NEW p, NEW m, p # "flush"
  PROVE  /\ Frame(p, m).sink = 1 /\ Frame(p, m).pc # "flush"
         /\ \A b : [Frame(p, m) EXCEPT !.in_libc = b].sink = 1 /\ [Frame(p, m) EXCEPT !.in_libc = b].pc # "flush"
BY DEF Frame

(* The calls that threads make are new ones, and made by idle threads or   *)
(* signals.                                                                *)
LEMMA CallsAreNew ==
  ASSUME NEW t \in Threads, ThreadStep(t), ~ InCall(t)
  PROVE  /\ NewCall(t) \/ stack' = stack
         /\ (stack[t] = << >> /\ signals' = signals) \/ signals' = signals + 1
<1>1. CASE AbortF(t)
  BY <1>1, FramesAreNew DEF AbortF, LogAndAbort, NewCall, Calls, Idle
<1>2. CASE CloseScope(t)
  BY <1>2, FramesAreNew DEF CloseScope, NewCall, Idle
<1>3. ASSUME NEW v, LogF(t, v)
      PROVE  (NewCall(t) \/ stack' = stack) /\ stack[t] = << >> /\ signals' = signals
  BY <1>3, FramesAreNew DEF LogF, NewCall, Calls, Idle
<1>4. ASSUME NEW v, OpenScope(t, v)
      PROVE  (NewCall(t) \/ stack' = stack) /\ stack[t] = << >> /\ signals' = signals
  BY <1>4, FramesAreNew DEF OpenScope, NewCall, Calls, Idle
<1>5. CASE Signal(t)
  <2>1. PICK b \in LibcStates : Push(t, [Frame("caught", Message(t, "signal", Fatal)) EXCEPT !.in_libc = b])
    BY <1>5, SignalPushes
  <2> DEFINE f == [Frame("caught", Message(t, "signal", Fatal)) EXCEPT !.in_libc = b]
  <2>3. f.sink = 1 /\ f.pc # "flush"
    <3>1. "caught" # "flush"
      OBVIOUS
    <3> QED
      BY <3>1, FramesAreNew
  <2>4. Push(t, f)
    BY <2>1
  <2> HIDE DEF f
  <2>2. NewCall(t)
    BY <2>3, <2>4 DEF NewCall
  <2> QED
    BY <1>5, <2>2 DEF Signal
<1> QED
  BY <1>1, <1>2, <1>3, <1>4, <1>5 DEF ThreadStep

LEMMA SignalsKept ==
  ASSUME NEW t, InCall(t)
  PROVE  signals' = signals
BY DEF InCall, Format, LockMessage, Trace, Write, Flush, LogReturns, FatalEnds, OpenBrace, OpenIndent,
       CloseIndent, CloseReturns, HandlerFlushes, HandlerFlushesAgain, CallDefaultHandler

LEMMA ThreadStepFits ==
  ASSUME TypeInv, TypeInv', StacksInv, StepsInv, NEW t \in Threads, ThreadStep(t)
  PROVE  StepsInv' /\ Shorter
<1> DEFINE n == Len(sinks)
<1>1. sinks \in Seq(SinkType) /\ sinks' \in Seq(SinkType) /\ n \in Nat /\ StackType /\ SinksType
  BY DEF TypeInv, SinksType
<1>2. \A o \in Threads \ {t} : stack'[o] = stack[o]
  BY ThreadStepFacts
<1>3. Len(sinks') = n
  <2>1. DOMAIN sinks' = DOMAIN sinks
    BY ThreadStepFacts DEF Keeping, Write
  <2> QED
    BY <1>1, <2>1
<1> HIDE DEF n
<1>4. \A o \in Threads : Fitting(stack[o], n)
  BY DEF StepsInv, n
<1>5. signals \in Nat
  BY DEF StepsInv
<1>6. CASE InCall(t)
  <2>1. Shrinks(t, n) \/ stack' = stack
    BY <1>1, <1>4, <1>6, InCallShrinks DEF n
  <2>2. Fitting(stack'[t], n) /\ (stack'[t] # stack[t] => TotalSteps(stack'[t], n) < TotalSteps(stack[t], n))
    BY <1>4, <2>1 DEF Shrinks
  <2>3. signals' = signals
    BY <1>6, SignalsKept
  <2>4. StepsInv'
    BY <1>2, <1>3, <1>4, <1>5, <2>2, <2>3 DEF StepsInv
  <2>5. \A o \in Threads : stack'[o] # stack[o] => ThreadSteps(o)' < ThreadSteps(o)
    BY <1>2, <1>3, <2>2 DEF ThreadSteps, TotalSteps, n
  <2> QED
    BY <2>4, <2>5 DEF Shorter
<1>7. CASE ~ InCall(t)
  <2>1. /\ NewCall(t) \/ stack' = stack
        /\ (stack[t] = << >> /\ signals' = signals) \/ signals' = signals + 1
    BY <1>7, CallsAreNew
  <2>2. Fitting(stack'[t], n)
    BY <1>1, <1>4, <2>1, NewCallFits
  <2>3. signals' \in Nat
    BY <1>5, <2>1
  <2>4. StepsInv'
    BY <1>2, <1>3, <1>4, <2>2, <2>3 DEF StepsInv
  <2>5. \A o \in Threads : stack[o] # << >> /\ stack'[o] # stack[o] => signals' > signals
    BY <1>2, <1>5, <2>1
  <2> QED
    BY <2>4, <2>5 DEF Shorter
<1> QED
  BY <1>6, <1>7

LEMMA MainStepFits ==
  ASSUME TypeInv, TypeInv', PoolInv, StepsInv, MainStep
  PROVE  StepsInv' /\ Shorter
<1> DEFINE n == Len(sinks)
<1>1. sinks \in Seq(SinkType) /\ sinks' \in Seq(SinkType) /\ n \in Nat /\ StackType /\ Main \in Threads
  BY DEF TypeInv, SinksType, Threads
<1>2. signals' = signals /\ signals \in Nat
  BY DEF MainStep, InitLoguru, SetLoglevel, AddFile, StartThreads, Exit, StepsInv
<1>3. \A o \in Threads : Fitting(stack[o], n)
  BY DEF StepsInv
<1> HIDE DEF n
<1>4. CASE SetLoglevel \/ StartThreads \/ Exit
  <2>1. stack' = stack
    BY <1>4 DEF SetLoglevel, StartThreads, Exit
  <2>2. DOMAIN sinks' = DOMAIN sinks
    BY <1>4 DEF SetLoglevel, StartThreads, Exit, output, FlushAll
  <2>3. Len(sinks') = n
    BY <1>1, <2>2 DEF n
  <2> QED
    BY <1>2, <1>3, <2>1, <2>3 DEF StepsInv, Shorter
<1>5. CASE InitLoguru \/ AddFile
  <2>1. stack[Main] = << >> /\ NewCall(Main)
    BY <1>5, FramesAreNew DEF InitLoguru, AddFile, Idle, NewCall, Setup
  <2>2. \A o \in Threads \ {Main} : stack[o] = << >>
    BY <1>5 DEF PoolInv, InitLoguru, AddFile
  <2>3. Len(sinks') \in Nat
    BY <1>1
  <2>4. \A o \in Threads : Fitting(stack[o], Len(sinks'))
    BY <2>1, <2>2, NoneFits
  <2>5. Fitting(stack'[Main], Len(sinks')) /\ \A o \in Threads \ {Main} : stack'[o] = stack[o]
    BY <1>1, <2>1, <2>3, <2>4, NewCallFits
  <2>6. StepsInv'
    BY <1>2, <2>4, <2>5 DEF StepsInv
  <2> QED
    BY <2>1, <2>2, <2>6 DEF Shorter
<1> QED
  BY <1>4, <1>5 DEF MainStep

LEMMA NextFits == LogInv /\ LogInv' /\ StepsInv /\ [Next]_vars => StepsInv' /\ [Shorter]_vars
<1> SUFFICES ASSUME LogInv, LogInv', StepsInv, [Next]_vars
             PROVE  StepsInv' /\ [Shorter]_vars
  OBVIOUS
<1>1. TypeInv /\ TypeInv' /\ StacksInv /\ PoolInv
  BY DEF LogInv
<1>2. CASE UNCHANGED vars
  BY <1>2 DEF vars, output, StepsInv
<1> QED
  BY <1>1, <1>2, ThreadStepFits, MainStepFits, TwoKinds

LEMMA InitFits == Init => StepsInv
BY NoneFits DEF Init, StepsInv

LEMMA StepsCounted == LogInv /\ StepsInv => \A t \in Threads : ThreadSteps(t) \in Nat
<1> SUFFICES ASSUME LogInv, StepsInv, NEW t \in Threads
             PROVE  ThreadSteps(t) \in Nat
  OBVIOUS
<1>1. stack[t] \in Seq(FrameType) /\ Len(sinks) \in Nat /\ Fitting(stack[t], Len(sinks))
  BY DEF LogInv, TypeInv, StackType, SinksType, StepsInv
<1> QED
  BY <1>1, TotalNat DEF ThreadSteps, TotalSteps

(* The calls that a thread is in have finitely many steps left, and each   *)
(* of its steps leaves fewer, for any number of threads and sinks: neither *)
(* what a call logs from within itself nor what other threads do can keep  *)
(* it going for ever, and only a further signal adds to it.                *)
THEOREM CallsAlwaysProgress == Spec => CallsProgress /\ [](\A t \in Threads : ThreadSteps(t) \in Nat)
<1>1. LogInv /\ LogInv' /\ StepsInv /\ [Next]_vars => StepsInv' /\ [Shorter]_vars
  BY NextFits
<1>2. Spec => [][Shorter]_vars /\ [](\A t \in Threads : ThreadSteps(t) \in Nat)
  BY <1>1, InitLog, StepLog, InitFits, StepsCounted, PTL DEF Spec
<1> QED
  BY <1>2 DEF CallsProgress, Shorter

================================================================================
