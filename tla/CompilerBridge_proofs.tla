------------------------ MODULE CompilerBridge_proofs ------------------------
(***************************************************************************)
(* Proofs about CompilerBridge for every set of threads and identifiers    *)
(* and every bound on the remembered cancellations.                        *)
(***************************************************************************)
EXTENDS CompilerBridge, FiniteSetTheorems, TLAPS

(* The elements of a sequence, and a sequence without repetitions.         *)
Elements(s) == { s[i] : i \in 1..Len(s) }
Distinct(s) == \A i, j \in 1..Len(s) : s[i] = s[j] => i = j

(* Erasing a position of a list without repetitions takes exactly that     *)
(* element out (std::deque::erase in beginCancellable).                    *)
LEMMA EraseElement ==
  ASSUME NEW S, NEW s \in Seq(S), Distinct(s), NEW i \in 1..Len(s)
  PROVE  /\ Erase(s, i) \in Seq(S)
         /\ Len(Erase(s, i)) = Len(s) - 1
         /\ Elements(Erase(s, i)) = Elements(s) \ {s[i]}
         /\ Distinct(Erase(s, i))
<1> DEFINE n == Len(s) - 1
           e == Erase(s, i)
<1>1. /\ n \in Nat
      /\ i \in 1..(n + 1)
      /\ Len(s) = n + 1
  OBVIOUS
<1>2. e = [j \in 1..n |-> IF j < i THEN s[j] ELSE s[j + 1]]
  BY DEF Erase
<1>3. \A j \in 1..n : e[j] \in S
  BY <1>1, <1>2
<1>4. e \in Seq(S) /\ Len(e) = n
  BY <1>1, <1>2, <1>3
<1>5. Elements(e) \subseteq Elements(s) \ {s[i]}
  <2> SUFFICES ASSUME NEW j \in 1..n
               PROVE  e[j] \in Elements(s) \ {s[i]}
    BY <1>4 DEF Elements
  <2>1. CASE j < i
    BY <2>1, <1>1, <1>2 DEF Elements, Distinct
  <2>2. CASE ~(j < i)
    <3>1. e[j] = s[j + 1] /\ j + 1 \in 1..Len(s) /\ j + 1 # i
      BY <2>2, <1>1, <1>2
    <3> QED BY <3>1 DEF Elements, Distinct
  <2> QED BY <2>1, <2>2
<1>6. Elements(s) \ {s[i]} \subseteq Elements(e)
  <2> SUFFICES ASSUME NEW k \in 1..Len(s), k # i
               PROVE  s[k] \in Elements(e)
    BY DEF Elements
  <2>1. CASE k < i
    <3>1. k \in 1..n /\ e[k] = s[k]
      BY <2>1, <1>1, <1>2
    <3> QED BY <3>1, <1>4 DEF Elements
  <2>2. CASE k > i
    <3>1. k - 1 \in 1..n /\ ~(k - 1 < i) /\ (k - 1) + 1 = k
      BY <2>2, <1>1
    <3>2. e[k - 1] = s[k]
      BY <3>1, <1>2
    <3> HIDE DEF e
    <3> QED BY <3>1, <3>2, <1>4 DEF Elements
  <2> QED BY <2>1, <2>2
<1>7. Distinct(e)
  <2> SUFFICES ASSUME NEW j \in 1..n, NEW k \in 1..n, e[j] = e[k]
               PROVE  j = k
    BY <1>4 DEF Distinct
  <2> DEFINE from(m) == IF m < i THEN m ELSE m + 1
  <2>1. e[j] = s[from(j)] /\ e[k] = s[from(k)]
    BY <1>2
  <2>2. from(j) \in 1..Len(s) /\ from(k) \in 1..Len(s)
    BY <1>1
  <2>3. from(j) = from(k)
    <3> HIDE DEF from, e
    <3> QED BY <2>1, <2>2 DEF Distinct
  <2> QED BY <2>3, <1>1
<1> QED BY <1>4, <1>5, <1>6, <1>7

(* push_back adds exactly one element.                                     *)
LEMMA AppendElement ==
  ASSUME NEW S, NEW s \in Seq(S), Distinct(s), NEW x \in S, x \notin Elements(s)
  PROVE  /\ Append(s, x) \in Seq(S)
         /\ Len(Append(s, x)) = Len(s) + 1
         /\ Elements(Append(s, x)) = Elements(s) \union {x}
         /\ Distinct(Append(s, x))
<1> DEFINE a == Append(s, x)
<1>1. /\ a \in Seq(S)
      /\ Len(a) = Len(s) + 1
      /\ Len(s) \in Nat
      /\ a[Len(s) + 1] = x
      /\ \A i \in 1..Len(s) : a[i] = s[i]
  OBVIOUS
<1> HIDE DEF a
<1>2. Elements(a) = Elements(s) \union {x}
  BY <1>1 DEF Elements
<1>3. Distinct(a)
  BY <1>1 DEF Distinct, Elements
<1> QED BY <1>1, <1>2, <1>3 DEF a

(* pop_front takes exactly the oldest element out.                         *)
LEMMA TailElement ==
  ASSUME NEW S, NEW s \in Seq(S), Distinct(s), s # <<>>
  PROVE  /\ Tail(s) \in Seq(S)
         /\ Len(Tail(s)) = Len(s) - 1
         /\ Head(s) \in Elements(s)
         /\ Elements(Tail(s)) = Elements(s) \ {Head(s)}
         /\ Distinct(Tail(s))
<1> DEFINE a == Tail(s)
<1>1. /\ a \in Seq(S)
      /\ Len(s) \in Nat \ {0}
      /\ Len(a) = Len(s) - 1
      /\ Head(s) = s[1]
      /\ \A i \in 1..(Len(s) - 1) : a[i] = s[i + 1]
  OBVIOUS
<1> HIDE DEF a
<1>2. Elements(a) \subseteq Elements(s) \ {Head(s)}
  <2> SUFFICES ASSUME NEW i \in 1..(Len(s) - 1)
               PROVE  a[i] \in Elements(s) \ {Head(s)}
    BY <1>1 DEF Elements
  <2>1. a[i] = s[i + 1] /\ i + 1 \in 1..Len(s) /\ 1 \in 1..Len(s) /\ i + 1 # 1
    BY <1>1
  <2> QED BY <2>1, <1>1 DEF Elements, Distinct
<1>3. Elements(s) \ {Head(s)} \subseteq Elements(a)
  <2> SUFFICES ASSUME NEW k \in 1..Len(s), k # 1
               PROVE  s[k] \in Elements(a)
    BY <1>1 DEF Elements
  <2>1. k - 1 \in 1..(Len(s) - 1) /\ (k - 1) + 1 = k
    BY <1>1
  <2>2. a[k - 1] = s[k]
    BY <2>1, <1>1
  <2> QED BY <2>1, <2>2, <1>1 DEF Elements
<1>4. Distinct(a)
  BY <1>1 DEF Distinct
<1>5. Head(s) \in Elements(s)
  BY <1>1 DEF Elements
<1> QED BY <1>1, <1>2, <1>3, <1>4, <1>5 DEF a

(* The thread inside is alone there.                                       *)
LEMMA AloneInside ==
  ASSUME TypeOK, OneOperation, NEW t \in Threads, pc[t] \in InsideSteps
  PROVE  \A u \in Threads : u # t => pc[u] \in {"idle", "waiting"}
BY BridgeAssumption DEF TypeOK, OneOperation, InsideSteps, Steps

(* The inductive invariant holds initially and is kept by every step.      *)
LEMMA KeepSubmit ==
  ASSUME Inv, NEW t \in Threads, NEW c \in Calls, Submit(t, c)
  PROVE  Inv'
<1> USE BridgeAssumption DEF Inv
<1>1. TypeOK'
  <2>1. c.id \in Ids \union {0}
    BY DEF Calls
  <2> QED BY <2>1 DEF TypeOK, Steps, Submit, Goto, cancelVars
<1>2. OneOperation' /\ CallsFit'
  BY DEF OneOperation, CallsFit, TypeOK, InsideSteps, Steps, IsCancellable,
         Submit, Goto, callVars, cancelVars, historyVars
<1>3. RegisteredRequest' /\ CancellationTable' /\ StillWaits' /\ NoLostCancellation'
  BY DEF RegisteredRequest, CancellationTable, StillWaits,
         NoLostCancellation, TypeOK, IsCancellable, RegisteredSteps,
         Pending, Submit, Goto, callVars, cancelVars, historyVars
<1>4. CancelledOnlyOnRequest' /\ ContextInUse' /\ OutcomeFits'
  BY DEF CancelledOnlyOnRequest, ContextInUse, OutcomeFits, TypeOK,
         IsCancellable, RegisteredSteps, NoOutcome, Submit, Goto, callVars,
         cancelVars, historyVars
<1> QED BY <1>1, <1>2, <1>3, <1>4

LEMMA KeepAcquire ==
  ASSUME Inv, NEW t \in Threads, Acquire(t)
  PROVE  Inv'
<1> USE BridgeAssumption DEF Inv
<1>1. TypeOK'
  BY DEF TypeOK, Steps, BackendResults, Results, Statuses, NoOutcome, NoResult,
         Acquire, Goto, callVars, cancelVars, historyVars, IsFree
<1>2. OneOperation' /\ CallsFit'
  BY DEF OneOperation, CallsFit, TypeOK, InsideSteps, Steps, IsCancellable, Acquire,
         Goto, callVars, cancelVars, historyVars, IsFree
<1>3. RegisteredRequest' /\ CancellationTable' /\ StillWaits' /\ NoLostCancellation'
  BY DEF RegisteredRequest, CancellationTable, StillWaits, NoLostCancellation,
         TypeOK, IsCancellable, RegisteredSteps, Pending, Acquire, Goto, callVars,
         cancelVars, historyVars, IsFree
<1>4. CancelledOnlyOnRequest' /\ ContextInUse' /\ OutcomeFits'
  BY DEF CancelledOnlyOnRequest, ContextInUse, OutcomeFits, TypeOK, IsCancellable,
         RegisteredSteps, NoOutcome, Acquire, Goto, callVars, cancelVars,
         historyVars, IsFree
<1> QED BY <1>1, <1>2, <1>3, <1>4

LEMMA KeepRejectSession ==
  ASSUME Inv, NEW t \in Threads, RejectSession(t)
  PROVE  Inv'
<1> USE BridgeAssumption DEF Inv
<1>0. \A u \in Threads : u # t => pc[u] \in {"idle", "waiting"}
  BY AloneInside DEF RejectSession, AnswerEarly, Goto, InsideSteps, Steps, CanRun
<1>1. TypeOK'
  BY <1>0 DEF TypeOK, Steps, BackendResults, Results, Statuses, NoOutcome, NoResult,
         RejectSession, AnswerEarly, Goto, callVars, cancelVars, historyVars, CanRun
<1>2. OneOperation' /\ CallsFit'
  BY <1>0 DEF OneOperation, CallsFit, TypeOK, InsideSteps, Steps, IsCancellable,
         RejectSession, AnswerEarly, Goto, callVars, cancelVars, historyVars, CanRun
<1>3. RegisteredRequest' /\ CancellationTable' /\ StillWaits' /\ NoLostCancellation'
  BY <1>0 DEF RegisteredRequest, CancellationTable, StillWaits, NoLostCancellation,
         TypeOK, IsCancellable, RegisteredSteps, Pending, RejectSession,
         AnswerEarly, Goto, callVars, cancelVars, historyVars, CanRun
<1>4. CancelledOnlyOnRequest' /\ ContextInUse' /\ OutcomeFits'
  BY <1>0 DEF CancelledOnlyOnRequest, ContextInUse, OutcomeFits, TypeOK,
         IsCancellable, RegisteredSteps, NoOutcome, RejectSession, AnswerEarly,
         Goto, callVars, cancelVars, historyVars, CanRun
<1> QED BY <1>1, <1>2, <1>3, <1>4

LEMMA KeepRejectArguments ==
  ASSUME Inv, NEW t \in Threads, RejectArguments(t)
  PROVE  Inv'
<1> USE BridgeAssumption DEF Inv
<1>0. \A u \in Threads : u # t => pc[u] \in {"idle", "waiting"}
  BY AloneInside DEF RejectArguments, AnswerEarly, Goto, InsideSteps, Steps, CanRun
<1>1. TypeOK'
  BY <1>0 DEF TypeOK, Steps, BackendResults, Results, Statuses, NoOutcome, NoResult,
         RejectArguments, AnswerEarly, Goto, callVars, cancelVars, historyVars,
         CanRun
<1>2. OneOperation' /\ CallsFit'
  BY <1>0 DEF OneOperation, CallsFit, TypeOK, InsideSteps, Steps, IsCancellable,
         RejectArguments, AnswerEarly, Goto, callVars, cancelVars, historyVars,
         CanRun
<1>3. RegisteredRequest' /\ CancellationTable' /\ StillWaits' /\ NoLostCancellation'
  BY <1>0 DEF RegisteredRequest, CancellationTable, StillWaits, NoLostCancellation,
         TypeOK, IsCancellable, RegisteredSteps, Pending, RejectArguments,
         AnswerEarly, Goto, callVars, cancelVars, historyVars, CanRun
<1>4. CancelledOnlyOnRequest' /\ ContextInUse' /\ OutcomeFits'
  BY <1>0 DEF CancelledOnlyOnRequest, ContextInUse, OutcomeFits, TypeOK,
         IsCancellable, RegisteredSteps, NoOutcome, RejectArguments, AnswerEarly,
         Goto, callVars, cancelVars, historyVars, CanRun
<1> QED BY <1>1, <1>2, <1>3, <1>4

LEMMA KeepAccept ==
  ASSUME Inv, NEW t \in Threads, Accept(t)
  PROVE  Inv'
<1> USE BridgeAssumption DEF Inv
<1>0. \A u \in Threads : u # t => pc[u] \in {"idle", "waiting"}
  BY AloneInside DEF Accept, Goto, InsideSteps, Steps, CanRun
<1>1. TypeOK'
  BY <1>0 DEF TypeOK, Steps, BackendResults, Results, Statuses, NoOutcome, NoResult,
         Accept, Goto, callVars, cancelVars, historyVars, CanRun
<1>2. OneOperation' /\ CallsFit'
  BY <1>0 DEF OneOperation, CallsFit, TypeOK, InsideSteps, Steps, IsCancellable,
         Accept, Goto, callVars, cancelVars, historyVars, CanRun
<1>3. RegisteredRequest' /\ CancellationTable' /\ StillWaits' /\ NoLostCancellation'
  BY <1>0 DEF RegisteredRequest, CancellationTable, StillWaits, NoLostCancellation,
         TypeOK, IsCancellable, RegisteredSteps, Pending, Accept, Goto, callVars,
         cancelVars, historyVars, CanRun
<1>4. CancelledOnlyOnRequest' /\ ContextInUse' /\ OutcomeFits'
  BY <1>0 DEF CancelledOnlyOnRequest, ContextInUse, OutcomeFits, TypeOK,
         IsCancellable, RegisteredSteps, NoOutcome, Accept, Goto, callVars,
         cancelVars, historyVars, CanRun
<1> QED BY <1>1, <1>2, <1>3, <1>4

LEMMA KeepBeginRegistered ==
  ASSUME Inv, NEW t \in Threads, BeginRegistered(t)
  PROVE  Inv'
<1> USE BridgeAssumption DEF Inv
<1>0. \A u \in Threads : u # t => pc[u] \in {"idle", "waiting"}
  BY AloneInside DEF BeginRegistered, Goto, InsideSteps, Steps, FindsPending
<1>a. IsCancellable(t) /\ call[t] \in Calls /\ call[t].id \in Ids
  BY DEF CallsFit, IsCancellable, Calls, BeginRegistered, Goto, TypeOK, FindsPending
<1>1. TypeOK'
  BY <1>a DEF TypeOK, Steps, BeginRegistered, Goto, historyVars, FindsPending
<1>2. OneOperation' /\ CallsFit'
  BY <1>0 DEF OneOperation, CallsFit, TypeOK, InsideSteps, Steps, IsCancellable,
         BeginRegistered, Goto, callVars, cancelVars, historyVars, FindsPending
<1>3. RegisteredRequest'
  BY <1>0, <1>a DEF RegisteredRequest, TypeOK, IsCancellable, RegisteredSteps,
         BeginRegistered, Goto, FindsPending
<1>4. NoLostCancellation'
  <2>1. call[t].id \notin requested \ forgotten
    BY DEF BeginRegistered, Goto, StillWaits, FindsPending
  <2> QED BY <1>0, <2>1 DEF NoLostCancellation, TypeOK, IsCancellable,
         RegisteredSteps, BeginRegistered, Goto, historyVars, FindsPending
<1>5. CancellationTable' /\ StillWaits'
  BY <1>0 DEF CancellationTable, StillWaits, TypeOK, Pending, BeginRegistered, Goto,
         callVars, cancelVars, historyVars, FindsPending
<1>6. CancelledOnlyOnRequest' /\ ContextInUse' /\ OutcomeFits'
  BY <1>0 DEF CancelledOnlyOnRequest, ContextInUse, OutcomeFits, TypeOK,
         IsCancellable, RegisteredSteps, NoOutcome, BeginRegistered, Goto, callVars,
         cancelVars, historyVars, FindsPending
<1> QED BY <1>1, <1>2, <1>3, <1>4, <1>5, <1>6

LEMMA KeepEnterBackend ==
  ASSUME Inv, NEW t \in Threads, EnterBackend(t)
  PROVE  Inv'
<1> USE BridgeAssumption DEF Inv
<1>0. \A u \in Threads : u # t => pc[u] \in {"idle", "waiting"}
  BY AloneInside DEF EnterBackend, Goto, InsideSteps, Steps
<1>1. TypeOK'
  BY <1>0 DEF TypeOK, Steps, BackendResults, Results, Statuses, NoOutcome,
         NoResult, EnterBackend, Goto, callVars, cancelVars, historyVars
<1>2. OneOperation' /\ CallsFit'
  BY <1>0 DEF OneOperation, CallsFit, TypeOK, InsideSteps, Steps,
         IsCancellable, EnterBackend, Goto, callVars, cancelVars,
         historyVars
<1>3. RegisteredRequest' /\ CancellationTable' /\ StillWaits' /\ NoLostCancellation'
  BY <1>0 DEF RegisteredRequest, CancellationTable, StillWaits,
         NoLostCancellation, TypeOK, IsCancellable, RegisteredSteps,
         Pending, EnterBackend, Goto, callVars, cancelVars, historyVars
<1>4. CancelledOnlyOnRequest' /\ ContextInUse' /\ OutcomeFits'
  BY <1>0 DEF CancelledOnlyOnRequest, ContextInUse, OutcomeFits, TypeOK,
         IsCancellable, RegisteredSteps, NoOutcome, EnterBackend, Goto,
         callVars, cancelVars, historyVars
<1> QED BY <1>1, <1>2, <1>3, <1>4

LEMMA KeepBackendReturns ==
  ASSUME Inv, NEW t \in Threads, NEW r \in BackendResults, BackendReturns(t, r)
  PROVE  Inv'
<1> USE BridgeAssumption DEF Inv
<1>0. \A u \in Threads : u # t => pc[u] \in {"idle", "waiting"}
  BY AloneInside DEF BackendReturns, Goto, InsideSteps, Steps
<1>1. TypeOK'
  BY <1>0 DEF TypeOK, Steps, BackendResults, Results, Statuses, NoOutcome,
         NoResult, BackendReturns, Goto, callVars, cancelVars, historyVars
<1>2. OneOperation' /\ CallsFit'
  BY <1>0 DEF OneOperation, CallsFit, TypeOK, InsideSteps, Steps,
         IsCancellable, BackendReturns, Goto, callVars, cancelVars,
         historyVars
<1>3. RegisteredRequest' /\ CancellationTable' /\ StillWaits' /\ NoLostCancellation'
  BY <1>0 DEF RegisteredRequest, CancellationTable, StillWaits,
         NoLostCancellation, TypeOK, IsCancellable, RegisteredSteps,
         Pending, BackendReturns, Goto, callVars, cancelVars, historyVars
<1>4. OutcomeFits'
  <2>1. sessionReusable /\ call[t].valid
    BY DEF OutcomeFits, CallsFit, BackendReturns, Goto
  <2>2. outcome'[t] = r /\ call' = call /\ sessionReusable' = sessionReusable
    BY DEF BackendReturns, TypeOK
  <2> QED BY <1>0, <2>1, <2>2 DEF OutcomeFits, TypeOK, IsCancellable,
         BackendReturns, Goto
<1>5. CancelledOnlyOnRequest' /\ ContextInUse'
  BY <1>0 DEF CancelledOnlyOnRequest, ContextInUse, TypeOK, IsCancellable,
         RegisteredSteps, NoOutcome, BackendReturns, Goto, callVars,
         cancelVars, historyVars
<1> QED BY <1>1, <1>2, <1>3, <1>4, <1>5

LEMMA KeepEndCancellable ==
  ASSUME Inv, NEW t \in Threads, EndCancellable(t)
  PROVE  Inv'
<1> USE BridgeAssumption DEF Inv
<1>0. \A u \in Threads : u # t => pc[u] \in {"idle", "waiting"}
  BY AloneInside DEF EndCancellable, Goto, InsideSteps, Steps
<1>1. TypeOK'
  BY <1>0 DEF TypeOK, Steps, BackendResults, Results, Statuses, NoOutcome,
         NoResult, EndCancellable, Goto, callVars, cancelVars, historyVars
<1>2. OneOperation' /\ CallsFit'
  BY <1>0 DEF OneOperation, CallsFit, TypeOK, InsideSteps, Steps,
         IsCancellable, EndCancellable, Goto, callVars, cancelVars,
         historyVars
<1>3. RegisteredRequest' /\ CancellationTable' /\ StillWaits' /\ NoLostCancellation'
  BY <1>0 DEF RegisteredRequest, CancellationTable, StillWaits,
         NoLostCancellation, TypeOK, IsCancellable, RegisteredSteps,
         Pending, EndCancellable, Goto, callVars, cancelVars, historyVars
<1>4. CancelledOnlyOnRequest' /\ ContextInUse' /\ OutcomeFits'
  BY <1>0 DEF CancelledOnlyOnRequest, ContextInUse, OutcomeFits, TypeOK,
         IsCancellable, RegisteredSteps, NoOutcome, EndCancellable, Goto,
         callVars, cancelVars, historyVars
<1> QED BY <1>1, <1>2, <1>3, <1>4

LEMMA KeepCopyResult ==
  ASSUME Inv, NEW t \in Threads, CopyResult(t)
  PROVE  Inv'
<1> USE BridgeAssumption DEF Inv
<1>0. \A u \in Threads : u # t => pc[u] \in {"idle", "waiting"}
  BY AloneInside DEF CopyResult, Goto, InsideSteps, Steps
<1>1. TypeOK'
  BY <1>0 DEF TypeOK, Steps, BackendResults, Results, Statuses, NoOutcome,
         NoResult, CopyResult, Goto, callVars, cancelVars, historyVars
<1>2. OneOperation' /\ CallsFit'
  BY <1>0 DEF OneOperation, CallsFit, TypeOK, InsideSteps, Steps,
         IsCancellable, CopyResult, Goto, callVars, cancelVars, historyVars
<1>3. RegisteredRequest' /\ CancellationTable' /\ StillWaits' /\ NoLostCancellation'
  BY <1>0 DEF RegisteredRequest, CancellationTable, StillWaits,
         NoLostCancellation, TypeOK, IsCancellable, RegisteredSteps,
         Pending, CopyResult, Goto, callVars, cancelVars, historyVars
<1>4. CancelledOnlyOnRequest' /\ ContextInUse' /\ OutcomeFits'
  BY <1>0 DEF CancelledOnlyOnRequest, ContextInUse, OutcomeFits, TypeOK,
         IsCancellable, RegisteredSteps, NoOutcome, CopyResult, Goto,
         callVars, cancelVars, historyVars
<1> QED BY <1>1, <1>2, <1>3, <1>4

LEMMA KeepCopyFails ==
  ASSUME Inv, NEW t \in Threads, CopyFails(t)
  PROVE  Inv'
<1> USE BridgeAssumption DEF Inv
<1>0. \A u \in Threads : u # t => pc[u] \in {"idle", "waiting"}
  BY AloneInside DEF CopyFails, Goto, InsideSteps, Steps, UsableWithoutCopy
<1>1. TypeOK'
  BY <1>0 DEF TypeOK, Steps, BackendResults, Results, Statuses, NoOutcome, NoResult,
         CopyFails, Goto, callVars, cancelVars, historyVars, UsableWithoutCopy
<1>2. OneOperation' /\ CallsFit'
  BY <1>0 DEF OneOperation, CallsFit, TypeOK, InsideSteps, Steps, IsCancellable,
         CopyFails, Goto, callVars, cancelVars, historyVars, UsableWithoutCopy
<1>3. RegisteredRequest' /\ CancellationTable' /\ StillWaits' /\ NoLostCancellation'
  BY <1>0 DEF RegisteredRequest, CancellationTable, StillWaits, NoLostCancellation,
         TypeOK, IsCancellable, RegisteredSteps, Pending, CopyFails, Goto, callVars,
         cancelVars, historyVars, UsableWithoutCopy
<1>4. CancelledOnlyOnRequest' /\ ContextInUse' /\ OutcomeFits'
  BY <1>0 DEF CancelledOnlyOnRequest, ContextInUse, OutcomeFits, TypeOK,
         IsCancellable, RegisteredSteps, NoOutcome, CopyFails, Goto, callVars,
         cancelVars, historyVars, UsableWithoutCopy
<1> QED BY <1>1, <1>2, <1>3, <1>4

LEMMA KeepResetCompletion ==
  ASSUME Inv, NEW t \in Threads, ResetCompletion(t)
  PROVE  Inv'
<1> USE BridgeAssumption DEF Inv
<1>0. \A u \in Threads : u # t => pc[u] \in {"idle", "waiting"}
  BY AloneInside DEF ResetCompletion, Goto, InsideSteps, Steps
<1>1. TypeOK'
  BY <1>0 DEF TypeOK, Steps, BackendResults, Results, Statuses, NoOutcome,
         NoResult, ResetCompletion, Goto, callVars, cancelVars, historyVars
<1>2. OneOperation' /\ CallsFit'
  BY <1>0 DEF OneOperation, CallsFit, TypeOK, InsideSteps, Steps,
         IsCancellable, ResetCompletion, Goto, callVars, cancelVars,
         historyVars
<1>3. RegisteredRequest' /\ CancellationTable' /\ StillWaits' /\ NoLostCancellation'
  BY <1>0 DEF RegisteredRequest, CancellationTable, StillWaits,
         NoLostCancellation, TypeOK, IsCancellable, RegisteredSteps,
         Pending, ResetCompletion, Goto, callVars, cancelVars, historyVars
<1>4. CancelledOnlyOnRequest' /\ ContextInUse' /\ OutcomeFits'
  BY <1>0 DEF CancelledOnlyOnRequest, ContextInUse, OutcomeFits, TypeOK,
         IsCancellable, RegisteredSteps, NoOutcome, ResetCompletion, Goto,
         callVars, cancelVars, historyVars
<1> QED BY <1>1, <1>2, <1>3, <1>4

LEMMA KeepReturn ==
  ASSUME Inv, NEW t \in Threads, Return(t)
  PROVE  Inv'
<1> USE BridgeAssumption DEF Inv
<1>0. \A u \in Threads : u # t => pc[u] \in {"idle", "waiting"}
  BY AloneInside DEF Return, Goto, InsideSteps, Steps, Unlocked
<1>1. TypeOK'
  BY <1>0 DEF TypeOK, Steps, BackendResults, Results, Statuses, NoOutcome, NoResult,
         Return, Goto, callVars, cancelVars, historyVars, Unlocked
<1>2. CallsFit'
  <2>1. /\ pc' = [pc EXCEPT ![t] = "idle"]
        /\ call' = [call EXCEPT ![t] = NoCall]
        /\ used' = used
    BY DEF Return, Goto, historyVars, Unlocked
  <2>2. NoCall.id = 0
    BY DEF NoCall
  <2> HIDE DEF NoCall
  <2> QED BY <2>1, <2>2 DEF CallsFit, TypeOK, IsCancellable
<1>3. OneOperation'
  BY <1>0 DEF OneOperation, TypeOK, InsideSteps, Steps, Return, Goto, callVars,
         cancelVars, historyVars, Unlocked
<1>4. RegisteredRequest' /\ CancellationTable'
  <2>1. runningCancellation = NoThread
    BY <1>0 DEF RegisteredRequest, TypeOK, RegisteredSteps, Return, Goto, Unlocked
  <2>2. \A u \in Threads : pc'[u] \notin RegisteredSteps
    BY <1>0 DEF TypeOK, RegisteredSteps, Return, Goto, Unlocked
  <2>3. UNCHANGED <<runningRequest, runningCancellation, pendingCancellations, requested, forgotten>>
    BY DEF Return, historyVars, Unlocked
  <2>4. RegisteredRequest'
    BY <2>1, <2>2, <2>3 DEF RegisteredRequest
  <2>5. CancellationTable'
    BY <2>3 DEF CancellationTable, Pending
  <2> QED BY <2>4, <2>5
<1>5. StillWaits' /\ NoLostCancellation'
  <2>1. UNCHANGED <<requested, forgotten, used, pendingCancellations>>
    BY DEF Return, historyVars, Unlocked
  <2>2. /\ pc' = [pc EXCEPT ![t] = "idle"]
        /\ call' = [call EXCEPT ![t] = NoCall]
        /\ flag' = [flag EXCEPT ![t] = FALSE]
    BY DEF Return, Goto, Unlocked
  <2>3. StillWaits'
    BY <2>1, <2>2 DEF StillWaits, TypeOK, Pending
  <2>4. NoLostCancellation'
    BY <1>0, <2>1, <2>2 DEF NoLostCancellation, TypeOK, IsCancellable, RegisteredSteps
  <2> QED BY <2>3, <2>4
<1>6. CancelledOnlyOnRequest' /\ ContextInUse' /\ OutcomeFits'
  BY <1>0 DEF CancelledOnlyOnRequest, ContextInUse, OutcomeFits, TypeOK,
         IsCancellable, RegisteredSteps, NoOutcome, Return, Goto, callVars,
         cancelVars, historyVars, Unlocked
<1> QED BY <1>1, <1>2, <1>3, <1>4, <1>5, <1>6

LEMMA KeepBeginCancelled ==
  ASSUME Inv, NEW t \in Threads, BeginCancelled(t)
  PROVE  Inv'
<1> USE BridgeAssumption DEF Inv
<1>0. \A u \in Threads : u # t => pc[u] \in {"idle", "waiting"}
  BY AloneInside DEF BeginCancelled, Goto, InsideSteps, Steps
<1>a. IsCancellable(t) /\ call[t] \in Calls /\ call[t].id \in Ids
  BY DEF CallsFit, IsCancellable, Calls, BeginCancelled, Goto, TypeOK
<1>b. PICK i \in 1..Len(pendingCancellations) :
        /\ pendingCancellations[i] = call[t].id
        /\ pendingCancellations' = Erase(pendingCancellations, i)
  BY DEF BeginCancelled
<1>c. /\ pendingCancellations' \in Seq(Ids)
      /\ Len(pendingCancellations') = Len(pendingCancellations) - 1
      /\ Pending' = Pending \ {call[t].id}
      /\ Distinct(pendingCancellations')
  <2>1. Distinct(pendingCancellations) /\ pendingCancellations \in Seq(Ids)
    BY DEF CancellationTable, Distinct, TypeOK
  <2>2. Pending = Elements(pendingCancellations) /\ Pending' = Elements(pendingCancellations')
    BY DEF Pending, Elements
  <2> QED BY <1>b, <2>1, <2>2, EraseElement
<1>1. TypeOK'
  BY <1>c DEF TypeOK, Steps, BackendResults, Statuses, BeginCancelled, Goto, historyVars
<1>2. OneOperation' /\ CallsFit'
  BY <1>0 DEF OneOperation, CallsFit, TypeOK, InsideSteps, Steps,
         IsCancellable, BeginCancelled, Goto, callVars, cancelVars,
         historyVars
<1>3. CancellationTable'
  BY <1>c DEF CancellationTable, Distinct, TypeOK, BeginCancelled, historyVars
<1>4. StillWaits'
  <2>1. /\ call' = call /\ used' = used /\ requested' = requested /\ forgotten' = forgotten
        /\ pc' = [pc EXCEPT ![t] = "copying"]
    BY DEF BeginCancelled, Goto, historyVars
  <2>2. call[t].id \in used /\ call[t].id # 0
    BY <1>a DEF CallsFit
  <2>3. \A u \in Threads : call[u].id = call[t].id => u = t
    BY <2>2 DEF CallsFit
  <2> QED BY <1>c, <2>1, <2>2, <2>3 DEF StillWaits, TypeOK
<1>5. RegisteredRequest' /\ NoLostCancellation'
  BY <1>0 DEF RegisteredRequest, NoLostCancellation, TypeOK, IsCancellable,
         RegisteredSteps, BeginCancelled, Goto, callVars, cancelVars,
         historyVars
<1>6. CancelledOnlyOnRequest'
  <2>1. call[t].id \in requested
    BY <1>b DEF CancellationTable, Pending
  <2> QED BY <1>0, <2>1 DEF CancelledOnlyOnRequest, TypeOK, IsCancellable,
         RegisteredSteps,
                            BeginCancelled, Goto, historyVars
<1>7. OutcomeFits'
  <2>1. sessionReusable /\ call[t].valid
    BY DEF OutcomeFits, CallsFit, BeginCancelled, Goto
  <2> QED BY <1>0, <1>a, <2>1 DEF OutcomeFits, TypeOK, IsCancellable,
         BeginCancelled, Goto
<1>8. ContextInUse'
  BY <1>0 DEF ContextInUse, TypeOK, BeginCancelled, Goto, callVars,
         cancelVars, historyVars
<1> QED BY <1>1, <1>2, <1>3, <1>4, <1>5, <1>6, <1>7, <1>8

LEMMA KeepCancelRunning ==
  ASSUME Inv, NEW id \in Ids, CancelRunning(id)
  PROVE  Inv'
<1> USE BridgeAssumption DEF Inv
<1>a. PICK v \in Threads :
        /\ runningCancellation = v
        /\ IsCancellable(v) /\ pc[v] \in RegisteredSteps
        /\ call[v].id = id
        /\ flag' = [flag EXCEPT ![v] = TRUE]
  BY DEF CancelRunning, Runs, TypeOK, RegisteredRequest, Stored
<1>b. \A u \in Threads : IsCancellable(u) /\ pc[u] \in RegisteredSteps => u = v
  BY <1>a DEF RegisteredRequest
<1>1. TypeOK'
  BY DEF TypeOK, Steps, BackendResults, Results, Statuses, NoOutcome, NoResult,
         CancelRunning, Runs, Goto, callVars, cancelVars, historyVars, Stored
<1>2. OneOperation' /\ CallsFit'
  BY DEF OneOperation, CallsFit, TypeOK, InsideSteps, Steps, IsCancellable,
         CancelRunning, Runs, Goto, callVars, cancelVars, historyVars, Stored
<1>3. StillWaits'
  <2>1. id \in used /\ \A u \in Threads : call[u].id = id => u = v
    BY <1>a DEF CallsFit
  <2>2. pc[v] \notin {"waiting", "entered", "beginning"}
    BY <1>a DEF RegisteredSteps
  <2>3. UNCHANGED <<pc, call, used, forgotten, pendingCancellations>> /\ requested' = requested \union {id}
    BY DEF CancelRunning, callVars, Stored
  <2> QED BY <2>1, <2>2, <2>3 DEF StillWaits, Pending
<1>4. NoLostCancellation'
  BY <1>a, <1>b DEF NoLostCancellation, TypeOK, IsCancellable, RegisteredSteps,
         CancelRunning, callVars, Stored
<1>5. RegisteredRequest' /\ CancellationTable'
  BY DEF RegisteredRequest, CancellationTable, TypeOK, IsCancellable,
         RegisteredSteps, Pending, CancelRunning, Runs, Goto, callVars, cancelVars,
         historyVars, Stored
<1>6. CancelledOnlyOnRequest'
  BY <1>a, <1>b DEF CancelledOnlyOnRequest, TypeOK, IsCancellable, CancelRunning,
         callVars, Stored
<1>7. ContextInUse' /\ OutcomeFits'
  BY DEF ContextInUse, OutcomeFits, TypeOK, IsCancellable, CancelRunning, Runs,
         Goto, callVars, cancelVars, historyVars, Stored
<1> QED BY <1>1, <1>2, <1>3, <1>4, <1>5, <1>6, <1>7

LEMMA KeepCancelAgain ==
  ASSUME Inv, NEW id \in Ids, CancelAgain(id)
  PROVE  Inv'
<1> USE BridgeAssumption DEF Inv
<1>a. \A u \in Threads : IsCancellable(u) /\ pc[u] \in RegisteredSteps => call[u].id # id
  BY DEF CancelAgain, Runs, RegisteredRequest
<1>1. TypeOK'
  BY DEF TypeOK, Steps, BackendResults, Results, Statuses, NoOutcome,
         NoResult, CancelAgain, Runs, Goto, callVars, cancelVars,
         historyVars
<1>2. OneOperation' /\ CallsFit'
  BY DEF OneOperation, CallsFit, TypeOK, InsideSteps, Steps, IsCancellable,
         CancelAgain, Runs, Goto, callVars, cancelVars, historyVars
<1>3. NoLostCancellation'
  BY <1>a DEF NoLostCancellation, IsCancellable, RegisteredSteps, CancelAgain,
         callVars, cancelVars
<1>4. RegisteredRequest' /\ CancellationTable' /\ StillWaits'
  BY DEF RegisteredRequest, CancellationTable, StillWaits, TypeOK,
         IsCancellable, RegisteredSteps, Pending, CancelAgain, Runs, Goto,
         callVars, cancelVars, historyVars
<1>5. CancelledOnlyOnRequest' /\ ContextInUse' /\ OutcomeFits'
  BY DEF CancelledOnlyOnRequest, ContextInUse, OutcomeFits, TypeOK,
         IsCancellable, RegisteredSteps, NoOutcome, CancelAgain, Runs, Goto,
         callVars, cancelVars, historyVars
<1> QED BY <1>1, <1>2, <1>3, <1>4, <1>5

LEMMA KeepCancelEarly ==
  ASSUME Inv, NEW id \in Ids, CancelEarly(id)
  PROVE  Inv'
<1> USE BridgeAssumption DEF Inv
<1>a. \A u \in Threads : IsCancellable(u) /\ pc[u] \in RegisteredSteps => call[u].id # id
  BY DEF CancelEarly, PushBack, Runs, RegisteredRequest, IsFull
<1> DEFINE pushed == Append(pendingCancellations, id)
           full == Len(pushed) > Remembered
<1>b. /\ pendingCancellations' = IF full THEN Tail(pushed) ELSE pushed
      /\ forgotten' = (forgotten \ {id}) \union (IF full THEN {Head(pushed)} ELSE {})
      /\ requested' = requested \union {id}
      /\ id \notin Pending
  BY DEF CancelEarly, PushBack, IsFull
<1>c. /\ Pending = Elements(pendingCancellations)
      /\ Pending' = Elements(pendingCancellations')
      /\ pendingCancellations \in Seq(Ids)
      /\ Distinct(pendingCancellations)
      /\ Len(pendingCancellations) \in Nat
      /\ Len(pendingCancellations) <= Remembered
  BY DEF Pending, Elements, Distinct, CancellationTable, TypeOK
<1>d. /\ pushed \in Seq(Ids)
      /\ Len(pushed) = Len(pendingCancellations) + 1
      /\ Elements(pushed) = Pending \union {id}
      /\ Distinct(pushed)
  BY <1>b, <1>c, AppendElement
<1> HIDE DEF pushed
<1>e. ASSUME ~full
      PROVE  CancellationTable' /\ NoLostCancellation' /\ StillWaits'
  <2>1. /\ Pending' = Pending \union {id}
        /\ forgotten' = forgotten \ {id}
        /\ pendingCancellations' = pushed
        /\ Len(pushed) <= Remembered
    BY <1>b, <1>c, <1>d, <1>e
  <2>2. CancellationTable'
    BY <1>b, <1>d, <2>1 DEF CancellationTable, Distinct, CancelEarly, PushBack, Runs,
           TypeOK, RegisteredRequest, IsFull
  <2>3. NoLostCancellation'
    BY <1>a, <1>b, <2>1 DEF NoLostCancellation, IsCancellable, RegisteredSteps,
           CancelEarly, PushBack, callVars, IsFull
  <2>4. StillWaits'
    BY <1>b, <2>1 DEF StillWaits, CancelEarly, PushBack, callVars, IsFull
  <2> QED BY <2>2, <2>3, <2>4
<1>f. ASSUME full
      PROVE  CancellationTable' /\ NoLostCancellation' /\ StillWaits'
  <2> DEFINE oldest == Head(pushed)
  <2>1. pushed # <<>>
    BY <1>c, <1>d
  <2>2. /\ Tail(pushed) \in Seq(Ids)
        /\ Len(Tail(pushed)) = Len(pendingCancellations)
        /\ oldest \in Pending \union {id}
        /\ Elements(Tail(pushed)) = (Pending \union {id}) \ {oldest}
        /\ Distinct(Tail(pushed))
    BY <1>c, <1>d, <2>1, TailElement
  <2>3. /\ pendingCancellations' = Tail(pushed)
        /\ Pending' = (Pending \union {id}) \ {oldest}
        /\ forgotten' = (forgotten \ {id}) \union {oldest}
    BY <1>b, <1>c, <1>f, <2>2
  <2>4. oldest \in Ids
    BY <2>2 DEF Pending, TypeOK
  <2> HIDE DEF oldest
  <2>5. CancellationTable'
    <3>1. /\ ~Runs(id) /\ requested' = requested \union {id}
          /\ runningRequest' = runningRequest /\ CancellationTable /\ RegisteredRequest /\ TypeOK
      BY <1>b DEF CancelEarly, PushBack, callVars
    <3>2. Len(pendingCancellations') <= Remembered
      BY <2>2, <2>3, <3>1 DEF CancellationTable
    <3>3. \A i, j \in 1..Len(pendingCancellations') :
            pendingCancellations'[i] = pendingCancellations'[j] => i = j
      BY <2>2, <2>3 DEF Distinct
    <3>4. runningRequest' \notin Pending'
      BY <1>b, <2>3, <3>1 DEF CancellationTable, Runs, RegisteredRequest, TypeOK
    <3>5. Pending' \subseteq requested' \ forgotten'
      BY <2>2, <2>3, <3>1 DEF CancellationTable
    <3> QED BY <3>2, <3>3, <3>4, <3>5 DEF CancellationTable
  <2>6. NoLostCancellation'
    BY <1>a, <1>b, <2>3 DEF NoLostCancellation, IsCancellable, RegisteredSteps,
           CancelEarly, PushBack, callVars, IsFull
  <2>7. StillWaits'
    BY <1>b, <2>3 DEF StillWaits, CancelEarly, PushBack, callVars, IsFull
  <2> QED BY <2>5, <2>6, <2>7
<1>g. CancellationTable' /\ NoLostCancellation' /\ StillWaits'
  BY <1>e, <1>f
<1>1. TypeOK'
  <2>1. pendingCancellations' \in Seq(Ids)
    BY <1>b, <1>c, <1>d, TailElement DEF Elements
  <2>2. forgotten' \in SUBSET Ids
    <3>1. full => Head(pushed) \in Ids
      BY <1>c, <1>d
    <3> QED BY <1>b, <3>1 DEF TypeOK
  <2> QED BY <2>1, <2>2 DEF TypeOK, CancelEarly, PushBack, callVars, IsFull
<1>2. OneOperation' /\ CallsFit'
  BY DEF OneOperation, CallsFit, TypeOK, InsideSteps, Steps, IsCancellable,
         CancelEarly, PushBack, Runs, Goto, callVars, cancelVars, historyVars, IsFull
<1>3. CancellationTable'
  BY <1>g
<1>4. StillWaits'
  BY <1>g
<1>5. NoLostCancellation'
  BY <1>g
<1>6. RegisteredRequest'
  BY DEF RegisteredRequest, TypeOK, IsCancellable, RegisteredSteps, CancelEarly, PushBack,
         Runs, Goto, callVars, cancelVars, historyVars, IsFull
<1>7. CancelledOnlyOnRequest' /\ ContextInUse' /\ OutcomeFits'
  BY DEF CancelledOnlyOnRequest, ContextInUse, OutcomeFits, TypeOK, IsCancellable,
         RegisteredSteps, NoOutcome, CancelEarly, PushBack, Runs, Goto, callVars, cancelVars,
         historyVars, IsFull
<1> QED BY <1>1, <1>2, <1>3, <1>4, <1>5, <1>6, <1>7

(* The invariant holds initially.                                          *)
LEMMA InitInv == Init => Inv
<1> SUFFICES ASSUME Init
             PROVE  Inv
  OBVIOUS
<1> USE BridgeAssumption DEF Init
<1>1. TypeOK
  <2>1. NoOutcome \in BackendResults /\ NoResult \in Results /\ "idle" \in Steps
    BY DEF Steps, BackendResults, Results, Statuses, NoOutcome, NoResult
  <2>2. <<>> \in Seq(Ids)
    OBVIOUS
  <2> QED BY <2>1, <2>2 DEF TypeOK
<1>2. OneOperation /\ CallsFit
  BY DEF OneOperation, InsideSteps, CallsFit, NoCall, IsCancellable
<1>3. RegisteredRequest /\ CancellationTable /\ NoLostCancellation /\ StillWaits
  BY DEF RegisteredRequest, CancellationTable, NoLostCancellation, StillWaits,
         Pending, IsCancellable, RegisteredSteps
<1>4. CancelledOnlyOnRequest /\ ContextInUse /\ OutcomeFits
  BY DEF CancelledOnlyOnRequest, ContextInUse, OutcomeFits, RegisteredSteps
<1> QED BY <1>1, <1>2, <1>3, <1>4 DEF Inv

(* Every step keeps the invariant.                                         *)
LEMMA NextInv == Inv /\ [Next]_vars => Inv'
<1> SUFFICES ASSUME Inv, [Next]_vars
             PROVE  Inv'
  OBVIOUS
<1>1. ASSUME NEW t \in Threads, NEW c \in Calls, Submit(t, c)
      PROVE  Inv'
  BY <1>1, KeepSubmit
<1>2. ASSUME NEW t \in Threads, Acquire(t)
      PROVE  Inv'
  BY <1>2, KeepAcquire
<1>3. ASSUME NEW t \in Threads, Proceed(t)
      PROVE  Inv'
  BY <1>3, KeepRejectSession, KeepRejectArguments, KeepAccept, KeepBeginCancelled,
     KeepBeginRegistered, KeepEnterBackend, KeepBackendReturns, KeepEndCancellable,
     KeepCopyResult, KeepCopyFails, KeepResetCompletion, KeepReturn
     DEF Proceed
<1>4. ASSUME NEW id \in Ids, Cancel(id)
      PROVE  Inv'
  BY <1>4, KeepCancelRunning, KeepCancelAgain, KeepCancelEarly DEF Cancel
<1>5. CASE UNCHANGED vars
  BY <1>5 DEF vars, callVars, cancelVars, historyVars, Inv, TypeOK, OneOperation,
     RegisteredRequest, CancellationTable, NoLostCancellation, CancelledOnlyOnRequest,
     ContextInUse, CallsFit, StillWaits, OutcomeFits, IsCancellable, Pending
<1> QED BY <1>1, <1>2, <1>3, <1>4, <1>5 DEF Next

(* In every reachable state of the bridge the invariant holds.             *)
THEOREM Invariance == Spec => []Inv
BY InitInv, NextInv, PTL DEF Spec

(* Every variable keeps its type.                                          *)
THEOREM TypeCorrect == Spec => []TypeOK
<1>1. Inv => TypeOK
  BY DEF Inv
<1> QED BY <1>1, Invariance, PTL

(* Compiler operations execute in sequence, however many threads call the  *)
(* bridge (SwiftCompilerBridge.cpp, operationMutex).                       *)
THEOREM OperationsInSequence == Spec => []OneOperation
<1>1. Inv => OneOperation
  BY DEF Inv
<1> QED BY <1>1, Invariance, PTL

(* A cancellation that was not pushed out of the list reaches its request, *)
(* whichever of the two came first (beginCancellable and                   *)
(* swift_compiler_cancel_completion).                                      *)
THEOREM CancellationsArrive == Spec => []NoLostCancellation
<1>1. Inv => NoLostCancellation
  BY DEF Inv
<1> QED BY <1>1, Invariance, PTL

(* No request is stopped by the cancellation of another one.               *)
THEOREM CancellationsAreIsolated == Spec => []CancelledOnlyOnRequest
<1>1. Inv => CancelledOnlyOnRequest
  BY DEF Inv
<1> QED BY <1>1, Invariance, PTL

(* The table stays within rememberedCancellations and without repetitions. *)
THEOREM TableBounded == Spec => []CancellationTable
<1>1. Inv => CancellationTable
  BY DEF Inv
<1> QED BY <1>1, Invariance, PTL

(* A completion never loses its context to a reset.                        *)
THEOREM ContextSurvives == Spec => []ContextInUse
<1>1. Inv => ContextInUse
  BY DEF Inv
<1> QED BY <1>1, Invariance, PTL

(* After a native failure no call enters a backend, and nothing makes the  *)
(* session reusable again (copyResult, invoke, sessionFailure).            *)
THEOREM PoisonStays == Spec => PoisonIsFinal
<1> DEFINE Final ==
      ~sessionReusable =>
        /\ ~sessionReusable'
        /\ \A t \in Threads : pc'[t] = "running" => pc[t] = "running"
<1>1. Inv /\ [Next]_vars => [Final]_vars
  <2> SUFFICES ASSUME Inv, Next, ~sessionReusable
               PROVE  /\ ~sessionReusable'
                      /\ \A t \in Threads : pc'[t] = "running" => pc[t] = "running"
    OBVIOUS
  <2> USE DEF Inv, TypeOK, OutcomeFits, Goto, callVars, cancelVars, historyVars
  <2>1. ASSUME NEW t \in Threads, NEW c \in Calls, Submit(t, c)
        PROVE  Final
    BY <2>1 DEF Submit
  <2>2. ASSUME NEW t \in Threads, Acquire(t)
        PROVE  Final
    BY <2>2 DEF Acquire, IsFree
  <2>3. ASSUME NEW t \in Threads, Proceed(t)
        PROVE  Final
    BY <2>3 DEF Proceed, RejectSession, RejectArguments, AnswerEarly, Accept,
           BeginCancelled, BeginRegistered, EnterBackend, BackendReturns,
           EndCancellable, CopyResult, CopyFails, ResetCompletion, Return, CanRun,
           FindsPending, UsableWithoutCopy, Unlocked
  <2>4. ASSUME NEW id \in Ids, Cancel(id)
        PROVE  Final
    BY <2>4 DEF Cancel, CancelRunning, CancelAgain, CancelEarly, PushBack, Stored, IsFull
  <2> QED BY <2>1, <2>2, <2>3, <2>4 DEF Next
<1> QED BY <1>1, Invariance, PTL DEF Spec, PoisonIsFinal
-----------------------------------------------------------------------------
(* The bound of the table.  It can lose a cancellation only when it is     *)
(* full, and it cannot be full of identifiers that nobody cancelled.       *)

(* A sequence without repetitions has as many elements as positions.       *)
LEMMA DistinctCardinality ==
  ASSUME NEW S, NEW s \in Seq(S), Distinct(s)
  PROVE  IsFiniteSet(Elements(s)) /\ Cardinality(Elements(s)) = Len(s)
<1> DEFINE f == [i \in 1..Len(s) |-> s[i]]
<1>1. Len(s) \in Nat
  OBVIOUS
<1>2. IsFiniteSet(1..Len(s)) /\ Cardinality(1..Len(s)) = Len(s)
  <2>1. 1 \in Int /\ Len(s) \in Int
    BY <1>1
  <2>2. /\ IsFiniteSet(1..Len(s))
        /\ Cardinality(1..Len(s)) = IF 1 > Len(s) THEN 0 ELSE Len(s) - 1 + 1
    BY ONLY <2>1, FS_Interval
  <2> QED BY <1>1, <2>2
<1>3. f \in Injection(1..Len(s), Elements(s)) /\ f \in Surjection(1..Len(s), Elements(s))
  BY DEF Injection, Surjection, IsInjective, Elements, Distinct
<1> HIDE DEF f
<1> QED BY <1>2, <1>3, FS_Surjection

(* What one call of swift_compiler_cancel_completion does to a table that  *)
(* does not know the identifier: when it pushes the oldest one out, the    *)
(* table and the new identifier together are more than the bound.          *)
LEMMA EarlyBeyondBound ==
  ASSUME Inv, NEW id \in Ids, CancelEarly(id)
  PROVE  /\ requested' = requested \union {id}
         /\ \/ forgotten' = forgotten \ {id}
            \/ /\ IsFiniteSet(Pending \union {id})
               /\ Cardinality(Pending \union {id}) = Remembered + 1
               /\ Pending \union {id} \subseteq requested'
               /\ IsFiniteSet(Pending')
               /\ Cardinality(Pending') = Remembered
<1> DEFINE pushed == Append(pendingCancellations, id)
<1>1. /\ Pending = Elements(pendingCancellations)
      /\ Pending' = Elements(pendingCancellations')
      /\ pendingCancellations \in Seq(Ids)
      /\ Distinct(pendingCancellations)
      /\ Len(pendingCancellations) \in Nat
      /\ Len(pendingCancellations) <= Remembered
      /\ Pending \subseteq requested
  BY DEF Inv, Pending, Elements, Distinct, CancellationTable, TypeOK
<1>2. /\ pushed \in Seq(Ids)
      /\ Len(pushed) = Len(pendingCancellations) + 1
      /\ Elements(pushed) = Pending \union {id}
      /\ Distinct(pushed)
  BY <1>1, AppendElement DEF CancelEarly, PushBack
<1>3. /\ requested' = requested \union {id}
      /\ pendingCancellations' = IF IsFull(pushed) THEN Tail(pushed) ELSE pushed
      /\ forgotten' = (forgotten \ {id}) \union (IF IsFull(pushed) THEN {Head(pushed)} ELSE {})
  BY DEF CancelEarly, PushBack
<1> HIDE DEF pushed
<1>4. CASE ~IsFull(pushed)
  BY <1>3, <1>4
<1>5. CASE IsFull(pushed)
  <2>1. Len(pushed) = Remembered + 1 /\ pushed # <<>>
    BY <1>1, <1>2, <1>5, BridgeAssumption DEF IsFull
  <2>2. /\ IsFiniteSet(Pending \union {id})
        /\ Cardinality(Pending \union {id}) = Remembered + 1
    BY <1>2, <2>1, DistinctCardinality
  <2>3. /\ pendingCancellations' = Tail(pushed)
        /\ Tail(pushed) \in Seq(Ids)
        /\ Distinct(Tail(pushed))
        /\ Len(Tail(pushed)) = Remembered
    BY <1>2, <1>3, <1>5, <2>1, TailElement, BridgeAssumption
  <2>4. IsFiniteSet(Pending') /\ Cardinality(Pending') = Remembered
    BY <1>1, <2>3, DistinctCardinality
  <2> QED BY <1>1, <1>3, <2>2, <2>4
<1> QED BY <1>4, <1>5

(* Only an early cancellation changes who was cancelled and who was pushed *)
(* out at once; a step of a call changes neither.                          *)
LEMMA HistoryStep ==
  ASSUME Inv, [Next]_vars
  PROVE  \/ UNCHANGED forgotten /\ (requested' = requested \/ \E id \in Ids : requested' = requested \union {id})
         \/ \E id \in Ids : CancelEarly(id)
<1>1. ASSUME NEW t \in Threads, NEW c \in Calls, Submit(t, c)
      PROVE  UNCHANGED <<requested, forgotten>>
  BY <1>1 DEF Submit
<1>2. ASSUME NEW t \in Threads, Acquire(t)
      PROVE  UNCHANGED <<requested, forgotten>>
  BY <1>2 DEF Acquire, historyVars
<1>3. ASSUME NEW t \in Threads, Proceed(t)
      PROVE  UNCHANGED <<requested, forgotten>>
  BY <1>3 DEF Proceed, RejectSession, RejectArguments, AnswerEarly, Accept,
         BeginCancelled, BeginRegistered, EnterBackend, BackendReturns,
         EndCancellable, CopyResult, CopyFails, ResetCompletion, Return, historyVars
<1>4. ASSUME NEW id \in Ids, CancelRunning(id) \/ CancelAgain(id)
      PROVE  UNCHANGED forgotten /\ requested' = requested \union {id}
  BY <1>4 DEF CancelRunning, CancelAgain
<1>5. CASE UNCHANGED vars
  BY <1>5 DEF vars, historyVars
<1> QED BY <1>1, <1>2, <1>3, <1>4, <1>5 DEF Next, Cancel

(* As long as no more identifiers were cancelled than the list remembers,  *)
(* nothing was pushed out.                                                 *)
FewAreKept ==
  /\ IsFiniteSet(requested)
  /\ Cardinality(requested) <= Remembered => forgotten = {}

LEMMA InitFew == Init => FewAreKept
BY FS_EmptySet DEF Init, FewAreKept

LEMMA NextFew == Inv /\ FewAreKept /\ [Next]_vars => FewAreKept'
<1> SUFFICES ASSUME Inv, FewAreKept, [Next]_vars
             PROVE  FewAreKept'
  OBVIOUS
<1> USE BridgeAssumption
<1>1. ASSUME NEW id \in Ids, requested' = requested \union {id}
      PROVE  /\ IsFiniteSet(requested')
             /\ Cardinality(requested) \in Nat
             /\ Cardinality(requested') \in Nat
             /\ Cardinality(requested) <= Cardinality(requested')
  <2>1. IsFiniteSet(requested')
    BY <1>1, FS_AddElement DEF FewAreKept
  <2>2. requested \in SUBSET requested'
    BY <1>1
  <2> QED BY <2>1, <2>2, FS_Subset, FS_CardinalityType DEF FewAreKept
<1>2. CASE UNCHANGED forgotten /\ requested' = requested
  BY <1>2 DEF FewAreKept
<1>3. ASSUME NEW id \in Ids, UNCHANGED forgotten, requested' = requested \union {id}
      PROVE  FewAreKept'
  BY <1>1, <1>3 DEF FewAreKept
<1>4. ASSUME NEW id \in Ids, CancelEarly(id)
      PROVE  FewAreKept'
  <2>1. requested' = requested \union {id}
    BY <1>4, EarlyBeyondBound
  <2>2. CASE forgotten' = forgotten \ {id}
    BY <1>1, <2>1, <2>2 DEF FewAreKept
  <2>3. CASE /\ Cardinality(Pending \union {id}) = Remembered + 1
             /\ Pending \union {id} \subseteq requested'
    <3>1. Cardinality(Pending \union {id}) <= Cardinality(requested')
      BY <1>1, <2>1, <2>3, FS_Subset
    <3> QED BY <1>1, <2>1, <2>3, <3>1 DEF FewAreKept
  <2> QED BY <1>4, <2>2, <2>3, EarlyBeyondBound
<1> QED BY <1>2, <1>3, <1>4, HistoryStep

(* While at most rememberedCancellations (64) identifiers have been        *)
(* cancelled, every cancellation reaches its request, with no exception: a *)
(* registered request whose identifier was cancelled has its flag set, and *)
(* one that has not begun finds its identifier in the list.                *)
THEOREM FewCancellationsArrive ==
  Spec => [](Cardinality(requested) <= Remembered =>
               \A t \in Threads :
                 IsCancellable(t) /\ call[t].id \in requested =>
                   /\ pc[t] \in RegisteredSteps => flag[t]
                   /\ pc[t] \in {"waiting", "entered", "beginning"} => call[t].id \in Pending)
<1> DEFINE Arrive ==
      Cardinality(requested) <= Remembered =>
        \A t \in Threads :
          IsCancellable(t) /\ call[t].id \in requested =>
            /\ pc[t] \in RegisteredSteps => flag[t]
            /\ pc[t] \in {"waiting", "entered", "beginning"} => call[t].id \in Pending
<1>1. Inv /\ FewAreKept => Arrive
  BY DEF Inv, FewAreKept, NoLostCancellation, StillWaits
<1>2. Spec => []FewAreKept
  BY InitFew, NextFew, Invariance, PTL DEF Spec
<1> QED BY <1>1, <1>2, Invariance, PTL

(* The list drops a cancellation only to make room: whenever an identifier *)
(* is pushed out, rememberedCancellations other ones stay in the list      *)
(* (pop_front in swift_compiler_cancel_completion).                        *)
ForgetsOnlyWhenFull ==
  [][ \A id \in forgotten' \ forgotten :
        /\ id \notin Pending'
        /\ IsFiniteSet(Pending')
        /\ Cardinality(Pending') = Remembered ]_vars

THEOREM OldestMakesRoom == Spec => ForgetsOnlyWhenFull
<1> DEFINE Room ==
      \A id \in forgotten' \ forgotten :
        /\ id \notin Pending'
        /\ IsFiniteSet(Pending')
        /\ Cardinality(Pending') = Remembered
<1>1. Inv /\ [Next]_vars => [Room]_vars
  <2> SUFFICES ASSUME Inv, [Next]_vars, NEW id \in forgotten' \ forgotten
               PROVE  /\ id \notin Pending'
                      /\ IsFiniteSet(Pending')
                      /\ Cardinality(Pending') = Remembered
    OBVIOUS
  <2>1. PICK new \in Ids : CancelEarly(new)
    BY HistoryStep
  <2>2. IsFiniteSet(Pending') /\ Cardinality(Pending') = Remembered
    BY <2>1, EarlyBeyondBound
  <2>3. CancellationTable'
    BY NextInv DEF Inv
  <2> QED BY <2>2, <2>3 DEF CancellationTable
<1> QED BY <1>1, Invariance, PTL DEF Spec, ForgetsOnlyWhenFull

-----------------------------------------------------------------------------
(* The order of the table.                                                 *)

(* Erasing a position keeps the order of the others.                       *)
LEMMA EraseOrder ==
  ASSUME NEW S, NEW s \in Seq(S), Distinct(s), NEW i \in 1..Len(s),
         NEW a \in Elements(Erase(s, i)), NEW b \in Elements(Erase(s, i))
  PROVE  Precedes(Erase(s, i), a, b) <=> Precedes(s, a, b)
<1> DEFINE e == Erase(s, i)
           n == Len(s) - 1
           from(m) == IF m < i THEN m ELSE m + 1
           to(m) == IF m < i THEN m ELSE m - 1
<1>1. n \in Nat /\ i \in 1..(n + 1) /\ Len(s) = n + 1
  OBVIOUS
<1>2. /\ Len(e) = n
      /\ a \in Elements(s) \ {s[i]} /\ b \in Elements(s) \ {s[i]}
  BY EraseElement
<1>3. \A m \in 1..n : e[m] = s[from(m)] /\ from(m) \in 1..(n + 1)
  BY <1>1 DEF Erase
<1>4. \A m \in 1..(n + 1) : m # i => to(m) \in 1..n /\ from(to(m)) = m
  BY <1>1
<1>5. \A k, m \in 1..n : k < m => from(k) < from(m)
  BY <1>1
<1>6. \A k, m \in 1..(n + 1) : k # i /\ m # i /\ k < m => to(k) < to(m)
  BY <1>1
<1> HIDE DEF e, n, from, to
<1>7. ASSUME Precedes(e, a, b) PROVE Precedes(s, a, b)
  <2>1. PICK k, m \in 1..n : k < m /\ e[k] = a /\ e[m] = b
    BY <1>2, <1>7 DEF Precedes
  <2>2. from(k) < from(m) /\ s[from(k)] = a /\ s[from(m)] = b
    BY <1>3, <1>5, <2>1
  <2>3. from(k) \in 1..Len(s) /\ from(m) \in 1..Len(s)
    BY <1>1, <1>3
  <2> QED BY <2>2, <2>3 DEF Precedes
<1>8. ASSUME Precedes(s, a, b) PROVE Precedes(e, a, b)
  <2>1. PICK k, m \in 1..(n + 1) : k < m /\ s[k] = a /\ s[m] = b
    BY <1>1, <1>8 DEF Precedes
  <2>2. k # i /\ m # i
    BY <1>2, <2>1
  <2>3. to(k) \in 1..n /\ to(m) \in 1..n /\ to(k) < to(m)
    BY <1>4, <1>6, <2>1, <2>2
  <2>4. e[to(k)] = a /\ e[to(m)] = b
    BY <1>3, <1>4, <2>1, <2>2, <2>3
  <2> QED BY <1>2, <2>3, <2>4 DEF Precedes
<1> QED BY <1>7, <1>8 DEF e

(* push_back keeps the order of the others and puts the new one last.      *)
LEMMA AppendOrder ==
  ASSUME NEW S, NEW s \in Seq(S), NEW x \in S, x \notin Elements(s), NEW a \in Elements(s)
  PROVE  /\ \A b \in Elements(s) : Precedes(Append(s, x), a, b) <=> Precedes(s, a, b)
         /\ Precedes(Append(s, x), a, x)
<1> DEFINE t == Append(s, x)
<1>1. /\ Len(s) \in Nat /\ Len(t) = Len(s) + 1 /\ t[Len(s) + 1] = x
      /\ \A m \in 1..Len(s) : t[m] = s[m] /\ m \in 1..Len(t)
  OBVIOUS
<1> HIDE DEF t
<1>2. \A m \in 1..Len(t) : t[m] \in Elements(s) => m \in 1..Len(s)
  BY <1>1
<1>3. \A b \in Elements(s) : Precedes(t, a, b) <=> Precedes(s, a, b)
  BY <1>1, <1>2 DEF Precedes
<1>4. Precedes(t, a, x)
  <2>1. PICK m \in 1..Len(s) : s[m] = a
    BY DEF Elements
  <2>2. /\ m \in 1..Len(t) /\ Len(s) + 1 \in 1..Len(t) /\ m < Len(s) + 1
        /\ t[m] = a /\ t[Len(s) + 1] = x
    BY <1>1, <2>1
  <2> QED BY <2>2 DEF Precedes
<1> QED BY <1>3, <1>4 DEF t

(* pop_front takes the first one and keeps the order of the others.        *)
LEMMA TailOrder ==
  ASSUME NEW S, NEW s \in Seq(S), Distinct(s), s # <<>>
  PROVE  /\ \A a, b \in Elements(Tail(s)) : Precedes(Tail(s), a, b) <=> Precedes(s, a, b)
         /\ \A b \in Elements(s) \ {Head(s)} : Precedes(s, Head(s), b)
<1> DEFINE t == Tail(s)
<1>1. /\ Len(s) \in Nat \ {0} /\ Len(t) = Len(s) - 1 /\ Head(s) = s[1]
      /\ \A m \in 1..(Len(s) - 1) : t[m] = s[m + 1]
  OBVIOUS
<1>2. Elements(t) = Elements(s) \ {s[1]}
  BY <1>1, TailElement
<1> HIDE DEF t
<1>3. ASSUME NEW a \in Elements(t), NEW b \in Elements(t), Precedes(t, a, b)
      PROVE  Precedes(s, a, b)
  <2>1. PICK k, m \in 1..(Len(s) - 1) : k < m /\ t[k] = a /\ t[m] = b
    BY <1>1, <1>3 DEF Precedes
  <2>2. /\ k + 1 \in 1..Len(s) /\ m + 1 \in 1..Len(s) /\ k + 1 < m + 1
        /\ s[k + 1] = a /\ s[m + 1] = b
    BY <1>1, <2>1
  <2> QED BY <2>2 DEF Precedes
<1>4. ASSUME NEW a \in Elements(t), NEW b \in Elements(t), Precedes(s, a, b)
      PROVE  Precedes(t, a, b)
  <2>1. PICK k, m \in 1..Len(s) : k < m /\ s[k] = a /\ s[m] = b
    BY <1>4 DEF Precedes
  <2>2. k # 1 /\ m # 1
    BY <1>2, <2>1
  <2>3. /\ k - 1 \in 1..(Len(s) - 1) /\ m - 1 \in 1..(Len(s) - 1) /\ k - 1 < m - 1
        /\ (k - 1) + 1 = k /\ (m - 1) + 1 = m
    BY <1>1, <2>1, <2>2
  <2>4. t[k - 1] = a /\ t[m - 1] = b
    BY <1>1, <2>1, <2>3
  <2> QED BY <1>1, <2>3, <2>4 DEF Precedes
<1>5. ASSUME NEW b \in Elements(s) \ {s[1]} PROVE Precedes(s, s[1], b)
  <2>1. PICK m \in 1..Len(s) : s[m] = b
    BY <1>5 DEF Elements
  <2>2. 1 \in 1..Len(s) /\ 1 < m
    BY <1>1, <1>5, <2>1
  <2> QED BY <2>1, <2>2 DEF Precedes
<1> QED BY <1>1, <1>3, <1>4, <1>5 DEF t

(* The one step that adds to the table.                                    *)
LEMMA EarlyInOrder ==
  ASSUME Inv, NEW id \in Ids, CancelEarly(id)
  PROVE  InOrder
<1> DEFINE list == pendingCancellations
           pushed == Append(list, id)
<1>1. /\ Pending = Elements(list) /\ Pending' = Elements(list')
      /\ list \in Seq(Ids) /\ Distinct(list) /\ id \notin Elements(list)
      /\ Len(list) \in Nat /\ Len(list) <= Remembered
  BY DEF Inv, Pending, Elements, Distinct, CancellationTable, TypeOK, CancelEarly, PushBack
<1>2. /\ pushed \in Seq(Ids) /\ Distinct(pushed)
      /\ Len(pushed) = Len(list) + 1
      /\ Elements(pushed) = Elements(list) \union {id}
  BY <1>1, AppendElement
<1>3. \A a \in Elements(list) :
        /\ \A b \in Elements(list) : Precedes(pushed, a, b) <=> Precedes(list, a, b)
        /\ Precedes(pushed, a, id)
  BY <1>1, AppendOrder
<1>4. /\ list' = IF IsFull(pushed) THEN Tail(pushed) ELSE pushed
      /\ forgotten' = (forgotten \ {id}) \union (IF IsFull(pushed) THEN {Head(pushed)} ELSE {})
  BY DEF CancelEarly, PushBack
<1>5. CASE ~IsFull(pushed)
  <2> HIDE DEF pushed, list
  <2>1. Elements(list') = Elements(list) \union {id} /\ list' = pushed
        /\ forgotten' = forgotten \ {id}
    BY <1>2, <1>4, <1>5
  <2> QED BY <1>1, <1>3, <2>1 DEF InOrder, list
<1>6. CASE IsFull(pushed)
  <2>1. Len(list) = Remembered /\ Remembered \in Nat \ {0} /\ Len(pushed) # 0
    BY <1>1, <1>2, <1>6, BridgeAssumption DEF IsFull
  <2>2. pushed # <<>> /\ Head(pushed) = list[1] /\ list[1] \in Elements(list)
    BY <1>1, <1>2, <2>1 DEF Elements
  <2> HIDE DEF pushed, list
  <2>3. /\ list' = Tail(pushed) /\ forgotten' = (forgotten \ {id}) \union {Head(pushed)}
        /\ Elements(list') = Elements(pushed) \ {Head(pushed)}
    BY <1>2, <1>4, <1>6, <2>2, TailElement
  <2>4. /\ \A a, b \in Elements(list') : Precedes(list', a, b) <=> Precedes(pushed, a, b)
        /\ \A b \in Elements(pushed) \ {Head(pushed)} : Precedes(pushed, Head(pushed), b)
    BY <1>2, <2>2, <2>3, TailOrder
  <2>5. \A a, b \in Pending \intersect Pending' : Precedes(list', a, b) <=> Precedes(list, a, b)
    BY <1>1, <1>3, <2>4
  <2>6. \A a \in Pending \intersect Pending', b \in Pending' \ Pending : Precedes(list', a, b)
    BY <1>1, <1>2, <1>3, <2>3, <2>4
  <2>7. \A a \in forgotten' \ forgotten :
          a \in Pending /\ \A b \in Pending \ {a} : Precedes(list, a, b)
    BY <1>1, <1>2, <1>3, <2>2, <2>3, <2>4
  <2> QED BY <2>5, <2>6, <2>7 DEF InOrder, list
<1> QED BY <1>5, <1>6

LEMMA NextInOrder == Inv /\ [Next]_vars => InOrder
<1> SUFFICES ASSUME Inv, [Next]_vars PROVE InOrder
  OBVIOUS
<1>1. ASSUME UNCHANGED <<pendingCancellations, forgotten>> PROVE InOrder
  BY <1>1 DEF InOrder, Pending
<1>2. ASSUME NEW t \in Threads, NEW c \in Calls, Submit(t, c) PROVE InOrder
  BY <1>1, <1>2 DEF Submit, cancelVars
<1>3. ASSUME NEW t \in Threads, Acquire(t) PROVE InOrder
  BY <1>1, <1>3 DEF Acquire, cancelVars, historyVars
<1>4. ASSUME NEW t \in Threads, BeginCancelled(t) PROVE InOrder
  <2> DEFINE list == pendingCancellations
  <2>1. /\ Pending = Elements(list) /\ Pending' = Elements(list')
        /\ list \in Seq(Ids) /\ Distinct(list)
    BY DEF Inv, Pending, Elements, Distinct, CancellationTable, TypeOK
  <2>2. PICK i \in 1..Len(list) : list' = Erase(list, i)
    BY <1>4 DEF BeginCancelled
  <2>3. forgotten' = forgotten
    BY <1>4 DEF BeginCancelled, historyVars
  <2> HIDE DEF list
  <2>4. Elements(list') \in SUBSET Elements(list)
    BY <2>1, <2>2, EraseElement
  <2>5. \A a, b \in Elements(list') : Precedes(list', a, b) <=> Precedes(list, a, b)
    BY <2>1, <2>2, EraseOrder
  <2> QED BY <2>1, <2>3, <2>4, <2>5 DEF InOrder, list
<1>5. ASSUME NEW t \in Threads, Proceed(t), ~BeginCancelled(t) PROVE InOrder
  BY <1>1, <1>5 DEF Proceed, RejectSession, RejectArguments, AnswerEarly, Accept,
     BeginRegistered, EnterBackend, BackendReturns,
     EndCancellable, CopyResult, CopyFails, ResetCompletion, Return, historyVars, cancelVars
<1>6. ASSUME NEW id \in Ids, CancelRunning(id) \/ CancelAgain(id) PROVE InOrder
  BY <1>1, <1>6 DEF CancelRunning, CancelAgain, cancelVars
<1>7. ASSUME UNCHANGED vars PROVE InOrder
  BY <1>1, <1>7 DEF vars, cancelVars, historyVars
<1> QED BY <1>2, <1>3, <1>4, <1>5, <1>6, <1>7, EarlyInOrder DEF Next, Cancel

(* For every bound the table is first in, first out (push_back, pop_front  *)
(* and erase in beginCancellable and swift_compiler_cancel_completion).    *)
(* What the header calls the most recent cancellations are those that were *)
(* first asked for most recently.                                          *)
THEOREM TableIsQueue == Spec => FirstInFirstOut
<1>1. Inv /\ [Next]_vars => [InOrder]_vars
  BY NextInOrder
<1> QED BY <1>1, Invariance, PTL DEF Spec, FirstInFirstOut

-----------------------------------------------------------------------------
(* The refinement of the serial session.                                   *)

(* A step of the bridge's pc is a step of the session's stage, or none.    *)
LEMMA StageStep ==
  ASSUME pc \in [Threads -> Steps], NEW t \in Threads, NEW from \in Steps,
         NEW to \in Steps, Goto(t, from, to)
  PROVE  /\ [u \in Threads |-> AbstractStage(pc[u])][t] = AbstractStage(from)
         /\ [u \in Threads |-> AbstractStage(pc'[u])]
              = [[u \in Threads |-> AbstractStage(pc[u])] EXCEPT ![t] = AbstractStage(to)]
<1>1. pc[t] = from /\ pc' = [pc EXCEPT ![t] = to]
  BY DEF Goto
<1>2. \A u \in Threads : pc'[u] = IF u = t THEN to ELSE pc[u]
  BY <1>1
<1> QED BY <1>1, <1>2

(* The stages, value by value.                                             *)
LEMMA StageValues ==
  /\ AbstractStage("idle") = "away"
  /\ AbstractStage("returning") = "answered"
  /\ \A step \in Steps \ {"idle", "returning"} : AbstractStage(step) = "asked"
BY DEF AbstractStage, Steps

(* A step between two inner positions shows nothing to the session.        *)
LEMMA InnerStep ==
  ASSUME pc \in [Threads -> Steps], NEW t \in Threads,
         NEW from \in Steps \ {"idle", "returning"}, NEW to \in Steps \ {"idle", "returning"},
         Goto(t, from, to), UNCHANGED <<call, result, sessionReusable, requested>>
  PROVE  UNCHANGED Session!vars
<1>1. \A u \in Threads : AbstractStage(pc'[u]) = AbstractStage(pc[u])
  BY StageValues DEF Goto
<1> QED BY <1>1 DEF Session!vars

(* Each step of the bridge is a step of the serial session or leaves it    *)
(* alone: submission asks, copying serves, returning leaves.               *)
LEMMA SessionStep == Inv /\ [Next]_vars => [Session!Next]_(Session!vars)
<1> SUFFICES ASSUME Inv, [Next]_vars
             PROVE  Session!Next \/ UNCHANGED Session!vars
  OBVIOUS
<1>0. pc \in [Threads -> Steps]
  BY DEF Inv, TypeOK
<1>1. ASSUME NEW t \in Threads, NEW c \in Calls, Submit(t, c)
      PROVE  Session!Ask(t, c)
  <2>1. Goto(t, "idle", "waiting") /\ "idle" \in Steps /\ "waiting" \in Steps
    BY <1>1 DEF Submit, Steps
  <2>2. /\ [u \in Threads |-> AbstractStage(pc[u])][t] = "away"
        /\ [u \in Threads |-> AbstractStage(pc'[u])]
             = [[u \in Threads |-> AbstractStage(pc[u])] EXCEPT ![t] = "asked"]
    BY <1>0, <2>1, StageStep, StageValues
  <2> QED BY <1>1, <2>2 DEF Submit, Session!Ask
<1>2. ASSUME NEW t \in Threads,
             \/ Acquire(t) \/ RejectSession(t) \/ RejectArguments(t) \/ Accept(t)
             \/ BeginCancelled(t) \/ BeginRegistered(t) \/ EnterBackend(t)
             \/ (\E r \in BackendResults : BackendReturns(t, r)) \/ EndCancellable(t)
      PROVE  UNCHANGED Session!vars
  <2>1. UNCHANGED <<call, result, sessionReusable, requested>>
    BY <1>2 DEF Acquire, RejectSession, RejectArguments, AnswerEarly, Accept,
           BeginCancelled, BeginRegistered, EnterBackend, BackendReturns,
           EndCancellable, historyVars, IsFree, CanRun, FindsPending
  <2>2. \E from, to \in Steps \ {"idle", "returning"} : Goto(t, from, to)
    BY <1>2 DEF Steps, Acquire, RejectSession, RejectArguments, AnswerEarly,
           Accept, BeginCancelled, BeginRegistered, EnterBackend, BackendReturns,
           EndCancellable, IsFree, CanRun, FindsPending
  <2> QED BY <1>0, <2>1, <2>2, InnerStep
<1>3. ASSUME NEW t \in Threads, CopyResult(t) \/ CopyFails(t) \/ ResetCompletion(t)
      PROVE  Session!Next
  <2>1. \E from \in {"entered", "copying"} : Goto(t, from, "returning")
    BY <1>3 DEF CopyResult, CopyFails, ResetCompletion, UsableWithoutCopy
  <2>2. /\ [u \in Threads |-> AbstractStage(pc[u])][t] = "asked"
        /\ [u \in Threads |-> AbstractStage(pc'[u])]
             = [[u \in Threads |-> AbstractStage(pc[u])] EXCEPT ![t] = "answered"]
    <3>1. "entered" \in Steps /\ "copying" \in Steps /\ "returning" \in Steps
      BY DEF Steps
    <3> QED BY <1>0, <2>1, <3>1, StageStep, StageValues
  <2>3. CASE ResetCompletion(t)
    BY <2>2, <2>3 DEF ResetCompletion, historyVars, Session!Next, Session!ServeReset
  <2>4. CASE CopyFails(t)
    <3>1. call[t].op # "reset"
      BY <2>4 DEF Inv, CallsFit, CopyFails, Goto, UsableWithoutCopy
    <3>2. Session!Serve(t, "none", FALSE)
      BY <2>2, <2>4, <3>1 DEF CopyFails, historyVars, Session!Serve, UsableWithoutCopy
    <3> QED BY <3>2 DEF Session!Next
  <2>5. CASE CopyResult(t)
    <3> DEFINE again == sessionReusable /\ outcome[t].canRunAgain
               status == outcome[t].status
    <3>1. /\ pc[t] = "copying"
          /\ sessionReusable' = again
          /\ result' = [result EXCEPT ![t] = [status |-> status, canRunAgain |-> again]]
          /\ UNCHANGED <<call, requested>>
      BY <2>5 DEF CopyResult, Goto, callVars, historyVars
    <3>2. call[t].op # "reset"
      BY <3>1 DEF Inv, CallsFit
    <3>3. outcome[t] \in BackendResults /\ sessionReusable \in BOOLEAN
      BY DEF Inv, TypeOK
    <3>4. status \in Statuses /\ again \in BOOLEAN
      BY <3>3 DEF BackendResults
    <3>5. /\ ~sessionReusable \/ ~call[t].valid => status \in {"failure", "none"}
          /\ sessionReusable /\ ~again => call[t].op \in Poisoning
      BY <3>1, <3>3 DEF Inv, OutcomeFits, BackendResults
    <3>6. status = "cancelled" => call[t].op \in CancellableOperations /\ call[t].id \in requested
      BY <3>1, <3>4 DEF Inv, OutcomeFits, CancelledOnlyOnRequest, IsCancellable
    <3>7. status # "none"
      BY <3>4 DEF Statuses
    <3>8. ~sessionReusable => ~again
      OBVIOUS
    <3> HIDE DEF again, status
    <3>9. Session!Serve(t, status, again)
      BY <2>2, <3>1, <3>2, <3>5, <3>6, <3>7, <3>8 DEF Session!Serve
    <3> QED BY <3>4, <3>9 DEF Session!Next, Statuses
  <2> QED BY <1>3, <2>3, <2>4, <2>5
<1>4. ASSUME NEW t \in Threads, Return(t)
      PROVE  Session!Leave(t)
  <2>1. Goto(t, "returning", "idle") /\ "idle" \in Steps /\ "returning" \in Steps
    BY <1>4 DEF Return, Steps, Unlocked
  <2>2. /\ [u \in Threads |-> AbstractStage(pc[u])][t] = "answered"
        /\ [u \in Threads |-> AbstractStage(pc'[u])]
             = [[u \in Threads |-> AbstractStage(pc[u])] EXCEPT ![t] = "away"]
    BY <1>0, <2>1, StageStep, StageValues
  <2> QED BY <1>4, <2>2 DEF Return, historyVars, Session!Leave, Unlocked
<1>5. ASSUME NEW id \in Ids, Cancel(id)
      PROVE  Session!Cancel(id)
  <2>1. UNCHANGED <<pc, call, result, sessionReusable>> /\ requested' = requested \union {id}
    BY <1>5 DEF Cancel, CancelRunning, CancelAgain, CancelEarly, PushBack, callVars, Stored,
           IsFull
  <2> QED BY <2>1 DEF Session!Cancel
<1>6. CASE UNCHANGED vars
  BY <1>6 DEF vars, callVars, historyVars, Session!vars
<1> QED
  BY <1>1, <1>2, <1>3, <1>4, <1>5, <1>6 DEF Next, Proceed, Session!Next

(* The bridge is a serial session: whatever the interleaving of callers,   *)
(* cancellations and resets, each call takes effect at one instant, and    *)
(* an unusable session answers failure for ever.                           *)
THEOREM BridgeImplementsSession == Spec => ImplementsSession
<1>1. Init => Session!Init
  BY StageValues DEF Init, Session!Init
<1> QED BY <1>1, SessionStep, Invariance, PTL DEF Spec, ImplementsSession, Session!Spec

-----------------------------------------------------------------------------
(* The bridge's side of the contract with the backends.                    *)

TheFlag == IF runningCancellation = NoThread THEN FALSE ELSE flag[runningCancellation]

TheResult ==
  IF runningCancellation # NoThread /\ pc[runningCancellation] = "ending"
  THEN outcome[runningCancellation] ELSE NoResult

(* Nothing is registered while another kind of call, or another step of a  *)
(* call, holds the operation lock.                                         *)
LEMMA NothingRegistered ==
  ASSUME Inv, NEW t \in Threads, pc[t] \in InsideSteps,
         ~(IsCancellable(t) /\ pc[t] \in RegisteredSteps)
  PROVE  runningCancellation = NoThread
<1>1. \A u \in Threads : u # t => pc[u] \notin RegisteredSteps
  BY AloneInside DEF Inv, RegisteredSteps
<1> QED BY <1>1 DEF Inv, TypeOK, RegisteredRequest

(* A step of a thread that leaves the registration and its flag alone and  *)
(* neither enters nor leaves "ending" does not show to the backend.        *)
LEMMA QuietStep ==
  ASSUME Inv, UNCHANGED <<runningCancellation, flag, outcome>>,
         \A u \in Threads : runningCancellation = u => (pc'[u] = "ending" <=> pc[u] = "ending")
  PROVE  UNCHANGED <<TheFlag, TheResult>>
BY DEF Inv, TypeOK, TheFlag, TheResult

(* A step of the thread inside while nothing is registered, before and     *)
(* after, does not show either.                                            *)
LEMMA UnregisteredStep ==
  ASSUME runningCancellation = NoThread, UNCHANGED runningCancellation
  PROVE  UNCHANGED <<TheFlag, TheResult>>
BY DEF TheFlag, TheResult

LEMMA ContractStep ==
  Inv /\ [Next]_vars =>
    \/ UNCHANGED <<TheFlag, TheResult>>
    \/ TheFlag' = TRUE /\ TheResult' = TheResult
    \/ /\ TheResult = NoResult /\ TheFlag' = TheFlag
       /\ TheResult' \in [status : Statuses, canRunAgain : {TRUE}]
       /\ TheResult'.status = "cancelled" => TheFlag
    \/ TheResult # NoResult /\ TheFlag' = FALSE /\ TheResult' = NoResult
<1> SUFFICES ASSUME Inv, [Next]_vars
             PROVE  \/ UNCHANGED <<TheFlag, TheResult>>
                    \/ TheFlag' = TRUE /\ TheResult' = TheResult
                    \/ /\ TheResult = NoResult /\ TheFlag' = TheFlag
                       /\ TheResult' \in [status : Statuses, canRunAgain : {TRUE}]
                       /\ TheResult'.status = "cancelled" => TheFlag
                    \/ TheResult # NoResult /\ TheFlag' = FALSE /\ TheResult' = NoResult
  OBVIOUS
<1> TypeOK
  BY DEF Inv
<1> USE BridgeAssumption
<1>1. ASSUME NEW t \in Threads, \/ \E c \in Calls : Submit(t, c)
                                \/ Acquire(t)
                                \/ Accept(t)
                                \/ EnterBackend(t)
      PROVE  UNCHANGED <<TheFlag, TheResult>>
  <2>1. /\ UNCHANGED <<runningCancellation, flag, outcome>>
        /\ \A u \in Threads : pc'[u] = "ending" <=> pc[u] = "ending"
    BY <1>1 DEF Submit, Acquire, Accept, EnterBackend, Goto, cancelVars, TypeOK
  <2> QED BY <2>1, QuietStep
<1>2. ASSUME NEW t \in Threads,
             \/ RejectSession(t) \/ RejectArguments(t) \/ BeginCancelled(t)
             \/ CopyResult(t) \/ CopyFails(t) \/ ResetCompletion(t) \/ Return(t)
      PROVE  UNCHANGED <<TheFlag, TheResult>>
  <2>1. pc[t] \in InsideSteps \ RegisteredSteps /\ UNCHANGED runningCancellation
    BY <1>2 DEF RejectSession, RejectArguments, BeginCancelled, AnswerEarly, CopyResult,
           CopyFails, ResetCompletion, Return, Goto, InsideSteps, RegisteredSteps, Steps,
           cancelVars
  <2>2. runningCancellation = NoThread
    BY <2>1, NothingRegistered
  <2> QED BY <2>1, <2>2, UnregisteredStep
<1>3. ASSUME NEW t \in Threads, BeginRegistered(t)
      PROVE  UNCHANGED <<TheFlag, TheResult>>
  <2>1. pc[t] = "beginning" /\ pc'[t] = "calling" /\ runningCancellation' = t /\ flag'[t] = FALSE
    BY <1>3 DEF BeginRegistered, Goto, TypeOK
  <2>2. runningCancellation = NoThread
    BY <2>1, NothingRegistered DEF InsideSteps, RegisteredSteps, Steps
  <2> QED BY <2>1, <2>2 DEF TheFlag, TheResult
<1>4. ASSUME NEW t \in Threads, EndCancellable(t)
      PROVE  TheResult # NoResult /\ TheFlag' = FALSE /\ TheResult' = NoResult
  <2>1. pc[t] = "ending" /\ runningCancellation' = NoThread
    BY <1>4 DEF EndCancellable, Goto
  <2>2. runningCancellation = t /\ t # NoThread
    BY <2>1 DEF Inv, RegisteredRequest, CallsFit, RegisteredSteps
  <2>3. outcome[t] # NoResult
    BY DEF TypeOK, BackendResults, Statuses, NoResult
  <2> QED BY <2>1, <2>2, <2>3 DEF TheFlag, TheResult
<1>5. ASSUME NEW t \in Threads, NEW r \in BackendResults, BackendReturns(t, r)
      PROVE  \/ UNCHANGED <<TheFlag, TheResult>>
             \/ /\ TheResult = NoResult /\ TheFlag' = TheFlag
                /\ TheResult' \in [status : Statuses, canRunAgain : {TRUE}]
                /\ TheResult'.status = "cancelled" => TheFlag
  <2>1. /\ pc[t] = "running" /\ UNCHANGED <<runningCancellation, flag>>
        /\ pc'[t] = (IF IsCancellable(t) THEN "ending" ELSE "copying")
        /\ outcome'[t] = r
        /\ r.status = "cancelled" => flag[t]
        /\ ~r.canRunAgain => call[t].op \in Poisoning
    BY <1>5 DEF BackendReturns, Goto, cancelVars, TypeOK
  <2>2. CASE IsCancellable(t)
    <3>1. runningCancellation = t /\ t # NoThread
      BY <2>1, <2>2 DEF Inv, RegisteredRequest, RegisteredSteps
    <3>2. r.canRunAgain = TRUE
      BY <2>1, <2>2 DEF IsCancellable, CancellableOperations, Poisoning, BackendResults
    <3>3. r \in [status : Statuses, canRunAgain : {TRUE}]
      BY <3>2 DEF BackendResults
    <3> QED BY <2>1, <2>2, <3>1, <3>3 DEF TheFlag, TheResult
  <2>3. CASE ~IsCancellable(t)
    <3>1. runningCancellation = NoThread
      BY <2>1, <2>3, NothingRegistered DEF InsideSteps, Steps
    <3> QED BY <2>1, <3>1, UnregisteredStep
  <2> QED BY <2>2, <2>3
<1>6. ASSUME NEW id \in Ids, CancelRunning(id)
      PROVE  TheFlag' = TRUE /\ TheResult' = TheResult
  <2>1. /\ runningCancellation \in Threads /\ runningCancellation # NoThread
        /\ UNCHANGED <<runningCancellation, pc, outcome>>
        /\ flag' = [flag EXCEPT ![runningCancellation] = TRUE]
    BY <1>6 DEF CancelRunning, Runs, Stored, callVars, TypeOK
  <2> QED BY <2>1 DEF TheFlag, TheResult, TypeOK
<1>7. ASSUME NEW id \in Ids, CancelAgain(id) \/ CancelEarly(id)
      PROVE  UNCHANGED <<TheFlag, TheResult>>
  BY <1>7 DEF CancelAgain, CancelEarly, PushBack, callVars, cancelVars, TheFlag, TheResult
<1>8. CASE UNCHANGED vars
  BY <1>8 DEF vars, callVars, cancelVars, TheFlag, TheResult
<1>9. ASSUME NEW t \in Threads, Proceed(t)
      PROVE  \/ UNCHANGED <<TheFlag, TheResult>>
             \/ /\ TheResult = NoResult /\ TheFlag' = TheFlag
                /\ TheResult' \in [status : Statuses, canRunAgain : {TRUE}]
                /\ TheResult'.status = "cancelled" => TheFlag
             \/ TheResult # NoResult /\ TheFlag' = FALSE /\ TheResult' = NoResult
  BY <1>1, <1>2, <1>3, <1>4, <1>5, <1>9 DEF Proceed
<1> QED BY <1>1, <1>6, <1>7, <1>8, <1>9 DEF Next, Cancel

(* The bridge keeps its side of the contract with every backend: calls     *)
(* come one after another, each starts with a clear flag of its own, only  *)
(* a cancellation touches it, and it lasts until the result is in          *)
(* (beginCancellable, endCancellable; CompilerBackend.h 60-92).            *)
THEOREM BridgeServesBackend == Spec => ServesBackend
<1>1. Init => Backend!Init
  BY DEF Init, Backend!Init
<1>2. Inv /\ [Next]_vars =>
        [Backend!Next \/ Backend!Begin]_<<IF runningCancellation = NoThread THEN FALSE
                                          ELSE flag[runningCancellation],
                                          IF runningCancellation # NoThread
                                             /\ pc[runningCancellation] = "ending"
                                          THEN outcome[runningCancellation] ELSE NoResult>>
  BY ContractStep DEF TheFlag, TheResult, Statuses, Backend!Next, Backend!Begin, Backend!Cancel,
     Backend!End, Backend!Results, Backend!Statuses
<1> QED BY <1>1, <1>2, Invariance, PTL DEF Spec, ServesBackend, Backend!ServiceSpec

-----------------------------------------------------------------------------
(* Liveness.  The prover cannot evaluate ENABLED, so that the steps which  *)
(* fairness promises can be taken is a hypothesis, []CanProceed.  The rest *)
(* of the argument, which follows the holder of the lock from step to      *)
(* step, is proved here.                                                   *)

(* Whatever fairness promises can also be done: a free lock can be taken,  *)
(* the holder has a next step wherever it is between lock and unlock, and  *)
(* a backend that must end has an answer to give.                          *)
CanProceed ==
  /\ IsFree /\ (\E t \in Threads : pc[t] = "waiting") => ENABLED <<LockGranted>>_vars
  /\ (\E t \in Threads : pc[t] \in InsideSteps \ {"running"}) => ENABLED <<HolderProceeds>>_vars
  /\ (\E t \in Threads : MustEnd(t)) => ENABLED <<BackendEnds>>_vars

(* Where the steps of a call lead.                                         *)
Follows(step) ==
  CASE step = "entered"   -> {"beginning", "calling", "copying", "returning"}
    [] step = "beginning" -> {"calling", "copying"}
    [] step = "calling"   -> {"running"}
    [] step = "running"   -> {"ending", "copying"}
    [] step = "ending"    -> {"copying"}
    [] step = "copying"   -> {"returning"}
    [] OTHER              -> {"idle"}

(* A step of the holder leads to the next one, and the call stays the same *)
(* until it returns.                                                       *)
LEMMA ProceedMoves ==
  ASSUME Inv, NEW t \in Threads, Proceed(t)
  PROVE  /\ pc[t] \in InsideSteps
         /\ \E to \in Follows(pc[t]) :
              /\ pc' = [pc EXCEPT ![t] = to]
              /\ to # "idle" => call' = call
              /\ to = "idle" => operationMutex' = NoThread
         /\ UNCHANGED historyVars
<1> USE DEF Goto, InsideSteps, Steps, Follows, callVars, cancelVars, historyVars
<1>1. CASE RejectSession(t) \/ RejectArguments(t) \/ Accept(t) \/ ResetCompletion(t)
  BY <1>1 DEF RejectSession, RejectArguments, AnswerEarly, Accept, ResetCompletion
<1>2. CASE BeginCancelled(t) \/ BeginRegistered(t) \/ EnterBackend(t)
  BY <1>2 DEF BeginCancelled, BeginRegistered, EnterBackend
<1>3. CASE \E r \in BackendResults : BackendReturns(t, r)
  BY <1>3 DEF BackendReturns
<1>4. CASE EndCancellable(t) \/ CopyResult(t) \/ CopyFails(t)
  BY <1>4 DEF EndCancellable, CopyResult, CopyFails
<1>5. CASE Return(t)
  BY <1>5 DEF Return, Unlocked
<1> QED BY <1>1, <1>2, <1>3, <1>4, <1>5 DEF Proceed

(* Only the holder's own steps move it, and nobody else clears its flag.   *)
LEMMA HolderStays ==
  ASSUME Inv, [Next]_vars, NEW t \in Threads, pc[t] \in InsideSteps, ~Proceed(t)
  PROVE  /\ pc'[t] = pc[t] /\ call'[t] = call[t]
         /\ flag[t] => flag'[t]
         /\ requested \subseteq requested'
<1> USE DEF Inv, TypeOK, InsideSteps, Goto, callVars, cancelVars, historyVars
<1>1. CASE UNCHANGED vars
  BY <1>1 DEF vars
<1>2. ASSUME NEW u \in Threads, NEW c \in Calls, Submit(u, c)
      PROVE  /\ pc'[t] = pc[t] /\ call'[t] = call[t]
             /\ flag'[t] = flag[t] /\ requested' = requested
  BY <1>2 DEF Submit
<1>3. ASSUME NEW u \in Threads, Acquire(u)
      PROVE  /\ pc'[t] = pc[t] /\ call'[t] = call[t]
             /\ flag'[t] = flag[t] /\ requested' = requested
  BY <1>3 DEF Acquire
<1>4. ASSUME NEW u \in Threads, Proceed(u) PROVE FALSE
  BY <1>4, ProceedMoves, AloneInside
<1>5. ASSUME NEW id \in Ids, Cancel(id)
      PROVE  /\ pc' = pc /\ call' = call
             /\ flag[t] => flag'[t]
             /\ requested \subseteq requested'
  BY <1>5 DEF Cancel, CancelRunning, CancelAgain, CancelEarly, PushBack, Stored
<1> QED BY <1>1, <1>2, <1>3, <1>4, <1>5 DEF Next

(* A cancelled request on its way out of the bridge, the end of that way,  *)
(* and what comes after a step of it.                                      *)
Heading(t, step) ==
  pc[t] = step /\ IsCancellable(t) /\ call[t].id \in requested \ forgotten
Finished(t) == pc[t] = "idle" \/ call[t].id \in forgotten
HeadsOn(t, step) == Finished(t) \/ \E to \in Follows(step) : Heading(t, to)

LEMMA HeadingMoves ==
  ASSUME Inv, NEW t \in Threads, NEW step \in InsideSteps, Heading(t, step), Proceed(t)
  PROVE  HeadsOn(t, step)'
<1>1. PICK to \in Follows(step) :
        /\ pc' = [pc EXCEPT ![t] = to]
        /\ to # "idle" => call' = call
        /\ UNCHANGED historyVars
  BY ProceedMoves DEF Heading
<1>2. pc'[t] = to
  BY <1>1 DEF Inv, TypeOK
<1>3. CASE to = "idle"
  BY <1>2, <1>3 DEF HeadsOn, Finished
<1>4. CASE to # "idle"
  BY <1>1, <1>2, <1>4 DEF HeadsOn, Heading, IsCancellable, historyVars
<1> QED BY <1>3, <1>4

LEMMA HeadingStays ==
  ASSUME Inv, [Next]_vars, NEW t \in Threads, NEW step \in InsideSteps, Heading(t, step)
  PROVE  Heading(t, step)' \/ HeadsOn(t, step)'
<1>1. CASE Proceed(t)
  BY <1>1, HeadingMoves
<1>2. CASE ~Proceed(t)
  <2>1. pc'[t] = step /\ call'[t] = call[t] /\ requested \subseteq requested'
    BY <1>2, HolderStays DEF Heading
  <2> QED BY <2>1 DEF Heading, HeadsOn, Finished, IsCancellable
<1> QED BY <1>1, <1>2

(* A cancelled request that holds the lock goes from step to step until it *)
(* has returned: outside of the backend because the holder goes on, inside *)
(* of it because the flag is set, whatever the backend would have done     *)
(* without it (beginCancellable, endCancellable and                        *)
(* swift_compiler_cancel_completion).                                      *)
LEMMA HeadingEnds ==
  ASSUME Inv, CanProceed, NEW t \in Threads, NEW step \in InsideSteps, Heading(t, step)
  PROVE  /\ step # "running" => ENABLED <<HolderProceeds>>_vars
         /\ step # "running" /\ <<HolderProceeds>>_vars => HeadsOn(t, step)'
         /\ step = "running" => ENABLED <<BackendEnds>>_vars
         /\ step = "running" /\ <<BackendEnds>>_vars => HeadsOn(t, step)'
<1>1. step # "running" => ENABLED <<HolderProceeds>>_vars
  BY DEF CanProceed, Heading
<1>2. step = "running" => ENABLED <<BackendEnds>>_vars
  <2>1. step = "running" => MustEnd(t)
    BY DEF Inv, NoLostCancellation, Heading, MustEnd, RegisteredSteps
  <2> QED BY <2>1 DEF CanProceed
<1>3. ASSUME NEW u \in Threads, Proceed(u) PROVE HeadsOn(t, step)'
  <2>1. u = t
    BY <1>3, ProceedMoves, AloneInside DEF Inv, Heading, InsideSteps
  <2> QED BY <1>3, <2>1, HeadingMoves
<1>4. HolderProceeds \/ BackendEnds => HeadsOn(t, step)'
  BY <1>3 DEF HolderProceeds, BackendEnds, Proceed
<1> QED BY <1>1, <1>2, <1>4

THEOREM CancelledRequestsReturn == FairSpec /\ []CanProceed => CancelledRequestReturns
<1>1. ASSUME NEW t \in Threads
      PROVE  FairSpec /\ []CanProceed =>
               ((IsCancellable(t) /\ pc[t] \in InsideSteps /\ call[t].id \in requested \ forgotten)
                  ~> (pc[t] = "idle" \/ call[t].id \in forgotten))
  <2> DEFINE At(step) == Heading(t, step)
             On(step) == HeadsOn(t, step)
  <2>1. FairSpec /\ []CanProceed => (At("entered") ~> On("entered"))
    <3>1. Inv /\ [Next]_vars /\ At("entered") => At("entered")' \/ On("entered")'
      BY HeadingStays DEF InsideSteps, Steps
    <3>2. Inv /\ CanProceed /\ At("entered") => ENABLED <<HolderProceeds>>_vars
      BY HeadingEnds DEF InsideSteps, Steps
    <3>3. Inv /\ CanProceed /\ At("entered") /\ <<HolderProceeds>>_vars => On("entered")'
      BY HeadingEnds DEF InsideSteps, Steps
    <3> HIDE DEF At, On
    <3> QED BY <3>1, <3>2, <3>3, Invariance, PTL DEF FairSpec, Fairness, Spec
  <2>2. FairSpec /\ []CanProceed => (At("beginning") ~> On("beginning"))
    <3>1. Inv /\ [Next]_vars /\ At("beginning") => At("beginning")' \/ On("beginning")'
      BY HeadingStays DEF InsideSteps, Steps
    <3>2. Inv /\ CanProceed /\ At("beginning") => ENABLED <<HolderProceeds>>_vars
      BY HeadingEnds DEF InsideSteps, Steps
    <3>3. Inv /\ CanProceed /\ At("beginning") /\ <<HolderProceeds>>_vars => On("beginning")'
      BY HeadingEnds DEF InsideSteps, Steps
    <3> HIDE DEF At, On
    <3> QED BY <3>1, <3>2, <3>3, Invariance, PTL DEF FairSpec, Fairness, Spec
  <2>3. FairSpec /\ []CanProceed => (At("calling") ~> On("calling"))
    <3>1. Inv /\ [Next]_vars /\ At("calling") => At("calling")' \/ On("calling")'
      BY HeadingStays DEF InsideSteps, Steps
    <3>2. Inv /\ CanProceed /\ At("calling") => ENABLED <<HolderProceeds>>_vars
      BY HeadingEnds DEF InsideSteps, Steps
    <3>3. Inv /\ CanProceed /\ At("calling") /\ <<HolderProceeds>>_vars => On("calling")'
      BY HeadingEnds DEF InsideSteps, Steps
    <3> HIDE DEF At, On
    <3> QED BY <3>1, <3>2, <3>3, Invariance, PTL DEF FairSpec, Fairness, Spec
  <2>4. FairSpec /\ []CanProceed => (At("running") ~> On("running"))
    <3>1. Inv /\ [Next]_vars /\ At("running") => At("running")' \/ On("running")'
      BY HeadingStays DEF InsideSteps, Steps
    <3>2. Inv /\ CanProceed /\ At("running") => ENABLED <<BackendEnds>>_vars
      BY HeadingEnds DEF InsideSteps, Steps
    <3>3. Inv /\ CanProceed /\ At("running") /\ <<BackendEnds>>_vars => On("running")'
      BY HeadingEnds DEF InsideSteps, Steps
    <3> HIDE DEF At, On
    <3> QED BY <3>1, <3>2, <3>3, Invariance, PTL DEF FairSpec, Fairness, Spec
  <2>5. FairSpec /\ []CanProceed => (At("ending") ~> On("ending"))
    <3>1. Inv /\ [Next]_vars /\ At("ending") => At("ending")' \/ On("ending")'
      BY HeadingStays DEF InsideSteps, Steps
    <3>2. Inv /\ CanProceed /\ At("ending") => ENABLED <<HolderProceeds>>_vars
      BY HeadingEnds DEF InsideSteps, Steps
    <3>3. Inv /\ CanProceed /\ At("ending") /\ <<HolderProceeds>>_vars => On("ending")'
      BY HeadingEnds DEF InsideSteps, Steps
    <3> HIDE DEF At, On
    <3> QED BY <3>1, <3>2, <3>3, Invariance, PTL DEF FairSpec, Fairness, Spec
  <2>6. FairSpec /\ []CanProceed => (At("copying") ~> On("copying"))
    <3>1. Inv /\ [Next]_vars /\ At("copying") => At("copying")' \/ On("copying")'
      BY HeadingStays DEF InsideSteps, Steps
    <3>2. Inv /\ CanProceed /\ At("copying") => ENABLED <<HolderProceeds>>_vars
      BY HeadingEnds DEF InsideSteps, Steps
    <3>3. Inv /\ CanProceed /\ At("copying") /\ <<HolderProceeds>>_vars => On("copying")'
      BY HeadingEnds DEF InsideSteps, Steps
    <3> HIDE DEF At, On
    <3> QED BY <3>1, <3>2, <3>3, Invariance, PTL DEF FairSpec, Fairness, Spec
  <2>7. FairSpec /\ []CanProceed => (At("returning") ~> On("returning"))
    <3>1. Inv /\ [Next]_vars /\ At("returning") => At("returning")' \/ On("returning")'
      BY HeadingStays DEF InsideSteps, Steps
    <3>2. Inv /\ CanProceed /\ At("returning") => ENABLED <<HolderProceeds>>_vars
      BY HeadingEnds DEF InsideSteps, Steps
    <3>3. Inv /\ CanProceed /\ At("returning") /\ <<HolderProceeds>>_vars => On("returning")'
      BY HeadingEnds DEF InsideSteps, Steps
    <3> HIDE DEF At, On
    <3> QED BY <3>1, <3>2, <3>3, Invariance, PTL DEF FairSpec, Fairness, Spec
  <2>8. /\ On("entered") =>
             \/ Finished(t) \/ At("beginning") \/ At("calling")
             \/ At("copying") \/ At("returning")
        /\ On("beginning") => Finished(t) \/ At("calling") \/ At("copying")
        /\ On("calling") => Finished(t) \/ At("running")
        /\ On("running") => Finished(t) \/ At("ending") \/ At("copying")
        /\ On("ending") => Finished(t) \/ At("copying")
        /\ On("copying") => Finished(t) \/ At("returning")
        /\ On("returning") => Finished(t)
    BY DEF HeadsOn, Follows, Heading, Finished
  <2>9. /\ IsCancellable(t) /\ pc[t] \in InsideSteps /\ call[t].id \in requested \ forgotten =>
             \/ At("entered") \/ At("beginning") \/ At("calling") \/ At("running")
             \/ At("ending") \/ At("copying") \/ At("returning")
        /\ Finished(t) => pc[t] = "idle" \/ call[t].id \in forgotten
    BY DEF Heading, Finished, InsideSteps, Steps
  <2> HIDE DEF At, On
  <2> QED BY <2>1, <2>2, <2>3, <2>4, <2>5, <2>6, <2>7, <2>8, <2>9, PTL
<1> QED BY <1>1 DEF CancelledRequestReturns

(* Somebody waits for the lock; the lock is free meanwhile, or a request   *)
(* is on its way to free it; and what comes after a step of that request.  *)
SomebodyWaits == \E u \in Threads : pc[u] = "waiting"
SomebodyEnters == \E u \in Threads : pc[u] = "entered"
FreeForSomebody == IsFree /\ SomebodyWaits
Leaving(t, step) ==
  /\ pc[t] = step
  /\ step = "running" => IsCancellable(t) /\ flag[t]
  /\ SomebodyWaits
LeavesOn(t, step) ==
  FreeForSomebody \/ \E to \in Follows(step) : to # "idle" /\ Leaving(t, to)

LastSteps == {"running", "ending", "copying", "returning"}

(* A caller that waits goes on waiting until it has the lock.              *)
LEMMA WaiterStays ==
  ASSUME Inv, [Next]_vars, NEW u \in Threads, pc[u] = "waiting"
  PROVE  pc'[u] \in {"waiting", "entered"}
<1> USE DEF Inv, TypeOK, Goto
<1>1. CASE UNCHANGED vars
  BY <1>1 DEF vars, callVars
<1>2. ASSUME NEW t \in Threads, NEW c \in Calls, Submit(t, c)
      PROVE  pc'[u] = "waiting"
  BY <1>2 DEF Submit
<1>3. ASSUME NEW t \in Threads, Acquire(t)
      PROVE  pc'[u] \in {"waiting", "entered"}
  BY <1>3 DEF Acquire
<1>4. ASSUME NEW t \in Threads, Proceed(t) PROVE pc'[u] = "waiting"
  <2>1. PICK to : pc' = [pc EXCEPT ![t] = to]
    BY <1>4, ProceedMoves
  <2>2. t # u
    BY <1>4, ProceedMoves DEF InsideSteps
  <2> QED BY <2>1, <2>2
<1>5. ASSUME NEW id \in Ids, Cancel(id) PROVE pc'[u] = "waiting"
  BY <1>5 DEF Cancel, CancelRunning, CancelAgain, CancelEarly, PushBack, callVars
<1> QED BY <1>1, <1>2, <1>3, <1>4, <1>5 DEF Next

LEMMA LeavingMoves ==
  ASSUME Inv, NEW t \in Threads, NEW step \in LastSteps, Leaving(t, step), Proceed(t)
  PROVE  LeavesOn(t, step)'
<1>1. PICK to \in Follows(step) :
        /\ pc' = [pc EXCEPT ![t] = to]
        /\ to = "idle" => operationMutex' = NoThread
  BY ProceedMoves DEF Leaving
<1>2. pc'[t] = to /\ to # "running"
  BY <1>1 DEF Inv, TypeOK, Follows, LastSteps
<1>3. SomebodyWaits'
  <2>1. PICK u \in Threads : pc[u] = "waiting"
    BY DEF Leaving, SomebodyWaits
  <2>2. u # t
    BY <2>1 DEF Leaving, LastSteps
  <2> QED BY <1>1, <2>1, <2>2 DEF SomebodyWaits, Inv, TypeOK
<1> QED BY <1>1, <1>2, <1>3 DEF LeavesOn, Leaving, FreeForSomebody, IsFree

LEMMA LeavingStays ==
  ASSUME Inv, [Next]_vars, NEW t \in Threads, NEW step \in LastSteps, Leaving(t, step)
  PROVE  Leaving(t, step)' \/ LeavesOn(t, step)' \/ SomebodyEnters'
<1>1. CASE Proceed(t)
  BY <1>1, LeavingMoves
<1>2. CASE ~Proceed(t)
  <2>1. pc'[t] = step /\ call'[t] = call[t] /\ (flag[t] => flag'[t])
    BY <1>2, HolderStays DEF Leaving, LastSteps, InsideSteps, Steps
  <2>2. SomebodyWaits' \/ SomebodyEnters'
    BY WaiterStays DEF Leaving, SomebodyWaits, SomebodyEnters
  <2> QED BY <2>1, <2>2 DEF Leaving, IsCancellable
<1> QED BY <1>1, <1>2

LEMMA LeavingEnds ==
  ASSUME Inv, CanProceed, NEW t \in Threads, NEW step \in LastSteps, Leaving(t, step)
  PROVE  /\ step # "running" => ENABLED <<HolderProceeds>>_vars
         /\ step # "running" /\ <<HolderProceeds>>_vars => LeavesOn(t, step)'
         /\ step = "running" => ENABLED <<BackendEnds>>_vars
         /\ step = "running" /\ <<BackendEnds>>_vars => LeavesOn(t, step)'
<1>1. step # "running" => ENABLED <<HolderProceeds>>_vars
  BY DEF CanProceed, Leaving, LastSteps, InsideSteps, Steps
<1>2. step = "running" => ENABLED <<BackendEnds>>_vars
  BY DEF CanProceed, Leaving, MustEnd
<1>3. ASSUME NEW u \in Threads, Proceed(u) PROVE LeavesOn(t, step)'
  <2>1. u = t
    BY <1>3, ProceedMoves, AloneInside DEF Inv, Leaving, LastSteps, InsideSteps, Steps
  <2> QED BY <1>3, <2>1, LeavingMoves
<1>4. HolderProceeds \/ BackendEnds => LeavesOn(t, step)'
  BY <1>3 DEF HolderProceeds, BackendEnds, Proceed
<1> QED BY <1>1, <1>2, <1>4

(* A free lock stays free until somebody who waits for it has it.          *)
LEMMA FreeStays ==
  ASSUME Inv, [Next]_vars, FreeForSomebody
  PROVE  FreeForSomebody' \/ SomebodyEnters'
<1>1. SomebodyWaits' \/ SomebodyEnters'
  BY WaiterStays DEF FreeForSomebody, SomebodyWaits, SomebodyEnters
<1>2. ASSUME NEW u \in Threads, Acquire(u) PROVE SomebodyEnters'
  BY <1>2 DEF Acquire, Goto, SomebodyEnters, Inv, TypeOK
<1>3. ASSUME NEW u \in Threads, Proceed(u) PROVE FALSE
  BY <1>3, ProceedMoves, BridgeAssumption DEF FreeForSomebody, IsFree, Inv, OneOperation
<1>4. ASSUME NEW u \in Threads, NEW c \in Calls, Submit(u, c)
      PROVE  operationMutex' = operationMutex
  BY <1>4 DEF Submit
<1>5. ASSUME NEW id \in Ids, Cancel(id) PROVE operationMutex' = operationMutex
  BY <1>5 DEF Cancel, CancelRunning, CancelAgain, CancelEarly, PushBack, callVars
<1>6. CASE UNCHANGED vars
  BY <1>1, <1>6 DEF vars, callVars, FreeForSomebody, IsFree
<1> QED BY <1>1, <1>2, <1>3, <1>4, <1>5, <1>6 DEF Next, FreeForSomebody, IsFree

(* Setting the flag of the request that holds the lock lets a caller in    *)
(* that waits behind it, even when its backend would run for ever: the     *)
(* backend ends, the request leaves, and the lock that it frees is granted *)
(* (swift_compiler_cancel_completion, endCancellable).                     *)
THEOREM CancellationsUnblock == FairSpec /\ []CanProceed => CancellationUnblocks
<1> DEFINE Hypotheses == []Inv /\ [][Next]_vars /\ Fairness /\ []CanProceed
           Blocked == /\ \E t \in Threads : pc[t] = "running" /\ IsCancellable(t) /\ flag[t]
                      /\ \E t \in Threads : pc[t] = "waiting"
<1>1. Hypotheses => (FreeForSomebody ~> SomebodyEnters)
  <2>1. Inv /\ [Next]_vars /\ FreeForSomebody => FreeForSomebody' \/ SomebodyEnters'
    BY FreeStays
  <2>2. CanProceed /\ FreeForSomebody => ENABLED <<LockGranted>>_vars
    BY DEF CanProceed, FreeForSomebody, SomebodyWaits
  <2>3. Inv /\ <<LockGranted>>_vars => SomebodyEnters'
    BY DEF LockGranted, Acquire, Goto, SomebodyEnters, Inv, TypeOK
  <2> QED BY <2>1, <2>2, <2>3, PTL DEF Fairness
<1>2. ASSUME NEW t \in Threads
      PROVE  Hypotheses => (Leaving(t, "running") => <>SomebodyEnters)
  <2> DEFINE At(step) == Leaving(t, step)
             On(step) == LeavesOn(t, step)
  <2>1. Hypotheses => (At("running") ~> (On("running") \/ SomebodyEnters))
    <3>1. Inv /\ [Next]_vars /\ At("running") => At("running")' \/ On("running")' \/ SomebodyEnters'
      BY LeavingStays DEF LastSteps
    <3>2. Inv /\ CanProceed /\ At("running") => ENABLED <<BackendEnds>>_vars
      BY LeavingEnds DEF LastSteps
    <3>3. Inv /\ CanProceed /\ At("running") /\ <<BackendEnds>>_vars => On("running")'
      BY LeavingEnds DEF LastSteps
    <3> HIDE DEF At, On
    <3> QED BY <3>1, <3>2, <3>3, PTL DEF Fairness
  <2>2. Hypotheses => (At("ending") ~> (On("ending") \/ SomebodyEnters))
    <3>1. Inv /\ [Next]_vars /\ At("ending") => At("ending")' \/ On("ending")' \/ SomebodyEnters'
      BY LeavingStays DEF LastSteps
    <3>2. Inv /\ CanProceed /\ At("ending") => ENABLED <<HolderProceeds>>_vars
      BY LeavingEnds DEF LastSteps
    <3>3. Inv /\ CanProceed /\ At("ending") /\ <<HolderProceeds>>_vars => On("ending")'
      BY LeavingEnds DEF LastSteps
    <3> HIDE DEF At, On
    <3> QED BY <3>1, <3>2, <3>3, PTL DEF Fairness
  <2>3. Hypotheses => (At("copying") ~> (On("copying") \/ SomebodyEnters))
    <3>1. Inv /\ [Next]_vars /\ At("copying") => At("copying")' \/ On("copying")' \/ SomebodyEnters'
      BY LeavingStays DEF LastSteps
    <3>2. Inv /\ CanProceed /\ At("copying") => ENABLED <<HolderProceeds>>_vars
      BY LeavingEnds DEF LastSteps
    <3>3. Inv /\ CanProceed /\ At("copying") /\ <<HolderProceeds>>_vars => On("copying")'
      BY LeavingEnds DEF LastSteps
    <3> HIDE DEF At, On
    <3> QED BY <3>1, <3>2, <3>3, PTL DEF Fairness
  <2>4. Hypotheses => (At("returning") ~> (On("returning") \/ SomebodyEnters))
    <3>1. Inv /\ [Next]_vars /\ At("returning") => At("returning")' \/ On("returning")' \/ SomebodyEnters'
      BY LeavingStays DEF LastSteps
    <3>2. Inv /\ CanProceed /\ At("returning") => ENABLED <<HolderProceeds>>_vars
      BY LeavingEnds DEF LastSteps
    <3>3. Inv /\ CanProceed /\ At("returning") /\ <<HolderProceeds>>_vars => On("returning")'
      BY LeavingEnds DEF LastSteps
    <3> HIDE DEF At, On
    <3> QED BY <3>1, <3>2, <3>3, PTL DEF Fairness
  <2>5. /\ On("running") => FreeForSomebody \/ At("ending") \/ At("copying")
        /\ On("ending") => FreeForSomebody \/ At("copying")
        /\ On("copying") => FreeForSomebody \/ At("returning")
        /\ On("returning") => FreeForSomebody
    BY DEF LeavesOn, Follows
  <2> HIDE DEF At, On
  <2>6. Hypotheses => (At("running") => <>SomebodyEnters)
    BY <1>1, <2>1, <2>2, <2>3, <2>4, <2>5, PTL
  <2> QED BY <2>6 DEF At
<1>3. Hypotheses => (Blocked => <>SomebodyEnters)
  <2>1. Blocked => \E t \in Threads : Leaving(t, "running")
    BY DEF Leaving, SomebodyWaits
  <2> HIDE DEF Hypotheses, Blocked
  <2> QED BY <1>2, <2>1
<1>4. SomebodyEnters => \E t \in Threads : pc[t] = "entered"
  BY DEF SomebodyEnters
<1> HIDE DEF Blocked
<1>5. FairSpec /\ []CanProceed => (Blocked ~> \E t \in Threads : pc[t] = "entered")
  BY <1>3, <1>4, Invariance, PTL DEF FairSpec, Fairness, Spec
<1> QED BY <1>5 DEF CancellationUnblocks, Blocked
-----------------------------------------------------------------------------
(* What a caller is told of the session.                                   *)

(* A result says whether the session can still be used, and that is so     *)
(* until the caller has it: nobody can spoil the session between the copy  *)
(* and the return.                                                         *)
ToldOfSession ==
  \A t \in Threads :
    pc[t] = "returning" /\ call[t].op # "reset" => result[t].canRunAgain = sessionReusable

(* copyResult reads and writes sessionReusable before the operation lock   *)
(* is given back, so its answer about the session is never out of date.    *)
THEOREM ResultTellsOfSession == Spec => []ToldOfSession
<1>1. Init => ToldOfSession
  BY DEF Init, ToldOfSession
<1>2. Inv /\ ToldOfSession /\ [Next]_vars => ToldOfSession'
  <2> SUFFICES ASSUME Inv, ToldOfSession, [Next]_vars, NEW t \in Threads,
                      pc'[t] = "returning", call'[t].op # "reset"
               PROVE  result'[t].canRunAgain = sessionReusable'
    BY DEF ToldOfSession
  <2> USE DEF Inv, TypeOK, Goto, callVars, cancelVars, historyVars
  <2>1. ASSUME pc[t] = "returning", call'[t] = call[t], result'[t] = result[t],
               sessionReusable' = sessionReusable
        PROVE  result'[t].canRunAgain = sessionReusable'
    BY <2>1 DEF ToldOfSession
  <2>2. ASSUME NEW u \in Threads, NEW c \in Calls, Submit(u, c)
        PROVE  result'[t].canRunAgain = sessionReusable'
    BY <2>1, <2>2 DEF Submit
  <2>3. ASSUME NEW u \in Threads, Acquire(u)
        PROVE  result'[t].canRunAgain = sessionReusable'
    BY <2>1, <2>3 DEF Acquire
  <2>4. ASSUME NEW u \in Threads, Proceed(u), u # t
        PROVE  result'[t].canRunAgain = sessionReusable'
    <3>1. pc[u] \in InsideSteps /\ pc'[t] = pc[t]
      BY <2>4, ProceedMoves
    <3>2. pc[t] \in {"idle", "waiting"}
      BY <2>4, <3>1, AloneInside
    <3> QED BY <3>1, <3>2
  <2>5. ASSUME Proceed(t)
        PROVE  result'[t].canRunAgain = sessionReusable'
    <3>1. CASE CopyResult(t)
      BY <3>1 DEF CopyResult
    <3>2. CASE CopyFails(t)
      BY <3>2 DEF CopyFails, UsableWithoutCopy
    <3>3. CASE ResetCompletion(t)
      BY <3>3 DEF ResetCompletion
    <3>4. CASE ~(CopyResult(t) \/ CopyFails(t) \/ ResetCompletion(t))
      <4>1. pc'[t] # "returning"
        BY <2>5, <3>4 DEF Proceed, RejectSession, RejectArguments, AnswerEarly, Accept,
           BeginCancelled, BeginRegistered, EnterBackend, BackendReturns, EndCancellable, Return
      <4> QED BY <4>1
    <3> QED BY <3>1, <3>2, <3>3, <3>4
  <2>6. ASSUME NEW id \in Ids, Cancel(id)
        PROVE  result'[t].canRunAgain = sessionReusable'
    BY <2>1, <2>6 DEF Cancel, CancelRunning, CancelAgain, CancelEarly, PushBack
  <2>7. CASE UNCHANGED vars
    BY <2>1, <2>7 DEF vars
  <2> QED BY <2>2, <2>3, <2>4, <2>5, <2>6, <2>7 DEF Next
<1> QED BY <1>1, <1>2, Invariance, PTL DEF Spec
=============================================================================
