---- MODULE WhisperEngine_proofs ----
(***************************************************************************)
(* Proofs about WhisperEngine for any number of threads.                   *)
(***************************************************************************)
EXTENDS WhisperEngine, TLAPS

Loading == {"importing", "cpu", "cuda"}

\* A thread is in a with block exactly while it holds the lock, and loads only what is missing.
LockInv == \A t \in Threads :
  /\ loadLock = {t} <=> call[t] \in Loading
  /\ useLock = {t} <=> call[t] = "using"
  /\ call[t] \in Loading => model = "none"

\* _fp16 belongs to the device of the model, or of the model that is being loaded.
DeviceInv ==
  /\ model # "none" => fp16 = (model = "cuda")
  /\ \A t \in Threads : /\ call[t] \in Device => fp16 = (call[t] = "cuda")
                        /\ call[t] \in {"ready", "using"} => model # "none"

Inv == TypeOK /\ LockInv /\ DeviceInv

USE DEF Device, Loading

\* The invariant holds before any thread has called.
LEMMA EngineInit == Init => Inv
BY DEF Init, Inv, TypeOK, LockInv, DeviceInv, Place

\* Only a thread that holds the load lock can be loading, so there is one at most.
LEMMA OneLoads == ASSUME LockInv, NEW t \in Threads, NEW u \in Threads,
                         call[t] \in Loading, call[u] \in Loading
                  PROVE  t = u
BY DEF LockInv

\* Every step of a thread keeps the types (engines.py:43-75).
LEMMA StepKeepsType == ASSUME TypeOK, NEW t \in Threads, Called(t) \/ EngineStep(t) PROVE TypeOK'
<1>1. CASE Called(t) BY <1>1 DEF TypeOK, Called, Goto, Place
<1>2. CASE CheckModel(t) BY <1>2 DEF TypeOK, CheckModel, Goto, Place
<1>3. CASE EnterLoad(t) BY <1>3 DEF TypeOK, EnterLoad, Goto, Place
<1>4. CASE ChooseDevice(t) BY <1>4 DEF TypeOK, ChooseDevice, Goto, Place
<1>5. CASE Load(t) BY <1>5 DEF TypeOK, Load, Goto, Place
<1>6. CASE LoadFails(t) BY <1>6 DEF TypeOK, LoadFails, Goto, Place
<1>7. CASE Use(t) BY <1>7 DEF TypeOK, Use, Goto, Place
<1>8. CASE Used(t) BY <1>8 DEF TypeOK, Used, Goto, Place
<1>9. CASE Return(t) BY <1>9 DEF TypeOK, Return, Goto, Place
<1> QED BY <1>1, <1>2, <1>3, <1>4, <1>5, <1>6, <1>7, <1>8, <1>9 DEF EngineStep

\* Every step of a thread keeps the locks with the threads inside their blocks (engines.py:45-74).
LEMMA StepKeepsLocks == ASSUME Inv, NEW t \in Threads, Called(t) \/ EngineStep(t) PROVE LockInv'
<1> USE DEF Inv, LockInv, TypeOK, Goto
<1>1. CASE Called(t) BY <1>1 DEF Called
<1>2. CASE CheckModel(t) BY <1>2 DEF CheckModel
<1>3. CASE EnterLoad(t) BY <1>3 DEF EnterLoad, StillMissing
<1>4. CASE ChooseDevice(t) BY <1>4 DEF ChooseDevice
<1>5. CASE Load(t) BY <1>5, OneLoads DEF Load
<1>6. CASE LoadFails(t) BY <1>6, OneLoads DEF LoadFails
<1>7. CASE Use(t) BY <1>7 DEF Use, ModelFree
<1>8. CASE Used(t) BY <1>8 DEF Used
<1>9. CASE Return(t) BY <1>9 DEF Return
<1> QED BY <1>1, <1>2, <1>3, <1>4, <1>5, <1>6, <1>7, <1>8, <1>9 DEF EngineStep

\* Every step of a thread keeps precision and device together (engines.py:61-63).
LEMMA StepKeepsDevice == ASSUME Inv, NEW t \in Threads, Called(t) \/ EngineStep(t) PROVE DeviceInv'
<1> USE DEF Inv, DeviceInv, TypeOK, Goto
<1>1. CASE Called(t) BY <1>1 DEF Called
<1>2. CASE CheckModel(t) BY <1>2 DEF CheckModel
<1>3. CASE EnterLoad(t) BY <1>3 DEF EnterLoad, StillMissing
<1>4. CASE ChooseDevice(t) BY <1>4, OneLoads DEF ChooseDevice, LockInv
<1>5. CASE Load(t) BY <1>5, OneLoads DEF Load, LockInv
<1>6. CASE LoadFails(t) BY <1>6 DEF LoadFails
<1>7. CASE Use(t) BY <1>7 DEF Use
<1>8. CASE Used(t) BY <1>8 DEF Used
<1>9. CASE Return(t) BY <1>9 DEF Return
<1> QED BY <1>1, <1>2, <1>3, <1>4, <1>5, <1>6, <1>7, <1>8, <1>9 DEF EngineStep

\* Every step, or none, preserves the invariant.
LEMMA EngineNext == Inv /\ [Next]_engineVars => Inv'
<1> SUFFICES ASSUME Inv, [Next]_engineVars PROVE Inv'
  OBVIOUS
<1>1. CASE Next
  BY <1>1, StepKeepsType, StepKeepsLocks, StepKeepsDevice DEF Next, Inv
<1>2. CASE UNCHANGED engineVars
  BY <1>2 DEF engineVars, Inv, TypeOK, LockInv, DeviceInv
<1> QED BY <1>1, <1>2

\* The invariant is one.
LEMMA EngineInvariant == Spec => []Inv
<1> QED BY EngineInit, EngineNext, PTL DEF Spec

\* Every variable of the engine keeps its type.
THEOREM EngineTypeCorrect == Spec => []TypeOK
<1>1. Inv => TypeOK BY DEF Inv
<1> QED BY <1>1, EngineInvariant, PTL

\* One thread at a time uses the model, which is there, with the precision of its device,
\* for any number of threads (engines.py:66-74).
THEOREM AlwaysUsedSafely == Spec => []UsedSafely
<1>1. Inv => UsedSafely BY DEF Inv, LockInv, DeviceInv, TypeOK, UsedSafely
<1> QED BY <1>1, EngineInvariant, PTL

\* A model that is loaded is never replaced, and _fp16 never written again (engines.py:43-64).
THEOREM OneModelEver == Spec => OneModel
<1>1. ASSUME Inv, [Next]_engineVars, model # "none" PROVE model' = model /\ fp16' = fp16
  <2>1. CASE UNCHANGED engineVars BY <2>1 DEF engineVars
  <2>2. CASE Next
    <3>1. PICK t \in Threads : Called(t) \/ EngineStep(t) BY <2>2 DEF Next
    <3>2. call[t] \notin Loading BY <1>1 DEF Inv, LockInv
    <3> QED BY <3>1, <3>2 DEF EngineStep, Called, CheckModel, EnterLoad, ChooseDevice, Load,
                              LoadFails, Use, Used, Return
  <2> QED BY <1>1, <2>1, <2>2
<1>2. Inv /\ [Next]_engineVars => [model # "none" => model' = model /\ fp16' = fp16]_engineVars
  BY <1>1
<1> QED BY <1>2, EngineInvariant, PTL DEF Spec, OneModel
====
