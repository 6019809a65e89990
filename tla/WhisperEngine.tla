---- MODULE WhisperEngine ----
(***************************************************************************)
(* WhisperEngine (engines.py): one model for all threads, loaded by the    *)
(* first that needs it (a double-checked lock) and used by one at a time.  *)
(* Each thread makes one call of transcribe.                               *)
(***************************************************************************)
CONSTANT Threads

VARIABLES call,      \* where a thread is in transcribe
          loadLock,  \* _load_lock: the thread that holds it
          useLock,   \* _transcribe_lock
          model,     \* _model: "none", or the device it is on
          fp16       \* _fp16

engineVars == <<call, loadLock, useLock, model, fp16>>

Device == {"cpu", "cuda"}

Init == /\ call = [t \in Threads |-> "idle"]
        /\ loadLock = {} /\ useLock = {}
        /\ model = "none" /\ fp16 = FALSE

Goto(t, place) == call' = [call EXCEPT ![t] = place]

Called(t) == call[t] = "idle" /\ Goto(t, "checking") /\ UNCHANGED <<loadLock, useLock, model, fp16>>

----------------------------------------------------------------------------
(* _get_model.                                                             *)
(*                                                                         *)
(* Operators whose comment begins with "Mutant" are plausible defects of   *)
(* the definition below them; only the checks of the properties use them.  *)

\* The first look, without the lock.
CheckModel(t) == /\ call[t] = "checking"
                 /\ Goto(t, IF model = "none" THEN "waiting" ELSE "ready")
                 /\ UNCHANGED <<loadLock, useLock, model, fp16>>

\* Mutant: the thread that had to wait does not look again.
NotLookedAgain == TRUE
StillMissing == model = "none"

EnterLoad(t) == /\ call[t] = "waiting" /\ loadLock = {}
                /\ IF StillMissing THEN loadLock' = {t} /\ Goto(t, "importing")
                                   ELSE Goto(t, "ready") /\ UNCHANGED loadLock
                /\ UNCHANGED <<useLock, model, fp16>>

\* The packages are there; cuda.is_available says where to.
ChooseDevice(t) == /\ call[t] = "importing"
                   /\ \E device \in Device : /\ fp16' = (device = "cuda")
                                             /\ Goto(t, device)
                   /\ UNCHANGED <<loadLock, useLock, model>>

\* load_model returns, and the with block is left.
Load(t) == /\ call[t] \in Device
           /\ model' = call[t]
           /\ loadLock' = {}
           /\ Goto(t, "ready")
           /\ UNCHANGED <<useLock, fp16>>

\* The packages are missing or cannot be loaded, or load_model raises.
LoadFails(t) == /\ call[t] \in {"importing"} \cup Device
                /\ loadLock' = {}
                /\ Goto(t, "threw")
                /\ UNCHANGED <<useLock, model, fp16>>

----------------------------------------------------------------------------
(* transcribe.                                                             *)

\* Mutant: the model is used without its lock.
NoLock == TRUE
ModelFree == useLock = {}

Use(t) == /\ call[t] = "ready" /\ ModelFree
          /\ useLock' = {t}
          /\ Goto(t, "using")
          /\ UNCHANGED <<loadLock, model, fp16>>

\* model.transcribe ends, with a result or not.
Used(t) == /\ call[t] = "using"
           /\ useLock' = {}
           /\ \E place \in {"measuring", "threw"} : Goto(t, place)
           /\ UNCHANGED <<loadLock, model, fp16>>

\* The length of the chunk is read again, without the lock.
Return(t) == /\ call[t] = "measuring"
             /\ \E place \in {"done", "threw"} : Goto(t, place)
             /\ UNCHANGED <<loadLock, useLock, model, fp16>>

EngineStep(t) == CheckModel(t) \/ EnterLoad(t) \/ ChooseDevice(t) \/ Load(t) \/ LoadFails(t)
                 \/ Use(t) \/ Used(t) \/ Return(t)

Next == \E t \in Threads : Called(t) \/ EngineStep(t)

Spec == Init /\ [][Next]_engineVars

----------------------------------------------------------------------------
Place == {"idle", "checking", "waiting", "importing", "ready", "using", "measuring", "done", "threw"}

TypeOK == /\ call \in [Threads -> Place \cup Device]
          /\ loadLock \in SUBSET Threads /\ useLock \in SUBSET Threads
          /\ model \in {"none"} \cup Device
          /\ fp16 \in BOOLEAN

\* The model that has been loaded stays: no thread loads a second one, or writes _fp16
\* again, however many called before it was there (engines.py:43-64).
OneModel == [][model # "none" => model' = model /\ fp16' = fp16]_engineVars

\* The model is used by one thread at a time, once it is there, and with the precision of
\* its device, though both were written by another thread (README.md:103, engines.py:66-74).
UsedSafely == \A t \in Threads : call[t] = "using" =>
  /\ \A u \in Threads \ {t} : call[u] # "using"
  /\ model # "none" /\ fp16 = (model = "cuda")
====
