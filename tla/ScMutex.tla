--------------------------------- MODULE ScMutex ---------------------------------
(***************************************************************************)
(* sc_mutexx.  The constructor does not initialise _locked.  trylock tests *)
(* and does not lock; unlock does not ask who calls it.                    *)
(***************************************************************************)
EXTENDS ScScheduler

VARIABLE _locked

MutexInit == _locked \in BOOLEAN

MutexLock == ~_locked /\ _locked' = TRUE /\ GoOn({}, {})
MutexLockWaits == _locked /\ Wait("_free") /\ UNCHANGED _locked

MutexTrylock == ~_locked

MutexUnlock_Silent == _locked' = FALSE /\ GoOn({}, {})
MutexUnlock == _locked' = FALSE /\ NotifyNow("_free")

================================================================================
