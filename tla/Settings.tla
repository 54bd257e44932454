------------------------------ MODULE Settings ------------------------------
(***************************************************************************)
(* What the callers of the INI library (src/minIni.c) rely on: a store of  *)
(* settings in which a write changes one setting, at one moment, and no    *)
(* other.  A mishap (a call to the system that fails, or a relay that dies *)
(* while the file is replaced) loses every setting at worst.               *)
(***************************************************************************)
EXTENDS Integers

CONSTANTS Names, Unset

VARIABLES
    store,      \* the value of each setting, or Unset
    trouble     \* mishaps so far

settingsVars == <<store, trouble>>

Put(n) ==
    /\ \A m \in Names \ {n} : store'[m] = store[m]
    /\ UNCHANGED trouble

Mishap ==
    /\ trouble' = trouble + 1
    /\ \/ UNCHANGED store
       \/ \A n \in Names : store'[n] = Unset

SettingsInit ==
    /\ store = [n \in Names |-> Unset]
    /\ trouble = 0

SettingsNext ==
    \/ \E n \in Names : Put(n)
    \/ Mishap

SettingsSpec == SettingsInit /\ [][SettingsNext]_settingsVars

=============================================================================
