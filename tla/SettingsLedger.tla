--------------------------- MODULE SettingsLedger ---------------------------
(***************************************************************************)
(* What the settings of one group promise, without requests: the System    *)
(* record with its enforcement rules, one copy for each GLOBAL or tenant   *)
(* target, and the four changes that may ever happen to them, each of them *)
(* on the records as they are at that moment.                              *)
(***************************************************************************)
EXTENDS Naturals

CONSTANTS Targets,   \* GLOBAL and the tenants
          Fields,    \* the fields of the group
          Values,    \* the values of a field
          Default    \* the registered defaults of the group

VARIABLES system,    \* the System record
          copies     \* the copy of each target

vars == <<system, copies>>

SystemRecords ==
  [revision: Nat, value: [Fields -> Values], locks: SUBSET (Fields \X Targets)]

Copies == [revision: Nat, value: [Fields -> Values]]

\* A record that was never saved stands at revision zero with the defaults.
Init ==
  /\ system = [revision |-> 0, value |-> Default, locks |-> {}]
  /\ copies = [t \in Targets |-> [revision |-> 0, value |-> Default]]

Locked(t) == {f \in Fields : <<f, t>> \in system.locks}

\* An administrator saves the System record and its rules.
SaveSystem ==
  /\ \E value \in [Fields -> Values], locks \in SUBSET (Fields \X Targets) :
       system' = [revision |-> system.revision + 1, value |-> value,
                  locks |-> locks]
  /\ UNCHANGED copies

\* The first use of a target copies the System values as they are.
FirstUse(t) ==
  /\ copies[t].revision = 0
  /\ copies' = [copies EXCEPT ![t] = [revision |-> 1, value |-> system.value]]
  /\ UNCHANGED system

\* A save of a target leaves every enforced field as it is.
Edit(t) ==
  /\ copies[t].revision > 0
  /\ \E value \in [Fields -> Values] :
       /\ \A f \in Locked(t) : value[f] = copies[t].value[f]
       /\ copies' = [copies EXCEPT ![t] =
                       [revision |-> @.revision + 1, value |-> value]]
  /\ UNCHANGED system

\* An overwrite copies the System values of the selected fields as they are.
Overwrite(t, selected) ==
  /\ copies[t].revision > 0
  /\ copies' = [copies EXCEPT ![t] =
       [revision |-> @.revision + 1,
        value |-> [f \in Fields |-> IF f \in selected THEN system.value[f]
                                                      ELSE @.value[f]]]]
  /\ UNCHANGED system

Next ==
  \/ SaveSystem
  \/ \E t \in Targets : FirstUse(t) \/ Edit(t)
  \/ \E t \in Targets, selected \in SUBSET Fields : Overwrite(t, selected)

Spec == Init /\ [][Next]_vars
=============================================================================
