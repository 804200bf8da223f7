---------------------------- MODULE SettingsStore ----------------------------
(***************************************************************************)
(* What the commits promise, whichever threads make them and however many  *)
(* records they write: a store of the settings of each interface, in which *)
(* a commit decides in one step what a later start finds.  From that step  *)
(* on the settings are due; they reach the medium one by one while nobody  *)
(* changes them.  A write that fails takes back its own parameter only,    *)
(* and a crash leaves of every parameter the last value that was written.  *)
(***************************************************************************)
EXTENDS Naturals

CONSTANTS Ifaces,   \* the interfaces
          Saved     \* the parameters that are saved

VARIABLES live,     \* the settings in the table
          due,      \* the settings that a start finds if nothing fails
          kept,     \* the settings on the medium
          loaded,   \* the interfaces whose settings have been loaded
          saving,   \* the interfaces that a commit is being written for
          faults    \* how many accesses have failed

storeVars == <<live, due, kept, loaded, saving, faults>>

\* The parameter p of interface i, and no other, gets the value v.
Put(f, i, p, v) == [f EXCEPT ![i] = [@ EXCEPT ![p] = v]]

Zero == [i \in Ifaces |-> [p \in Saved |-> 0]]

StoreInit == /\ live = Zero /\ kept \in [Ifaces -> [Saved -> Nat]] /\ due = kept
             /\ loaded = {} /\ saving = {} /\ faults = 0

\* A start finds what is due; what cannot be read is zero, and nothing is saved
\* before everything is loaded.
Load(i) ==
  /\ i \notin loaded /\ loaded' = loaded \cup {i}
  /\ \E lost \in SUBSET Saved :
       /\ live' = [live EXCEPT ![i] = [p \in Saved |-> IF p \in lost THEN 0
                                                       ELSE due[i][p]]]
       /\ IF lost = {} THEN faults' >= faults ELSE faults' > faults
  /\ UNCHANGED <<due, kept, saving>>

\* A setting is changed, but never under a commit.
Change(i, p) ==
  /\ loaded = Ifaces /\ i \notin saving
  /\ live' = Put(live, i, p, live'[i][p]) /\ live'[i][p] \in Nat
  /\ UNCHANGED <<due, kept, loaded, saving, faults>>

\* All settings of an interface at once become those that a start finds.
Begin(i) ==
  /\ loaded = Ifaces /\ i \notin saving /\ saving' = saving \cup {i}
  /\ due' = [due EXCEPT ![i] = live[i]]
  /\ UNCHANGED <<live, kept, loaded, faults>>

Write(i, p) ==
  /\ i \in saving
  /\ kept' = Put(kept, i, p, due[i][p])
  /\ UNCHANGED <<live, due, loaded, saving, faults>>

\* A failed write costs its own parameter, whatever else the commit writes.
WriteFails(i, p) ==
  /\ i \in saving
  /\ due' = Put(due, i, p, kept[i][p])
  /\ faults' > faults
  /\ UNCHANGED <<live, kept, loaded, saving>>

\* The commit is acknowledged when everything that is due is kept.
End(i) ==
  /\ i \in saving /\ saving' = saving \ {i}
  /\ kept[i] = due[i]
  /\ UNCHANGED <<live, due, kept, loaded, faults>>

\* Only what was kept is left.
Crash ==
  /\ live' = Zero /\ due' = kept /\ loaded' = {} /\ saving' = {}
  /\ UNCHANGED <<kept, faults>>

\* Something fails that the settings do not depend on.
OtherFault == faults' > faults /\ UNCHANGED <<live, due, kept, loaded, saving>>

StoreNext ==
  \/ \E i \in Ifaces :
       \/ Load(i) \/ Begin(i) \/ End(i)
       \/ \E p \in Saved : Change(i, p) \/ Write(i, p) \/ WriteFails(i, p)
  \/ Crash \/ OtherFault

StoreSpec == StoreInit /\ [][StoreNext]_storeVars

=============================================================================
