-------------------------- MODULE CredentialMigration --------------------------
(***************************************************************************)
(* Passwords and passphrases in the editor's secret storage (secrets.ts):  *)
(* one stored by an earlier release under host and user is moved to the    *)
(* one endpoint it can belong to.  The storage is shared by the windows;   *)
(* the chain of promises that serialises migrations is not.                *)
(***************************************************************************)
EXTENDS Naturals, FiniteSets

CONSTANTS Process, Endpoint

VARIABLES
  old,        \* the value under the legacy key: "none" or "old"
  saved,      \* the value under the key of an endpoint: "none", "old" or "new"
  candidates, \* the endpoints the settings of a window name
  waiting,    \* migrations queued behind the window's running one
  phase,      \* what the window's running migration does next
  forgotten   \* whether the user deleted a secret

vars == <<old, saved, candidates, waiting, phase, forgotten>>

MaxMigrations == 2

TypeOK ==
  /\ old \in {"none", "old"} /\ saved \in [Endpoint -> {"none", "old", "new"}]
  /\ candidates \in [Process -> SUBSET Endpoint]
  /\ waiting \in [Process -> 0..MaxMigrations]
  /\ phase \in [Process -> {"idle", "read", "look", "store", "delete"}]
  /\ forgotten \in BOOLEAN

Init ==
  /\ old = "old" /\ saved = [e \in Endpoint |-> "none"]
  /\ candidates \in [Process -> SUBSET Endpoint]
  /\ waiting = [w \in Process |-> 0] /\ phase = [w \in Process |-> "idle"]
  /\ forgotten = FALSE

Go(w, s) == phase' = [phase EXCEPT ![w] = s]

-------------------------------------------------------------------------------
\* migrateLegacyCredentials: on activation and whenever the settings are read again.
Request(w) ==
  /\ waiting[w] < MaxMigrations
  /\ waiting' = [waiting EXCEPT ![w] = @ + 1]
  /\ UNCHANGED <<old, saved, candidates, phase, forgotten>>

\* Mutant: a migration starts without having been asked for.
EnterUnasked(w) ==
  /\ phase[w] = "idle"
  /\ waiting' = [waiting EXCEPT ![w] = @ - 1]
  /\ Go(w, IF Cardinality(candidates[w]) = 1 THEN "read" ELSE "idle")
  /\ UNCHANGED <<old, saved, candidates, forgotten>>

\* withMigrationLock: one at a time in a window, whether the one before failed or not.
Enter(w) ==
  /\ phase[w] = "idle" /\ waiting[w] > 0
  /\ waiting' = [waiting EXCEPT ![w] = @ - 1]
  /\ Go(w, IF Cardinality(candidates[w]) = 1 THEN "read" ELSE "idle")
  /\ UNCHANGED <<old, saved, candidates, forgotten>>

\* Mutant: the old value is taken out when it is read.
TakeOld(w) ==
  /\ phase[w] = "read" /\ Go(w, IF old = "none" THEN "idle" ELSE "look")
  /\ old' = "none"
  /\ UNCHANGED <<saved, candidates, waiting, forgotten>>

ReadOld(w) ==
  /\ phase[w] = "read" /\ Go(w, IF old = "none" THEN "idle" ELSE "look")
  /\ UNCHANGED <<old, saved, candidates, waiting, forgotten>>

Look(w) ==
  /\ phase[w] = "look"
  /\ \E e \in candidates[w] : Go(w, IF saved[e] = "none" THEN "store" ELSE "delete")
  /\ UNCHANGED <<old, saved, candidates, waiting, forgotten>>

StoreOld(w) ==
  /\ phase[w] = "store" /\ Go(w, "delete")
  /\ saved' = [e \in Endpoint |-> IF e \in candidates[w] THEN "old" ELSE saved[e]]
  /\ UNCHANGED <<old, candidates, waiting, forgotten>>

DeleteOld(w) ==
  /\ phase[w] = "delete" /\ Go(w, "idle")
  /\ old' = "none"
  /\ UNCHANGED <<saved, candidates, waiting, forgotten>>

\* The storage refuses an operation; the next migration of the window runs all the same.
Fail(w) ==
  /\ phase[w] # "idle" /\ Go(w, "idle")
  /\ UNCHANGED <<old, saved, candidates, waiting, forgotten>>

\* The window is reloaded, perhaps with other settings.
Reload(w) ==
  /\ Go(w, "idle") /\ waiting' = [waiting EXCEPT ![w] = 0]
  /\ \E c \in SUBSET Endpoint : candidates' = [candidates EXCEPT ![w] = c]
  /\ UNCHANGED <<old, saved, forgotten>>

\* storeCredential, deleteCredential and deleteLegacyCredential.
Save(e) == /\ saved' = [saved EXCEPT ![e] = "new"]
           /\ UNCHANGED <<old, candidates, waiting, phase, forgotten>>
Delete(e) == /\ saved[e] # "none" /\ saved' = [saved EXCEPT ![e] = "none"]
             /\ forgotten' = TRUE
             /\ UNCHANGED <<old, candidates, waiting, phase>>
DeleteLegacy == /\ old # "none" /\ old' = "none" /\ forgotten' = TRUE
                /\ UNCHANGED <<saved, candidates, waiting, phase>>

Migrate(w) == \/ Request(w) \/ Enter(w) \/ ReadOld(w) \/ Look(w) \/ StoreOld(w)
              \/ DeleteOld(w) \/ Fail(w) \/ Reload(w)
Next == \/ DeleteLegacy
        \/ \E w \in Process : Migrate(w)
        \/ \E e \in Endpoint : Save(e) \/ Delete(e)
Spec == Init /\ [][Next]_vars

-------------------------------------------------------------------------------
\* Until the user deletes a secret the old one is still there or some endpoint has one:
\* windows that migrate at once, failures and reloads lose nothing.
CredentialKept == ~forgotten /\ old = "none" => \E e \in Endpoint : saved[e] # "none"
===============================================================================
