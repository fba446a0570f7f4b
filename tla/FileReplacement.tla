---------------------------- MODULE FileReplacement ----------------------------
(***************************************************************************)
(* What transferring one file promises about its target.  A task replaces  *)
(* the content at most once, by the whole of what it transfers, never      *)
(* after it was stopped, and reports success only when it did.  `Loose'    *)
(* says when the content may be missing or damaged in between.             *)
(***************************************************************************)
EXTENDS FiniteSets

CONSTANTS Task, None, Damaged

VARIABLES content, replaced, stopped, ended, loose

vars == <<content, replaced, stopped, ended, loose>>

Init == /\ content \notin {None, Damaged} \union Task
        /\ replaced = {} /\ stopped = {} /\ ended = {}
        /\ loose \in {"never", "missing", "damaged"}

Replace(t) ==
  /\ t \notin replaced \union stopped \union ended
  /\ content' = t /\ replaced' = replaced \union {t}
  /\ UNCHANGED <<stopped, ended, loose>>

\* Without a rename that replaces, the old file goes first.
Gap == /\ loose # "never" /\ content' = None
       /\ UNCHANGED <<replaced, stopped, ended, loose>>

\* Written in place, the file passes through incomplete contents.
Damage == /\ loose = "damaged"
          /\ replaced \subseteq replaced'
          /\ UNCHANGED <<stopped, ended, loose>>

Stop(t) == /\ stopped' = stopped \union {t}
           /\ UNCHANGED <<content, replaced, ended, loose>>

Succeed(t) == /\ t \in replaced /\ t \notin ended
              /\ ended' = ended \union {t}
              /\ UNCHANGED <<content, replaced, stopped, loose>>

\* Two uploads of one file may use the same temporary name.
Loosen == /\ loose' = "damaged" /\ UNCHANGED <<content, replaced, stopped, ended>>

Next == \/ Gap \/ Damage \/ Loosen
        \/ \E t \in Task : Replace(t) \/ Stop(t) \/ Succeed(t)
Spec == Init /\ [][Next]_vars
===============================================================================
