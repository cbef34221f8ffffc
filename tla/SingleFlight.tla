---------------------------- MODULE SingleFlight ----------------------------
(***************************************************************************)
(* What a map of promises promises, whatever is fetched: at most one fetch *)
(* per key is under way, everybody who asked meanwhile waits for that one  *)
(* and is released by it, a good answer may be kept for those who ask      *)
(* later, and a failure is never kept.  Abstract: oidc.session.ts          *)
(* (exchanges) is to implement it, see TokenRenewal.                       *)
(***************************************************************************)
CONSTANTS
  Key,      \* what there is to fetch
  Caller,   \* who asks for it
  Answer,   \* what a fetch can answer
  NoAnswer  \* not an answer: what a failed fetch leaves behind

VARIABLES
  flying,   \* the keys a fetch is under way for
  kept,     \* key -> the answer kept for it, or NoAnswer
  waiting   \* key -> the callers waiting for its fetch

sfVars == <<flying, kept, waiting>>

SFTypeOK ==
  /\ flying \subseteq Key
  /\ kept \in [Key -> Answer \cup {NoAnswer}]
  /\ waiting \in [Key -> SUBSET Caller]

SFInit ==
  /\ flying = {}
  /\ kept = [k \in Key |-> NoAnswer]
  /\ waiting = [k \in Key |-> {}]

(* The first caller starts the fetch, the others join it.                    *)
Ask(c, k) ==
  /\ kept[k] = NoAnswer
  /\ \A j \in Key : c \notin waiting[j]
  /\ flying' = flying \cup {k}
  /\ waiting' = [waiting EXCEPT ![k] = @ \cup {c}]
  /\ UNCHANGED kept

(* A fetch ends once, for all who wait: with an answer that is kept, or with *)
(* a failure that leaves nothing behind.                                     *)
Land(k, a) ==
  /\ k \in flying
  /\ flying' = flying \ {k}
  /\ waiting' = [waiting EXCEPT ![k] = {}]
  /\ kept' = [kept EXCEPT ![k] = a]

(* An answer stops being kept.                                               *)
Drop(k) ==
  /\ kept[k] # NoAnswer
  /\ kept' = [kept EXCEPT ![k] = NoAnswer]
  /\ UNCHANGED <<flying, waiting>>

SFNext ==
  \E k \in Key :
    \/ \E c \in Caller : Ask(c, k)
    \/ \E a \in Answer \cup {NoAnswer} : Land(k, a)
    \/ Drop(k)

SFSpec == SFInit /\ [][SFNext]_sfVars
=============================================================================
