---------------------------- MODULE LWCallbacks ----------------------------
(***************************************************************************)
(* What LWPeer.h promises of a completion callback given with a ping or a  *)
(* mempool request: it is called once, with or without success, before the *)
(* peer is reported as disconnected and freed.  The exception is one given *)
(* by another thread after the peer's own thread has called the last of    *)
(* them: nobody will call that one (late).                                 *)
(***************************************************************************)
EXTENDS Naturals

CONSTANT Callback       \* the completions that can be given

VARIABLES
  given,                \* those given so far
  outstanding,          \* given, and not called yet
  answer,               \* how each was called: "none", "ok" or "failed"
  late,                 \* given after the last call
  phase                 \* "open", "reporting" (no more calls), "closed"

vars == <<given, outstanding, answer, late, phase>>

Init ==
  /\ given = {}
  /\ outstanding = {}
  /\ answer = [c \in Callback |-> "none"]
  /\ late = {}
  /\ phase = "open"

New(c) == c \notin given /\ given' = given \cup {c}

Ask(c) ==
  /\ phase = "open" /\ New(c)
  /\ outstanding' = outstanding \cup {c}
  /\ UNCHANGED <<answer, late, phase>>

AskLate(c) ==
  /\ phase = "reporting" /\ New(c)
  /\ late' = late \cup {c}
  /\ UNCHANGED <<outstanding, answer, phase>>

\* A mempool request while another one is running fails at once.
Refuse(c) ==
  /\ phase # "closed" /\ New(c)
  /\ answer' = [answer EXCEPT ![c] = "failed"]
  /\ UNCHANGED <<outstanding, late, phase>>

Call(c, result) ==
  /\ phase = "open" /\ c \in outstanding
  /\ outstanding' = outstanding \ {c}
  /\ answer' = [answer EXCEPT ![c] = result]
  /\ UNCHANGED <<given, late, phase>>

\* The last callbacks are called, and the peer goes on to report that it is disconnected.
Finish ==
  /\ phase = "open"
  /\ answer' = [c \in Callback |-> IF c \in outstanding THEN "failed" ELSE answer[c]]
  /\ outstanding' = {}
  /\ phase' = "reporting"
  /\ UNCHANGED <<given, late>>

Close ==
  /\ phase = "reporting"
  /\ phase' = "closed"
  /\ UNCHANGED <<given, outstanding, answer, late>>

Next ==
  \/ \E c \in Callback : Ask(c) \/ AskLate(c) \/ Refuse(c)
  \/ \E c \in Callback, result \in {"ok", "failed"} : Call(c, result)
  \/ Finish
  \/ Close

Spec == Init /\ [][Next]_vars
=============================================================================
