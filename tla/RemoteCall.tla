----------------------------- MODULE RemoteCall -----------------------------
(***************************************************************************)
(* What the bridge promises the command line tool about one HTTP call: the *)
(* call is answered exactly once and the answer never changes; the page    *)
(* runs it at most once; a command ("run this action") is only reported as *)
(* done when the page really ran it, while a query ("read", "wait for")    *)
(* may also be answered from what the bridge has remembered.  A call that  *)
(* was answered with an error may still be run by the page later: the      *)
(* promise is "at most once", not "exactly once", and a caller that        *)
(* retries a command after an error may run it twice.                      *)
(***************************************************************************)
CONSTANT Calls

VARIABLES
  answer,   \* answer[c] : where call c stands for its caller
  query,    \* query[c]  : the call may be answered without asking the page
  runs      \* runs[c]   : how often the page has run call c

vars == <<answer, query, runs>>

Answers == {"unasked", "open", "ok", "error"}

Init ==
  /\ answer = [c \in Calls |-> "unasked"]
  /\ query \in [Calls -> BOOLEAN]
  /\ runs = [c \in Calls |-> 0]

\* The caller makes the call and the bridge has to find the answer.
Ask(c) ==
  /\ answer[c] = "unasked"
  /\ answer' = [answer EXCEPT ![c] = "open"]
  /\ UNCHANGED <<query, runs>>

\* The call is refused on the spot, or a query is answered from memory.
AnswerAtOnce(c) ==
  /\ answer[c] = "unasked"
  /\ \/ answer' = [answer EXCEPT ![c] = "error"]
     \/ query[c] /\ answer' = [answer EXCEPT ![c] = "ok"]
  /\ UNCHANGED <<query, runs>>

\* The page runs the call.  The caller may have been answered already.
Run(c) ==
  /\ answer[c] # "unasked"
  /\ runs[c] = 0
  /\ runs' = [runs EXCEPT ![c] = 1]
  /\ UNCHANGED <<answer, query>>

Succeed(c) ==
  /\ answer[c] = "open"
  /\ runs[c] = 1 \/ query[c]
  /\ answer' = [answer EXCEPT ![c] = "ok"]
  /\ UNCHANGED <<query, runs>>

\* One event (a lost page, a closing bridge) can fail several calls at once.
Fail(C) ==
  /\ \A c \in C : answer[c] = "open"
  /\ answer' = [c \in Calls |-> IF c \in C THEN "error" ELSE answer[c]]
  /\ UNCHANGED <<query, runs>>

Next ==
  \/ \E c \in Calls : Ask(c) \/ AnswerAtOnce(c) \/ Run(c) \/ Succeed(c)
  \/ \E C \in SUBSET Calls : Fail(C)

\* No call stays open for ever.
Answered == \A c \in Calls : (answer[c] = "open") ~> (answer[c] \in {"ok", "error"})

Safety == Init /\ [][Next]_vars
Spec == Safety /\ Answered
=============================================================================
