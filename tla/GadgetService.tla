----------------------------- MODULE GadgetService -----------------------------
(***************************************************************************)
(* What the USB gadget HAL promises its clients, without configfs, locks   *)
(* and threads: requests are accepted one at a time; what an earlier one   *)
(* applied is withdrawn, and what it left to be applied later is called    *)
(* off, before anything of the next one is applied; functions served by    *)
(* daemons may be left to a task that applies them when the daemons are    *)
(* ready; SUCCESS is answered to a client that waits only when its own     *)
(* functions have been applied since it asked.                             *)
(***************************************************************************)

CONSTANTS
  Callers,    \* the clients
  Functions,  \* the function sets they may ask for
  NONE        \* asking for nothing

VARIABLES
  phase,      \* where the request of each client is
  asked,      \* what each client asked for, and whether it wants an answer
  current,    \* the functions last accepted
  published,  \* {f} when f is published as applied, else {}
  task,       \* {t} when a task is to apply t.functions later, else {}
  outcome     \* the answer on its way to a client

vars == <<phase, asked, current, published, task, outcome>>

Phases == {"idle", "queued", "accepted", "clearing", "building", "answering"}
Asked == [functions : Functions, callback : BOOLEAN]
Answers == {"SUCCESS", "ERROR", "CONFIGURATION_NOT_SUPPORTED"}

Init ==
  /\ phase = [c \in Callers |-> "idle"]
  /\ asked \in [Callers -> Asked]
  /\ current \in Functions
  /\ published = {} /\ task = {} /\ outcome = "none"

Goto(c, p) == phase' = [phase EXCEPT ![c] = p]
Answer(c, a) == Goto(c, "answering") /\ outcome' = a

\* A client asks, and is accepted when no other request is being served.
Ask(c) ==
  /\ phase[c] = "idle" /\ Goto(c, "queued")
  /\ \E r \in Asked : asked' = [asked EXCEPT ![c] = r]
  /\ UNCHANGED <<current, published, task, outcome>>

Accept(c) ==
  /\ phase[c] = "queued"
  /\ \A d \in Callers : phase[d] \in {"idle", "queued"}
  /\ Goto(c, "accepted")
  /\ current' = asked[c].functions
  /\ UNCHANGED <<asked, published, task, outcome>>

\* What was applied is withdrawn, and the earlier task called off.
Withdraw(c) ==
  /\ phase[c] = "accepted" /\ Goto(c, "clearing")
  /\ published' = {}
  /\ UNCHANGED <<asked, current, task, outcome>>

CallOff(c) ==
  /\ phase[c] = "clearing" /\ Goto(c, "building")
  /\ task' = {}
  /\ UNCHANGED <<asked, current, published, outcome>>

\* The functions are applied at once, or left to a task: a client that wants
\* no answer is let go, another one waits for the task.
ApplyNow(c) ==
  /\ phase[c] = "building" /\ task = {}
  /\ published' = {asked[c].functions}
  /\ Answer(c, "SUCCESS")
  /\ UNCHANGED <<asked, current, task>>

Defer(c) ==
  /\ phase[c] = "building" /\ task = {}
  /\ task' = {[functions |-> asked[c].functions, done |-> FALSE]}
  /\ IF asked[c].callback THEN UNCHANGED <<phase, outcome>>
                          ELSE Answer(c, "SUCCESS")
  /\ UNCHANGED <<asked, current, published>>

\* The task applies its functions, once or again, as long as it is not called
\* off; it may overtake a request that is about to do that.
ApplyLater ==
  /\ \E t \in task : /\ published' = {t.functions}
                     /\ task' = {[t EXCEPT !.done = TRUE]}
  /\ UNCHANGED <<phase, asked, current, outcome>>

\* SUCCESS without applying anything: nothing was asked for, or the client's
\* own task has done it.
Done(c) ==
  /\ phase[c] = "building"
  /\ \/ asked[c].functions = NONE /\ task = {}
     \/ task = {[functions |-> asked[c].functions, done |-> TRUE]}
  /\ Answer(c, "SUCCESS")
  /\ UNCHANGED <<asked, current, published, task>>

\* A request fails.  In the middle of clearing, the earlier task survives it.
Refuse(c) ==
  /\ \/ phase[c] = "clearing" /\ Answer(c, "ERROR")
     \/ phase[c] = "building" /\ Answer(c, "ERROR")
     \/ phase[c] = "building" /\ task = {} /\ Answer(c, "CONFIGURATION_NOT_SUPPORTED")
  /\ UNCHANGED <<asked, current, published, task>>

Reply(c) ==
  /\ phase[c] = "answering" /\ Goto(c, "idle")
  /\ outcome' = "none"
  /\ UNCHANGED <<asked, current, published, task>>

\* The service dies and is started again.
Restart ==
  /\ phase' = [c \in Callers |-> "idle"]
  /\ current' \in Functions
  /\ published' = {} /\ task' = {} /\ outcome' = "none"
  /\ UNCHANGED asked

Next ==
  \/ \E c \in Callers :
       \/ Ask(c) \/ Accept(c) \/ Withdraw(c) \/ CallOff(c) \/ ApplyNow(c)
       \/ Defer(c) \/ Done(c) \/ Refuse(c) \/ Reply(c)
  \/ ApplyLater
  \/ Restart

Spec == Init /\ [][Next]_vars

================================================================================
