----------------------------- MODULE RemoteCall -----------------------------
(***************************************************************************)
(* What Client.Do promises its caller (client/client.go), without          *)
(* connections, pools or retries.  A call that succeeds returns the        *)
(* server's answer to that very call, so the handler has run for it.  A    *)
(* call that fails says nothing of the handler: it may have run, may run   *)
(* later, or never.  No handler runs more than twice for one call, however *)
(* late the runs come.                                                     *)
(***************************************************************************)
EXTENDS Naturals

CONSTANT MaxCalls  \* bound: calls made

VARIABLES
  asked,    \* the calls begun are numbered 1 .. asked
  ran,      \* how often the handler has run for each call
  outcome   \* what each call returns: its answer, named by the call it answers

remoteVars == <<asked, ran, outcome>>

Calls == 1 .. MaxCalls
Pending == 0          \* no outcome yet
Failed == MaxCalls + 1  \* the outcome of a call that returns an error

RemoteInit ==
  asked = 0 /\ ran = [n \in Calls |-> 0] /\ outcome = [n \in Calls |-> Pending]

Do ==
  /\ asked < MaxCalls /\ asked' = asked + 1
  /\ UNCHANGED <<ran, outcome>>

Run(n) ==
  /\ n <= asked /\ ran[n] < 2
  /\ ran' = [ran EXCEPT ![n] = @ + 1]
  /\ UNCHANGED <<asked, outcome>>

Succeed(n) ==
  /\ n <= asked /\ ran[n] > 0 /\ outcome[n] = Pending
  /\ outcome' = [outcome EXCEPT ![n] = n]
  /\ UNCHANGED <<asked, ran>>

Fail(n) ==
  /\ n <= asked /\ outcome[n] = Pending
  /\ outcome' = [outcome EXCEPT ![n] = Failed]
  /\ UNCHANGED <<asked, ran>>

RemoteNext == Do \/ \E n \in Calls : Run(n) \/ Succeed(n) \/ Fail(n)

RemoteSpec == RemoteInit /\ [][RemoteNext]_remoteVars
=============================================================================
