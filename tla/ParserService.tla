---------------------------- MODULE ParserService ----------------------------
(***************************************************************************)
(* What the TypeScript parser wrapper promises its caller, without pipes,  *)
(* processes or work done ahead: a service with one open project and one   *)
(* list of announced files.  A call is invoked, takes effect at most once, *)
(* and returns; it can only return normally after it has taken effect, and *)
(* it may fail whether or not it has.  The service may lose its state at   *)
(* any time, and then every announcement and project is gone.              *)
(*                                                                         *)
(* The promise a caller builds on: parse answers for the announced files   *)
(* in the announced order, and for nothing else.                           *)
(***************************************************************************)
EXTENDS Naturals, Sequences

CONSTANTS
  File, Project,
  Call,            \* the calls, records with a field "command"
  NoProject, NoCall

VARIABLES
  phase,      \* "idle", "invoked", "applied"
  call,
  open,       \* the project that is open
  announced,  \* files announced and not yet parsed
  lastOk      \* the last call returned normally

vars == <<phase, call, open, announced, lastOk>>

Fresh == open' = NoProject /\ announced' = <<>>

Init ==
  /\ phase = "idle" /\ call = NoCall
  /\ open = NoProject /\ announced = <<>>
  /\ lastOk = FALSE

Invoke(c) ==
  /\ phase = "idle"
  /\ phase' = "invoked" /\ call' = c
  /\ lastOk' = FALSE
  /\ UNCHANGED <<open, announced>>

\* The effect of each call on the service.
Effect ==
  \/ /\ call.command \in {"get-own-files", "get-type-table"}
     /\ UNCHANGED <<open, announced>>
  \/ /\ call.command = "open-project"
     /\ open' = call.tsConfig
     /\ UNCHANGED announced
  \/ /\ call.command = "close-project" /\ open # NoProject
     /\ open' = NoProject
     /\ UNCHANGED announced
  \/ /\ call.command = "prepare-files"
     /\ announced' = call.files
     /\ UNCHANGED open
  \/ /\ call.command = "parse"
     /\ announced # <<>> /\ Head(announced) = call.file
     /\ announced' = Tail(announced)
     /\ UNCHANGED open
  \/ /\ call.command = "reset"
     /\ Fresh

Apply ==
  /\ phase = "invoked" /\ Effect
  /\ phase' = "applied"
  /\ UNCHANGED <<call, lastOk>>

\* A reset of a service that remembers nothing has nothing to do.
ResetIsVacuous ==
  /\ phase = "invoked" /\ call.command = "reset"
  /\ open = NoProject /\ announced = <<>>

ReturnNormally ==
  /\ phase = "applied" \/ ResetIsVacuous
  /\ phase' = "idle" /\ call' = NoCall /\ lastOk' = TRUE
  /\ UNCHANGED <<open, announced>>

Fail ==
  /\ phase # "idle"
  /\ phase' = "idle" /\ call' = NoCall /\ lastOk' = FALSE
  /\ UNCHANGED <<open, announced>>

LoseState ==
  /\ Fresh
  /\ lastOk' \in {lastOk, FALSE}
  /\ UNCHANGED <<phase, call>>

Next ==
  \/ \E c \in Call : Invoke(c)
  \/ Apply \/ ReturnNormally \/ Fail \/ LoseState

Spec == Init /\ [][Next]_vars
=============================================================================
